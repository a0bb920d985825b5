SPECIFICATION ShopSpec
CONSTANTS
  Components = {"catalog", "gallery", "shipping", "storefront", "carts"}
  Products = {q1, q2}
  Categories = {"g1"}
  Editors = {p1, p2}
  ProductInputs <- ProductBodies
  CategorySlugs = {"roupas", "novo"}
  ReservedSlugs = {"novo", "cart"}
  PageSize = 1
  Keep = Keep
  NoProduct = NoProduct
  NoRow = NoRow
  Pictured = {y1}
  NoPicture = NoPicture
  Images = {i1, i2}
  NoId = NoId
  Artists = {p1, p2}
  Unasked = Unasked
  Methods = {q1, q2}
  MethodInputs <- MethodBodies
  LeftOut = LeftOut
  NoLimit = NoLimit
  Merchants = {p1, p2}
  Parcels = {b1}
  NoMethod = NoMethod
  NoParcel = NoParcel
  Tabs = {t1}
  Hops = {p1, p2}
  Changes <- OfferBodies
  MostItems = 1
  MostOrders = 1
  MostDrops = 1
  NoTab = NoTab
  Nothing = Nothing
  Sessions = {s1}
  Emails = {e1}
  Unnamed = Unnamed
  Shoppers = {p1, p2}
  MostCarts = 2
  MostPieces = 2
  p1 = p1
  p2 = p2
  q1 = q1
  q2 = q2
INVARIANTS
  ShopTypeOK
  OffersHold
  ChargedAsShown
  SuccessHasIntent
  CartStays
SYMMETRY Interchangeable
VIEW StateOfRunning
CHECK_DEADLOCK FALSE
