SPECIFICATION SerialSpec
CONSTANTS
  p1 = p1
  p2 = p2
  red = red
  blue = blue
  mug = mug
  NoCart = NoCart
  c1 = c1
  h1 = h1
  h2 = h2
  h3 = h3
  Products = {p1}
  Skus = {red, blue}
  Variants = {red, blue}
  Parent <- ShirtParent
  Carts = {c1}
  Calls = {h1, h2, h3}
  InitialStock = 2
  MaxQuantity = 1
  Restocks = {}
SYMMETRY CallSymmetry
PROPERTIES ImplementsWarehouse
CHECK_DEADLOCK FALSE
