SPECIFICATION SerialSpec
CONSTANTS
  p1 = p1
  p2 = p2
  red = red
  blue = blue
  mug = mug
  NoCart = NoCart
  c1 = c1
  c2 = c2
  h1 = h1
  h2 = h2
  h3 = h3
  h4 = h4
  h5 = h5
  Products = {p1, p2}
  Skus = {red, mug}
  Variants = {}
  Parent <- PlainParent
  Carts = {c1, c2}
  Calls = {h1, h2, h3, h4, h5}
  InitialStock = 1
  MaxQuantity = 1
  Restocks = {2}
SYMMETRY CallAndCartSymmetry
INVARIANTS
  NothingIsSoldTwice
PROPERTIES
  WithdrawnStaysWithdrawn
  ImplementsWarehouse
CHECK_DEADLOCK FALSE
