-------------------------------- MODULE MCShop --------------------------------
(***************************************************************************)
(* Instances for TLC of the shop's components that share no state with the *)
(* others, the storefront with the shipping methods it reads: a behaviour  *)
(* is one of Components running, the others as they began.                 *)
(***************************************************************************)
EXTENDS Shop, TLC

CONSTANTS
  Components, \* which of the components below
  p1, p2,     \* requests: interchangeable
  q1, q2      \* products, and shipping methods: interchangeable too

VARIABLE running

\* The others stay as they began.
Stays(c) ==
  /\ IF c = "catalog" THEN TRUE ELSE UNCHANGED catalogVars
  /\ IF c = "gallery" THEN TRUE ELSE UNCHANGED galleryVars
  /\ IF c \in {"shipping", "storefront"} THEN TRUE ELSE UNCHANGED shippingVars
  /\ IF c = "storefront" THEN TRUE ELSE UNCHANGED storefrontVars
  /\ IF c = "carts" THEN TRUE ELSE UNCHANGED cartSessionsVars
  /\ UNCHANGED running

ShopInit ==
  /\ CatalogInit
  /\ GalleryInit
  /\ ShippingInit
  /\ StorefrontInit
  /\ CartSessionsInit
  /\ running \in Components

ShopNext ==
  \/ running = "catalog" /\ CatalogNext /\ Stays("catalog")
  \/ running = "gallery" /\ GalleryNext /\ Stays("gallery")
  \/ running = "shipping" /\ ShippingNext /\ Stays("shipping")
  \/ running = "storefront" /\ StorefrontNext /\ Stays("storefront")
  \/ running = "carts" /\ CartSessionsNext /\ Stays("carts")

shopVars ==
  <<catalogVars, galleryVars, shippingVars, storefrontVars, cartSessionsVars, running>>

ShopSpec == ShopInit /\ [][ShopNext]_shopVars

\* What tells two states of a behaviour apart.
StateOfRunning ==
  <<running,
    CASE running = "catalog" -> catalogVars
      [] running = "gallery" -> galleryVars
      [] running \in {"shipping", "storefront"} -> <<shippingVars, storefrontVars>>
      [] running = "carts" -> cartSessionsVars>>

-------------------------------------------------------------------------------
Interchangeable == Permutations({p1, p2}) \cup Permutations({q1, q2})

\* Bodies of createProduct and updateProduct.
Body(slug, sku, price, compareAt, stock, status, cat) ==
  [slug |-> slug, sku |-> sku, price |-> price, compareAt |-> compareAt,
   stock |-> stock, status |-> status, category |-> cat]
ProductBodies ==
  {Body("camisa", "none", 1, 2, 1, "ACTIVE", "none"),
   Body("bone", "S1", 1, 0, 0, "ACTIVE", "none"),
   Body(Keep, Keep, 2, Keep, 1, Keep, Keep),
   Body(Keep, "S1", Keep, 2, Keep, Keep, Keep)}

\* Bodies of createShippingMethod and updateShippingMethod.
Way(s, price, daysMin, daysMax, orderMin, orderMax, isDefault) ==
  [status |-> s, price |-> price, daysMin |-> daysMin, daysMax |-> daysMax,
   orderMin |-> orderMin, orderMax |-> orderMax, isDefault |-> isDefault]
MethodBodies ==
  LET L == LeftOut IN
  {Way("ACTIVE", 1, NoLimit, 2, NoLimit, NoLimit, TRUE),
   Way(L, 2, L, L, L, L, L),
   Way(L, L, 3, L, L, L, L),
   Way(L, L, L, NoLimit, 1, L, FALSE),
   Way("INACTIVE", L, L, L, L, 0, L)}

\* Those of them that offer a method and change its price.
OfferBodies == {b \in MethodBodies : b.price # LeftOut}
===============================================================================
