---------------------------------- MODULE Shop ----------------------------------
(***************************************************************************)
(* What the shop's components promise together: what merchants write, and  *)
(* what the shopper sees of a cart.  They share no state, but for the      *)
(* shipping methods the storefront reads.                                  *)
(***************************************************************************)
EXTENDS Catalog, Gallery, Storefront, CartSessions

\* The state of each component is of its type.
ShopTypeOK ==
  /\ CatalogTypeOK
  /\ GalleryTypeOK
  /\ ShippingTypeOK
  /\ StorefrontTypeOK
  /\ CartSessionsTypeOK

\* What merchants write is sound: promotions, pages, main images and limits.
OffersHold == PromotionIsLower /\ PagesCoverTheListing /\ OneMainImage /\ LimitsInOrder

\* The cart a shopper fills is found again, and is the one its page shows until the
\* page has made an order of it.
CartStays == ShopperKeepsCart /\ ShownCartIsCurrent
===============================================================================
