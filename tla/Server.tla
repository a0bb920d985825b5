--------------------------------- MODULE Server ---------------------------------
(***************************************************************************)
(* The server's components that share no state with the order: custom      *)
(* domains, mails, stores and members, the exchange with Baselinker, the   *)
(* rate limit and the intake of gateway events.                            *)
(***************************************************************************)
EXTENDS Domains, Notifications, Members, BaselinkerOrders,
        BaselinkerCatalog, RateLimit, WebhookIntake

\* The state of each component is of its type.
ServerTypeOK ==
  /\ DomainsTypeOK
  /\ NotificationsTypeOK
  /\ MembersTypeOK
  /\ BaselinkerOrdersTypeOK
  /\ BaselinkerCatalogTypeOK
  /\ RateLimitTypeOK
  /\ TypeOK
===============================================================================
