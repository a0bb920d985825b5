------------------------------- MODULE ShopProofs -------------------------------
(***************************************************************************)
(* The shop's components: shipping methods, products and their pages,      *)
(* images, carts of sessions, and the shopper's pages.                     *)
(***************************************************************************)
EXTENDS Shop, FiniteSetTheorems, WellFoundedInduction, TLAPS

-------------------------------------------------------------------------------
(* Shipping: for any number of methods, bodies and overlapping requests.   *)

\* A method being created is no one else's yet; an update still fits the row it
\* was judged with, unless another request has written it.
DeskFits(c) ==
  LET q == desk[c] IN
  /\ q.pc = "create" =>
       /\ q.of \in Methods /\ method[q.of] = NoMethod
       /\ q.fields \in MethodRow /\ LimitsHold(q.fields)
       /\ \A d \in Merchants \ {c} : desk[d].of # q.of
  /\ q.pc = "update" =>
       /\ q.of \in Offered /\ q.fields \in MethodBody
       /\ q.of \notin twisted => LimitsHold(Overlaid(method[q.of], q.fields))
  /\ q.pc = "ship" => q.parcel \in Parcels

ShippingOK ==
  /\ ShippingTypeOK
  /\ \A c \in Merchants : DeskFits(c)
  /\ LimitsInOrder

\* A body that leaves nothing out is a row, and a row with a body over it is one.
LEMMA BodiesMakeRows ==
  /\ \A fields \in MethodBody :
       LeftOut \notin {fields[f] : f \in DOMAIN fields} => fields \in MethodRow
  /\ \A row \in MethodRow, fields \in MethodBody : Overlaid(row, fields) \in MethodRow
<1>1. ASSUME NEW fields \in MethodBody, LeftOut \notin {fields[f] : f \in DOMAIN fields}
      PROVE  fields \in MethodRow
  <2>1. LeftOut \notin {fields.status, fields.price, fields.daysMin, fields.daysMax,
                        fields.orderMin, fields.orderMax, fields.isDefault}
    BY <1>1 DEF MethodBody
  <2> QED BY <1>1, <2>1 DEF MethodBody, MethodRow
<1>2. ASSUME NEW row \in MethodRow, NEW fields \in MethodBody
      PROVE  Overlaid(row, fields) \in MethodRow
  BY <1>2 DEF MethodBody, MethodRow, Overlaid
<1> QED BY <1>1, <1>2

\* A merchant's request begins: the others' are as they were.
LEMMA BeginningDeskKeeps ==
  ASSUME ShippingOK, NEW c \in Merchants,
         \/ \E m \in Methods, input \in MethodInputs :
              BeginCreateMethod(c, m, input) \/ BeginUpdateMethod(c, m, input)
         \/ \E o \in Parcels, m \in Methods \cup {NoMethod} : BeginShipment(c, o, m)
  PROVE  ShippingOK'
<1>1. ShippingTypeOK /\ UNCHANGED <<method, parcel, twisted>>
  BY DEF ShippingOK, BeginCreateMethod, BeginUpdateMethod, BeginShipment
<1> DEFINE DeskRow == [pc : {"idle", "create", "update", "ship"}, of : Methods \cup {NoMethod},
                       fields : MethodInputs \cup {NoMethod}, parcel : Parcels \cup {NoParcel}]
<1>2. ASSUME NEW q \in DeskRow, DeskGoes(c, q),
             q.of \in Methods => method[q.of] # NoMethod \/ \A d \in Merchants : desk[d].of # q.of,
             q.pc \in {"create", "update", "ship"},
             q.pc = "create" =>
               /\ q.of \in Methods /\ method[q.of] = NoMethod
               /\ \A d \in Merchants : desk[d].of # q.of
               /\ q.fields \in MethodRow /\ LimitsHold(q.fields),
             q.pc = "update" =>
               /\ q.of \in Offered /\ q.fields \in MethodBody
               /\ LimitsHold(Overlaid(method[q.of], q.fields)),
             q.pc = "ship" => q.parcel \in Parcels
      PROVE  ShippingOK'
  <2>1. desk \in [Merchants -> DeskRow] /\ desk' = [desk EXCEPT ![c] = q]
    BY <1>1, <1>2 DEF ShippingTypeOK, DeskGoes
  <2> HIDE DEF DeskRow
  <2>2. desk' \in [Merchants -> DeskRow] /\ desk'[c] = q
        /\ \A d \in Merchants \ {c} : desk'[d] = desk[d]
    BY <2>1, <1>2
  <2>3. ShippingTypeOK'
    BY <1>1, <2>2 DEF ShippingTypeOK, DeskRow
  <2>4. DeskFits(c)'
    BY <1>1, <1>2, <2>2 DEF DeskFits, Offered
  <2>5. ASSUME NEW d \in Merchants \ {c} PROVE DeskFits(d)'
    <3>1. DeskFits(d) /\ desk'[d] = desk[d]
      BY <2>2 DEF ShippingOK
    <3>2. desk[d].pc = "create" => q.of # desk[d].of
      BY <1>2, <3>1 DEF DeskFits
    <3> QED BY <1>1, <2>2, <3>1, <3>2 DEF DeskFits, Offered
  <2>6. LimitsInOrder'
    BY <1>1 DEF ShippingOK, LimitsInOrder, Offered
  <2> QED BY <2>3, <2>4, <2>5, <2>6 DEF ShippingOK
<1>3. ASSUME NEW m \in Methods, NEW input \in MethodInputs, BeginCreateMethod(c, m, input)
      PROVE  ShippingOK'
  <2> DEFINE q == [IdleDesk EXCEPT !.pc = "create", !.of = m, !.fields = input]
  <2>1. q \in DeskRow /\ q.pc = "create" /\ q.of = m /\ q.fields = input
    BY DEF IdleDesk
  <2>2. input \in MethodRow
    BY <1>3, BodiesMakeRows, ShippingAssumption DEF BeginCreateMethod, ShippingAssumption
  <2>3. /\ DeskGoes(c, q) /\ method[m] = NoMethod /\ LimitsHold(input)
        /\ \A d \in Merchants : desk[d].of # m
    BY <1>3 DEF BeginCreateMethod
  <2> HIDE DEF q, DeskRow
  <2> QED BY <1>2, <2>1, <2>2, <2>3
<1>4. ASSUME NEW m \in Methods, NEW input \in MethodInputs, BeginUpdateMethod(c, m, input)
      PROVE  ShippingOK'
  <2> DEFINE q == [IdleDesk EXCEPT !.pc = "update", !.of = m, !.fields = input]
  <2>1. q \in DeskRow /\ q.pc = "update" /\ q.of = m /\ q.fields = input
    BY DEF IdleDesk
  <2>2. input \in MethodBody
    BY ShippingAssumption DEF ShippingAssumption
  <2>3. DeskGoes(c, q) /\ m \in Offered /\ LimitsHold(Overlaid(method[m], input))
    BY <1>4 DEF BeginUpdateMethod, Offered
  <2> HIDE DEF q, DeskRow
  <2> QED BY <1>2, <2>1, <2>2, <2>3 DEF Offered
<1>5. ASSUME NEW o \in Parcels, NEW m \in Methods \cup {NoMethod}, BeginShipment(c, o, m)
      PROVE  ShippingOK'
  <2> DEFINE q == [IdleDesk EXCEPT !.pc = "ship", !.of = m, !.parcel = o]
  <2>1. q \in DeskRow /\ q.pc = "ship" /\ q.of = m /\ q.parcel = o
    BY DEF IdleDesk
  <2>2. DeskGoes(c, q) /\ m \in Offered \cup {NoMethod}
    BY <1>5 DEF BeginShipment
  <2> HIDE DEF q, DeskRow
  <2> QED BY <1>2, <2>1, <2>2, ShippingAssumption DEF Offered, ShippingAssumption
<1> QED BY <1>3, <1>4, <1>5

\* What is written was judged with the row as it is, or the method is twisted.
LEMMA WritingMethodKeeps ==
  ASSUME ShippingOK, NEW c \in Merchants, WriteMethod(c)
  PROVE  ShippingOK'
<1>1. PICK m, fields : m = desk[c].of /\ fields = desk[c].fields
  OBVIOUS
<1> DEFINE row == IF desk[c].pc = "create" THEN fields ELSE Overlaid(method[m], fields)
<1>2. /\ ShippingTypeOK /\ DeskFits(c) /\ desk[c].pc \in {"create", "update"}
      /\ method' = [method EXCEPT ![m] = row]
      /\ twisted' = IF \E d \in Merchants \ {c} : desk[d].of = m THEN twisted \cup {m} ELSE twisted
      /\ desk' = [desk EXCEPT ![c] = IdleDesk]
      /\ UNCHANGED parcel
  BY <1>1 DEF ShippingOK, WriteMethod, DeskAt, DeskGoes
<1>3. m \in Methods /\ row \in MethodRow /\ (m \notin twisted => LimitsHold(row))
  <2>1. CASE desk[c].pc = "create"
    BY <1>1, <1>2, <2>1 DEF DeskFits
  <2>2. CASE desk[c].pc = "update"
    <3>1. m \in Offered /\ fields \in MethodBody /\ (m \notin twisted => LimitsHold(row))
      BY <1>1, <1>2, <2>2 DEF DeskFits
    <3>2. m \in Methods /\ method[m] \in MethodRow
      BY <1>2, <3>1 DEF Offered, ShippingTypeOK
    <3> QED BY <2>2, <3>1, <3>2, BodiesMakeRows
  <2> QED BY <1>2, <2>1, <2>2
<1>4. /\ method' \in [Methods -> MethodRow \cup {NoMethod}] /\ method'[m] = row
      /\ \A n \in Methods \ {m} : method'[n] = method[n]
  BY <1>2, <1>3 DEF ShippingTypeOK
<1> HIDE DEF row
<1>5. row # NoMethod
  BY <1>3, ShippingAssumption DEF ShippingAssumption
<1>6. /\ desk'[c] = IdleDesk /\ \A d \in Merchants \ {c} : desk'[d] = desk[d]
      /\ ShippingTypeOK'
  BY <1>2, <1>3, <1>4 DEF ShippingTypeOK, IdleDesk
<1>7. DeskFits(c)'
  BY <1>6 DEF DeskFits, IdleDesk
<1>8. ASSUME NEW d \in Merchants \ {c} PROVE DeskFits(d)'
  <2>1. DeskFits(d) /\ desk'[d] = desk[d]
    BY <1>6 DEF ShippingOK
  <2>2. desk[d].pc = "create" => desk[d].of # m
    BY <1>1, <2>1 DEF DeskFits
  <2>3. desk[d].pc = "create" => method'[desk[d].of] = method[desk[d].of]
                               /\ \A g \in Merchants \ {d} : desk'[g].of # desk[d].of
    <3>1. ASSUME desk[d].pc = "create" PROVE IdleDesk.of # desk[d].of
      BY <2>1, <3>1, ShippingAssumption DEF DeskFits, IdleDesk, ShippingAssumption
    <3> QED BY <1>4, <1>6, <2>1, <2>2, <3>1 DEF DeskFits
  <2>4. ASSUME desk[d].pc = "update"
        PROVE  /\ desk[d].of \in Offered'
               /\ desk[d].of \notin twisted' =>
                    LimitsHold(Overlaid(method'[desk[d].of], desk[d].fields))
    <3>1. CASE desk[d].of = m
      BY <1>2, <1>3, <1>4, <1>5, <3>1 DEF Offered
    <3>2. CASE desk[d].of # m
      BY <1>2, <1>4, <2>1, <2>4, <3>2 DEF DeskFits, Offered
    <3> QED BY <3>1, <3>2
  <2> QED BY <2>1, <2>3, <2>4 DEF DeskFits
<1>9. LimitsInOrder'
  <2>1. ASSUME NEW n \in Offered' \ twisted' PROVE LimitsHold(method'[n])
    <3>1. CASE n = m
      BY <1>2, <1>3, <1>4, <2>1, <3>1
    <3>2. CASE n # m
      BY <1>2, <1>4, <2>1, <3>2 DEF ShippingOK, LimitsInOrder, Offered
    <3> QED BY <3>1, <3>2
  <2> QED BY <2>1 DEF LimitsInOrder
<1> QED BY <1>6, <1>7, <1>8, <1>9 DEF ShippingOK

\* A shipment's row is written once.
LEMMA WritingShipmentKeeps ==
  ASSUME ShippingOK, NEW c \in Merchants, WriteShipment(c)
  PROVE  ShippingOK'
<1>1. /\ ShippingTypeOK /\ DeskFits(c) /\ desk[c].pc = "ship"
      /\ desk' = [desk EXCEPT ![c] = IdleDesk] /\ UNCHANGED <<method, twisted>>
      /\ parcel' = IF parcel[desk[c].parcel] = "none"
                   THEN [parcel EXCEPT ![desk[c].parcel] = desk[c].of] ELSE parcel
  BY DEF ShippingOK, WriteShipment, DeskAt, DeskGoes
<1>2. desk'[c] = IdleDesk /\ \A d \in Merchants \ {c} : desk'[d] = desk[d]
  BY <1>1 DEF ShippingTypeOK
<1>3. ShippingTypeOK'
  BY <1>1 DEF ShippingTypeOK, DeskFits, IdleDesk
<1>4. DeskFits(c)'
  BY <1>2 DEF DeskFits, IdleDesk
<1>5. ASSUME NEW d \in Merchants \ {c} PROVE DeskFits(d)'
  <2>1. DeskFits(d) /\ desk'[d] = desk[d]
    BY <1>2 DEF ShippingOK
  <2>2. desk[d].pc = "create" => IdleDesk.of # desk[d].of
    BY <2>1, ShippingAssumption DEF DeskFits, IdleDesk, ShippingAssumption
  <2> QED BY <1>1, <1>2, <2>1, <2>2 DEF DeskFits, Offered
<1>6. LimitsInOrder'
  BY <1>1 DEF ShippingOK, LimitsInOrder, Offered
<1> QED BY <1>3, <1>4, <1>5, <1>6 DEF ShippingOK

\* Every method written by itself has its limits in order.
LEMMA ShippingAlways == ShippingSpec => []ShippingOK
<1>1. ShippingInit => ShippingOK
  BY DEF ShippingInit, ShippingOK, ShippingTypeOK, DeskFits, LimitsInOrder, Offered, IdleDesk
<1>2. ShippingOK /\ [ShippingNext]_shippingVars => ShippingOK'
  <2> SUFFICES ASSUME ShippingOK, [ShippingNext]_shippingVars PROVE ShippingOK'
    OBVIOUS
  <2>1. CASE UNCHANGED shippingVars
    BY <2>1 DEF shippingVars, ShippingOK, ShippingTypeOK, DeskFits, LimitsInOrder, Offered
  <2> QED BY <2>1, BeginningDeskKeeps, WritingMethodKeeps, WritingShipmentKeeps DEF ShippingNext
<1> QED BY <1>1, <1>2, PTL DEF ShippingSpec

-------------------------------------------------------------------------------
(* Carts of sessions and e-mails: any number of overlapping requests.      *)

CartRow == [session : Sessions \cup {Unnamed}, email : Emails \cup {Unnamed},
            open : BOOLEAN, items : SUBSET (1..MostPieces)]
VisitRow == [pc : {"idle", "session", "email", "create", "add", "answer", "commit"},
             session : Sessions \cup {Unnamed}, email : Emails \cup {Unnamed},
             adds : BOOLEAN, cart : 0..MostCarts, seen : SUBSET (1..MostPieces)]

\* What a request has found, or has not found, is still so, unless another
\* sought the same cart or added to the one that is being closed.
VisitFits(q) ==
  /\ q.pc \in {"email", "create"} =>
       q.session \in twinned \cup {Unnamed}
         \/ \A i \in 1..Len(carts) : carts[i].open => carts[i].session # q.session
  /\ q.pc = "create" =>
       q.email \in twinned \cup {Unnamed}
         \/ \A i \in 1..Len(carts) : carts[i].open => carts[i].email # q.email
  /\ q.pc \in {"add", "answer", "commit"} => q.cart \in 1..Len(carts)
  /\ q.pc \in {"session", "email", "create", "add"} => q.seen = {}
  /\ q.pc = "answer" => q.seen \subseteq carts[q.cart].items
  /\ q.pc = "commit" => carts[q.cart].items \subseteq q.seen \cup caught
  /\ q.seen \subseteq 1..pieces

\* Two active carts of one shopper are of one whose cart was sought twice at once.
CartAlone(i) ==
  carts[i].open => \A j \in 1..Len(carts) : carts[j].open =>
    /\ carts[i].session = carts[j].session => i = j \/ carts[i].session \in twinned \cup {Unnamed}
    /\ carts[i].email = carts[j].email => i = j \/ carts[i].email \in twinned \cup {Unnamed}

AddedStays ==
  \A p \in added : p \in ordered \cup caught
    \/ \E i \in 1..Len(carts) : carts[i].open /\ p \in carts[i].items

CartSessionsOK ==
  /\ CartSessionsTypeOK
  /\ \A i \in 1..Len(carts) : carts[i].items \subseteq 1..pieces
  /\ \A v \in Shoppers : VisitFits(visit[v])
  /\ \A i \in 1..Len(carts) : CartAlone(i)
  /\ AddedStays

\* A request's step changes its own row and no other.
LEMMA VisitGoesOn ==
  ASSUME CartSessionsTypeOK, NEW v \in Shoppers, NEW q \in VisitRow, VisitGoes(v, q)
  PROVE  /\ visit' \in [Shoppers -> VisitRow] /\ visit'[v] = q
         /\ \A w \in Shoppers \ {v} : visit'[w] = visit[w]
<1>1. visit \in [Shoppers -> VisitRow] /\ visit' = [visit EXCEPT ![v] = q]
  BY DEF CartSessionsTypeOK, VisitGoes, VisitRow
<1> QED BY <1>1

\* A shopper without a request has a row too, and has seen no cart.
LEMMA NoVisitIsIdle == NoVisit \in VisitRow /\ NoVisit.pc = "idle" /\ NoVisit.seen = {}
<1>1. 0 \in 0..MostCarts
  BY CartSessionsAssumption DEF CartSessionsAssumption
<1> QED BY <1>1 DEF NoVisit, VisitRow

\* A request reads, and nothing but itself changes.
LEMMA LookingKeeps ==
  ASSUME CartSessionsOK, NEW v \in Shoppers, NEW q \in VisitRow, VisitGoes(v, q), VisitFits(q),
         UNCHANGED <<carts, pieces, added, ordered, twinned, caught>>
  PROVE  CartSessionsOK'
<1>1. /\ visit' \in [Shoppers -> VisitRow] /\ visit'[v] = q
      /\ \A w \in Shoppers \ {v} : visit'[w] = visit[w]
  BY VisitGoesOn DEF CartSessionsOK
<1>2. CartSessionsTypeOK'
  BY <1>1 DEF CartSessionsOK, CartSessionsTypeOK, VisitRow
<1>3. ASSUME NEW w \in Shoppers PROVE VisitFits(visit[w])'
  <2>1. VisitFits(visit'[w])
    BY <1>1 DEF CartSessionsOK
  <2> QED BY <2>1 DEF VisitFits
<1>4. (\A i \in 1..Len(carts) : carts[i].items \subseteq 1..pieces /\ CartAlone(i))' /\ AddedStays'
  BY DEF CartSessionsOK, CartAlone, AddedStays
<1> QED BY <1>2, <1>3, <1>4 DEF CartSessionsOK

\* The cart a lookup finds is there, and one it does not find is not.
LEMMA FindingFinds ==
  ASSUME CartSessionsOK
  PROVE  /\ \A s : ActiveOfSession(s) \subseteq 1..Len(carts)
         /\ \A e : ActiveOfEmail(e) \subseteq 1..Len(carts)
         /\ \A s : s \notin twinned \cup {Unnamed} =>
              \A i \in 1..Len(carts) : carts[i].open /\ carts[i].session = s =>
                ActiveOfSession(s) = {i}
         /\ \A e : e \notin twinned \cup {Unnamed} =>
              \A i \in 1..Len(carts) : carts[i].open /\ carts[i].email = e =>
                ActiveOfEmail(e) = {i}
<1>1. \A i \in 1..Len(carts) : CartAlone(i) /\ i \in Int /\ i <= i
  BY DEF CartSessionsOK, CartSessionsTypeOK
<1>2. \A i \in Int : Latest({i}) = {i}
  BY DEF Latest
<1>3. ASSUME NEW s, s \notin twinned \cup {Unnamed}, NEW i \in 1..Len(carts),
             carts[i].open, carts[i].session = s
      PROVE  ActiveOfSession(s) = {i}
  <2>1. {j \in 1..Len(carts) : carts[j].open /\ carts[j].session = s} = {i}
    BY <1>1, <1>3 DEF CartAlone
  <2> QED BY <1>1, <1>2, <2>1 DEF ActiveOfSession
<1>4. ASSUME NEW e, e \notin twinned \cup {Unnamed}, NEW i \in 1..Len(carts),
             carts[i].open, carts[i].email = e
      PROVE  ActiveOfEmail(e) = {i}
  <2>1. {j \in 1..Len(carts) : carts[j].open /\ carts[j].email = e} = {i}
    BY <1>1, <1>4 DEF CartAlone
  <2> QED BY <1>1, <1>2, <2>1 DEF ActiveOfEmail
<1> QED BY <1>3, <1>4 DEF ActiveOfSession, ActiveOfEmail, Latest

\* What only reads: the two lookups, a piece that is refused, a new visit.
LEMMA LookupsKeep ==
  ASSUME CartSessionsOK, NEW v \in Shoppers,
         FindBySession(v) \/ FindByEmail(v) \/ PieceRefused(v)
           \/ \E s \in Sessions \cup {Unnamed}, e \in Emails \cup {Unnamed}, adds \in BOOLEAN :
                Visit(v, s, e, adds)
  PROVE  CartSessionsOK'
<1>1. /\ CartSessionsTypeOK /\ visit[v] \in VisitRow /\ VisitFits(visit[v])
      /\ Len(carts) \in Nat /\ Len(carts) <= MostCarts /\ MostCarts \in Nat
  BY CartSessionsAssumption DEF CartSessionsOK, CartSessionsTypeOK, VisitRow, CartSessionsAssumption
<1>2. PICK s, e : s = visit[v].session /\ e = visit[v].email
  OBVIOUS
<1>3. ASSUME FindBySession(v) PROVE CartSessionsOK'
  <2> DEFINE found == IF s = Unnamed THEN {} ELSE ActiveOfSession(s)
             q == Ensured(v, found, "email")
  <2>1. found \subseteq 1..Len(carts) /\ visit[v].pc = "session" /\ VisitGoes(v, q)
    BY <1>1, <1>2, <1>3, FindingFinds DEF FindBySession, VisitAt
  <2>2. found = {} => s \in twinned \cup {Unnamed} \/ \A i \in 1..Len(carts) : carts[i].open => carts[i].session # s
    <3> SUFFICES ASSUME found = {}, s \notin twinned \cup {Unnamed}, NEW i \in 1..Len(carts),
                        carts[i].open, carts[i].session = s
                 PROVE  FALSE
      OBVIOUS
    <3>1. ActiveOfSession(s) = {i}
      BY FindingFinds
    <3>2. found = {i}
      BY <3>1
    <3> QED BY <3>2
  <2> HIDE DEF found
  <2>3. q \in VisitRow /\ VisitFits(q)
    <3>1. CASE found = {}
      <4>1. q = [visit[v] EXCEPT !.pc = "email"]
        BY <3>1 DEF Ensured
      <4> QED BY <1>1, <1>2, <2>1, <2>2, <3>1, <4>1 DEF VisitRow, VisitFits
    <3>2. CASE found # {}
      <4>1. PICK i : i = CHOOSE j \in found : TRUE
        OBVIOUS
      <4>2. i \in 1..Len(carts)
        BY <2>1, <3>2, <4>1
      <4>3. q = [visit[v] EXCEPT !.pc = IF visit[v].adds THEN "add" ELSE "answer", !.cart = i]
        BY <3>2, <4>1 DEF Ensured
      <4>4. visit[v].seen = {}
        BY <1>1, <2>1 DEF VisitFits
      <4>5. i \in 0..MostCarts
        BY <1>1, <4>2
      <4>6. q \in VisitRow /\ q.cart = i /\ q.seen = {} /\ q.pc \in {"add", "answer"}
        BY <1>1, <4>3, <4>4, <4>5 DEF VisitRow
      <4> HIDE DEF q
      <4> QED BY <4>2, <4>6 DEF VisitFits
    <3> QED BY <3>1, <3>2
  <2> QED BY <1>3, <2>1, <2>3, LookingKeeps DEF FindBySession
<1>4. ASSUME FindByEmail(v) PROVE CartSessionsOK'
  <2> DEFINE found == IF e = Unnamed THEN {} ELSE ActiveOfEmail(e)
             q == Ensured(v, found, "create")
  <2>1. found \subseteq 1..Len(carts) /\ visit[v].pc = "email" /\ VisitGoes(v, q)
    BY <1>1, <1>2, <1>4, FindingFinds DEF FindByEmail, VisitAt
  <2>2. found = {} => e \in twinned \cup {Unnamed} \/ \A i \in 1..Len(carts) : carts[i].open => carts[i].email # e
    <3> SUFFICES ASSUME found = {}, e \notin twinned \cup {Unnamed}, NEW i \in 1..Len(carts),
                        carts[i].open, carts[i].email = e
                 PROVE  FALSE
      OBVIOUS
    <3>1. ActiveOfEmail(e) = {i}
      BY FindingFinds
    <3>2. found = {i}
      BY <3>1
    <3> QED BY <3>2
  <2> HIDE DEF found
  <2>3. q \in VisitRow /\ VisitFits(q)
    <3>1. CASE found = {}
      <4>1. q = [visit[v] EXCEPT !.pc = "create"]
        BY <3>1 DEF Ensured
      <4> QED BY <1>1, <1>2, <2>1, <2>2, <3>1, <4>1 DEF VisitRow, VisitFits
    <3>2. CASE found # {}
      <4>1. PICK i : i = CHOOSE j \in found : TRUE
        OBVIOUS
      <4>2. i \in 1..Len(carts)
        BY <2>1, <3>2, <4>1
      <4>3. q = [visit[v] EXCEPT !.pc = IF visit[v].adds THEN "add" ELSE "answer", !.cart = i]
        BY <3>2, <4>1 DEF Ensured
      <4>4. visit[v].seen = {}
        BY <1>1, <2>1 DEF VisitFits
      <4>5. i \in 0..MostCarts
        BY <1>1, <4>2
      <4>6. q \in VisitRow /\ q.cart = i /\ q.seen = {} /\ q.pc \in {"add", "answer"}
        BY <1>1, <4>3, <4>4, <4>5 DEF VisitRow
      <4> HIDE DEF q
      <4> QED BY <4>2, <4>6 DEF VisitFits
    <3> QED BY <3>1, <3>2
  <2> QED BY <1>4, <2>1, <2>3, LookingKeeps DEF FindByEmail
<1>5. NoVisit \in VisitRow /\ VisitFits(NoVisit)
  BY NoVisitIsIdle DEF VisitFits
<1>6. ASSUME PieceRefused(v) PROVE CartSessionsOK'
  BY <1>5, <1>6, LookingKeeps DEF PieceRefused
<1>7. ASSUME NEW r \in Sessions \cup {Unnamed}, NEW a \in Emails \cup {Unnamed},
             NEW adds \in BOOLEAN, Visit(v, r, a, adds)
      PROVE  CartSessionsOK'
  <2> DEFINE q == [NoVisit EXCEPT !.pc = "session", !.session = r, !.email = a, !.adds = adds]
  <2>1. q \in VisitRow /\ q.pc = "session" /\ q.seen = {}
    BY NoVisitIsIdle DEF VisitRow
  <2>2. VisitFits(q)
    BY <2>1 DEF VisitFits
  <2> QED BY <1>7, <2>1, <2>2, LookingKeeps DEF Visit
<1> QED BY <1>3, <1>4, <1>6, <1>7

\* A new cart is one its shopper had none of, or the shopper is twinned.
LEMMA CreatingKeeps ==
  ASSUME CartSessionsOK, NEW v \in Shoppers, CreateCart(v)
  PROVE  CartSessionsOK'
<1>1. PICK s, e, n : s = visit[v].session /\ e = visit[v].email /\ n = Len(carts)
  OBVIOUS
<1> DEFINE q == Ensured(v, {n + 1}, "idle")
           row == [session |-> s, email |-> e, open |-> TRUE, items |-> {}]
<1>2. /\ CartSessionsTypeOK /\ visit[v] \in VisitRow /\ VisitFits(visit[v])
      /\ carts \in Seq(CartRow) /\ n \in Nat /\ n < MostCarts /\ MostCarts \in Nat
      /\ visit[v].pc = "create" /\ visit[v].seen = {} /\ row \in CartRow
  BY <1>1, CartSessionsAssumption
  DEF CreateCart, VisitAt, CartSessionsOK, CartSessionsTypeOK, VisitRow, CartRow, VisitFits,
      CartSessionsAssumption
<1>3. /\ carts' = Append(carts, row) /\ VisitGoes(v, q)
      /\ twinned' = twinned
          \cup (({s, e} \ {Unnamed})
                 \cap UNION {{visit[w].session, visit[w].email} : w \in Seeking(v)})
      /\ UNCHANGED <<pieces, added, ordered, caught>>
  BY <1>1 DEF CreateCart
<1>4. q = [visit[v] EXCEPT !.pc = IF visit[v].adds THEN "add" ELSE "answer", !.cart = n + 1]
  <2>1. {n + 1} # {} /\ (CHOOSE i \in {n + 1} : TRUE) = n + 1
    OBVIOUS
  <2> QED BY <2>1 DEF Ensured
<1>5. q \in VisitRow /\ q.pc \in {"add", "answer"} /\ q.cart = n + 1 /\ q.seen = {}
  <2>1. n + 1 \in 0..MostCarts
    BY <1>2
  <2> QED BY <1>2, <1>4, <2>1 DEF VisitRow
<1> HIDE DEF q, row
<1>6. /\ visit' \in [Shoppers -> VisitRow] /\ visit'[v] = q
      /\ \A w \in Shoppers \ {v} : visit'[w] = visit[w]
  BY <1>2, <1>3, <1>5, VisitGoesOn
<1>7. /\ carts' \in Seq(CartRow) /\ Len(carts') = n + 1 /\ carts'[n + 1] = row
      /\ \A i \in 1..n : carts'[i] = carts[i]
      /\ \A i \in 1..Len(carts') : i \in 1..n \/ i = n + 1
  BY <1>1, <1>2, <1>3
<1>8. row.session = s /\ row.email = e /\ row.items = {}
  BY DEF row
<1>9. twinned \subseteq twinned' /\ twinned' \subseteq Sessions \cup Emails
  BY <1>1, <1>2, <1>3 DEF CartSessionsTypeOK, VisitRow
<1>10. CartSessionsTypeOK'
  BY <1>2, <1>3, <1>6, <1>7, <1>9 DEF CartSessionsTypeOK, CartRow, VisitRow
<1>11. ASSUME NEW i \in 1..Len(carts') PROVE carts'[i].items \subseteq 1..pieces'
  BY <1>1, <1>3, <1>7, <1>8 DEF CartSessionsOK
<1>12. VisitFits(visit[v])'
  BY <1>5, <1>6, <1>7, <1>2 DEF VisitFits
<1>13. ASSUME NEW w \in Shoppers \ {v} PROVE VisitFits(visit[w])'
  <2>1. VisitFits(visit[w]) /\ visit'[w] = visit[w]
    BY <1>6 DEF CartSessionsOK
  <2>2. visit[w].pc \in {"email", "create"} =>
          /\ visit[w].session = s => s \in twinned' \cup {Unnamed}
          /\ visit[w].email = e => e \in twinned' \cup {Unnamed}
    BY <1>3 DEF Seeking
  <2>3. visit[w].pc \in {"email", "create"} =>
          visit[w].session \in twinned' \cup {Unnamed}
            \/ \A i \in 1..Len(carts') : carts'[i].open => carts'[i].session # visit[w].session
    BY <1>1, <1>7, <1>8, <1>9, <2>1, <2>2 DEF VisitFits
  <2>4. visit[w].pc = "create" =>
          visit[w].email \in twinned' \cup {Unnamed}
            \/ \A i \in 1..Len(carts') : carts'[i].open => carts'[i].email # visit[w].email
    BY <1>1, <1>7, <1>8, <1>9, <2>1, <2>2 DEF VisitFits
  <2>5. visit[w].pc \in {"add", "answer", "commit"} =>
          visit[w].cart \in 1..n /\ visit[w].cart \in 1..Len(carts')
            /\ carts'[visit[w].cart] = carts[visit[w].cart]
    BY <1>1, <1>2, <1>7, <2>1 DEF VisitFits
  <2> QED BY <1>3, <2>1, <2>3, <2>4, <2>5 DEF VisitFits
<1>14. ASSUME NEW i \in 1..Len(carts') PROVE CartAlone(i)'
  <2>1. \A j \in 1..n : carts[j].open =>
          /\ carts[j].session # s \/ s \in twinned' \cup {Unnamed}
          /\ carts[j].email # e \/ e \in twinned' \cup {Unnamed}
    BY <1>1, <1>2, <1>9 DEF VisitFits
  <2>2. CASE i = n + 1
    BY <1>7, <1>8, <2>1, <2>2 DEF CartAlone
  <2>3. CASE i \in 1..n
    <3>1. CartAlone(i) /\ carts'[i] = carts[i]
      BY <1>1, <1>7, <2>3 DEF CartSessionsOK
    <3> QED BY <1>1, <1>7, <1>8, <1>9, <2>1, <2>3, <3>1 DEF CartAlone
  <2> QED BY <1>7, <2>2, <2>3
<1>15. AddedStays'
  BY <1>1, <1>2, <1>3, <1>7 DEF CartSessionsOK, AddedStays
<1> QED BY <1>10, <1>11, <1>12, <1>13, <1>14, <1>15, <1>6 DEF CartSessionsOK

\* An item is in its cart, and caught when the cart is being closed.
LEMMA AddingKeeps ==
  ASSUME CartSessionsOK, NEW v \in Shoppers, AddPiece(v)
  PROVE  CartSessionsOK'
<1>1. PICK i, p : i = visit[v].cart /\ p = pieces + 1
  OBVIOUS
<1> DEFINE q == [visit[v] EXCEPT !.pc = "answer", !.seen = {p}]
<1>2. /\ CartSessionsTypeOK /\ visit[v] \in VisitRow /\ VisitFits(visit[v])
      /\ carts \in Seq(CartRow) /\ pieces \in Nat /\ p \in 1..MostPieces
      /\ visit[v].pc = "add" /\ i \in 1..Len(carts)
  BY <1>1, CartSessionsAssumption
  DEF AddPiece, VisitAt, CartSessionsOK, CartSessionsTypeOK, VisitRow, CartRow, VisitFits,
      CartSessionsAssumption
<1>3. /\ carts' = [carts EXCEPT ![i].items = @ \cup {p}] /\ VisitGoes(v, q)
      /\ pieces' = p
      /\ caught' = caught
           \cup {p : w \in {x \in Shoppers : visit[x].pc = "commit" /\ visit[x].cart = i}}
      /\ UNCHANGED <<added, ordered, twinned>>
  BY <1>1 DEF AddPiece, VisitAt
<1>4. q \in VisitRow /\ q.pc = "answer" /\ q.cart = i /\ q.seen = {p}
  BY <1>1, <1>2 DEF VisitRow
<1> HIDE DEF q
<1>5. /\ visit' \in [Shoppers -> VisitRow] /\ visit'[v] = q
      /\ \A w \in Shoppers \ {v} : visit'[w] = visit[w]
  BY <1>2, <1>3, <1>4, VisitGoesOn
<1>6. /\ carts' \in Seq(CartRow) /\ Len(carts') = Len(carts)
      /\ carts'[i].items = carts[i].items \cup {p}
      /\ \A j \in 1..Len(carts) : carts'[j].session = carts[j].session
           /\ carts'[j].email = carts[j].email /\ carts'[j].open = carts[j].open
      /\ \A j \in 1..Len(carts) : j # i => carts'[j].items = carts[j].items
  <2> DEFINE row == [carts[i] EXCEPT !.items = carts[i].items \cup {p}]
  <2>1. carts' = [carts EXCEPT ![i] = row] /\ carts[i] \in CartRow
    BY <1>2, <1>3
  <2>2. /\ row \in CartRow /\ row.items = carts[i].items \cup {p}
        /\ row.session = carts[i].session /\ row.email = carts[i].email
        /\ row.open = carts[i].open
    BY <1>2, <2>1 DEF CartRow
  <2> HIDE DEF row
  <2>3. carts' \in Seq(CartRow) /\ Len(carts') = Len(carts) /\ carts'[i] = row
        /\ \A j \in 1..Len(carts) : j # i => carts'[j] = carts[j]
    BY <1>2, <2>1, <2>2
  <2> QED BY <2>2, <2>3
<1>7. /\ 1..pieces \subseteq 1..pieces' /\ p \in 1..pieces' /\ pieces' \in 0..MostPieces
      /\ caught \subseteq caught' /\ caught' \subseteq caught \cup {p}
  BY <1>1, <1>2, <1>3
<1>8. CartSessionsTypeOK'
  BY <1>2, <1>3, <1>5, <1>6, <1>7 DEF CartSessionsTypeOK, CartRow, VisitRow
<1>9. ASSUME NEW j \in 1..Len(carts') PROVE carts'[j].items \subseteq 1..pieces'
  <2>1. carts[j].items \subseteq 1..pieces
    BY <1>6 DEF CartSessionsOK
  <2> QED BY <1>6, <1>7, <2>1
<1>10. VisitFits(visit[v])'
  BY <1>2, <1>4, <1>5, <1>6, <1>7 DEF VisitFits
<1>11. ASSUME NEW w \in Shoppers \ {v} PROVE VisitFits(visit[w])'
  <2>1. VisitFits(visit[w]) /\ visit'[w] = visit[w]
    BY <1>5 DEF CartSessionsOK
  <2>2. visit[w].pc = "commit" => carts'[visit[w].cart].items \subseteq visit[w].seen \cup caught'
    <3>1. CASE visit[w].cart = i
      BY <1>3, <1>6, <2>1, <3>1 DEF VisitFits
    <3>2. CASE visit[w].cart # i
      BY <1>6, <1>7, <2>1, <3>2 DEF VisitFits
    <3> QED BY <3>1, <3>2
  <2>3. visit[w].pc = "answer" => visit[w].seen \subseteq carts'[visit[w].cart].items
    BY <1>6, <2>1 DEF VisitFits
  <2> QED BY <1>3, <1>6, <1>7, <2>1, <2>2, <2>3 DEF VisitFits
<1>12. ASSUME NEW j \in 1..Len(carts') PROVE CartAlone(j)'
  <2>1. CartAlone(j)
    BY <1>6 DEF CartSessionsOK
  <2> QED BY <1>3, <1>6, <2>1 DEF CartAlone
<1>13. AddedStays'
  <2>1. \A j \in 1..Len(carts) : carts[j].items \subseteq carts'[j].items
    BY <1>6
  <2> QED BY <1>3, <1>6, <1>7, <2>1 DEF CartSessionsOK, AddedStays
<1> QED BY <1>5, <1>8, <1>9, <1>10, <1>11, <1>12, <1>13 DEF CartSessionsOK

\* The answer adds what the visit saw to what the cart was given, if it is open.
LEMMA AnsweringVisitKeeps ==
  ASSUME CartSessionsOK, NEW v \in Shoppers, AnswerVisit(v)
  PROVE  CartSessionsOK'
<1>1. PICK i, seen : i = visit[v].cart /\ seen = visit[v].seen
  OBVIOUS
<1>2. /\ CartSessionsTypeOK /\ visit[v] \in VisitRow /\ NoVisit \in VisitRow
      /\ VisitGoes(v, NoVisit) /\ UNCHANGED <<carts, pieces, ordered, twinned, caught>>
      /\ added' = IF carts[i].open THEN added \cup seen ELSE added
  BY <1>1, CartSessionsAssumption
  DEF AnswerVisit, CartSessionsOK, CartSessionsTypeOK, VisitRow, NoVisit, CartSessionsAssumption
<1>3. i \in 1..Len(carts) /\ seen \subseteq carts[i].items /\ seen \subseteq 1..pieces
  BY <1>1 DEF AnswerVisit, VisitAt, CartSessionsOK, VisitFits
<1>4. /\ visit' \in [Shoppers -> VisitRow] /\ visit'[v] = NoVisit
      /\ \A w \in Shoppers \ {v} : visit'[w] = visit[w]
  BY <1>2, VisitGoesOn
<1>5. CartSessionsTypeOK'
  BY <1>2, <1>3, <1>4 DEF CartSessionsTypeOK, VisitRow
<1>6. ASSUME NEW w \in Shoppers PROVE VisitFits(visit[w])'
  <2>1. VisitFits(visit'[w])
    BY <1>4 DEF CartSessionsOK, VisitFits, NoVisit
  <2> QED BY <1>2, <2>1 DEF VisitFits
<1>7. (\A j \in 1..Len(carts) : carts[j].items \subseteq 1..pieces /\ CartAlone(j))'
  BY <1>2 DEF CartSessionsOK, CartAlone
<1>8. AddedStays'
  BY <1>2, <1>3 DEF CartSessionsOK, AddedStays
<1> QED BY <1>5, <1>6, <1>7, <1>8 DEF CartSessionsOK

\* A checkout begins on a cart's items and closes it: what it did not read is caught.
LEMMA OrderingKeeps ==
  ASSUME CartSessionsOK, NEW v \in Shoppers,
         \/ \E s \in Sessions \cup {Unnamed}, e \in Emails : BeginOrder(v, s, e)
         \/ \E commits \in BOOLEAN : CommitOrder(v, commits)
  PROVE  CartSessionsOK'
<1>1. /\ CartSessionsTypeOK /\ visit[v] \in VisitRow /\ VisitFits(visit[v])
      /\ carts \in Seq(CartRow) /\ Len(carts) \in Nat /\ Len(carts) <= MostCarts
      /\ MostCarts \in Nat
  BY CartSessionsAssumption
  DEF CartSessionsOK, CartSessionsTypeOK, VisitRow, CartRow, CartSessionsAssumption
<1>2. NoVisit \in VisitRow /\ NoVisit.pc = "idle" /\ NoVisit.seen = {}
  BY NoVisitIsIdle
<1>3. VisitFits(NoVisit) /\ VisitFits(NoVisit)'
  BY <1>2 DEF VisitFits
<1>4. ASSUME NEW s \in Sessions \cup {Unnamed}, NEW e \in Emails, BeginOrder(v, s, e)
      PROVE  CartSessionsOK'
  <2> DEFINE found == IF s = Unnamed THEN ActiveOfEmail(e) ELSE ActiveOfSession(s)
  <2>1. PICK i \in found : VisitGoes(v, [NoVisit EXCEPT !.pc = "commit", !.session = s,
                             !.email = e, !.cart = i, !.seen = carts[i].items])
    BY <1>4 DEF BeginOrder
  <2> DEFINE q == [NoVisit EXCEPT !.pc = "commit", !.session = s, !.email = e, !.cart = i,
                                  !.seen = carts[i].items]
  <2>2. i \in 1..Len(carts)
    BY FindingFinds
  <2>3. carts[i] \in CartRow /\ carts[i].items \subseteq 1..pieces
    BY <1>1, <2>2 DEF CartSessionsOK
  <2>4. /\ q \in VisitRow /\ q.pc = "commit" /\ q.cart = i /\ q.seen = carts[i].items
    <3>1. i \in 0..MostCarts /\ carts[i].items \in SUBSET (1..MostPieces)
      BY <1>1, <2>2, <2>3 DEF CartRow
    <3> QED BY <1>2, <3>1 DEF VisitRow
  <2> HIDE DEF q, found
  <2>5. VisitFits(q)
    BY <2>2, <2>3, <2>4 DEF VisitFits
  <2>6. VisitGoes(v, q)
    BY <2>1 DEF q
  <2> QED BY <1>4, <2>4, <2>5, <2>6, LookingKeeps DEF BeginOrder
<1>5. ASSUME CommitOrder(v, FALSE) PROVE CartSessionsOK'
  BY <1>2, <1>3, <1>5, LookingKeeps DEF CommitOrder
<1>6. ASSUME CommitOrder(v, TRUE) PROVE CartSessionsOK'
  <2>1. PICK i, seen, e : i = visit[v].cart /\ seen = visit[v].seen /\ e = visit[v].email
    OBVIOUS
  <2>2. /\ visit[v].pc = "commit" /\ VisitGoes(v, NoVisit)
        /\ carts' = [carts EXCEPT ![i] = [@ EXCEPT !.open = FALSE, !.email = e]]
        /\ ordered' = ordered \cup seen /\ UNCHANGED <<pieces, added, twinned, caught>>
    BY <1>6, <2>1 DEF CommitOrder, VisitAt
  <2>3. /\ i \in 1..Len(carts) /\ carts[i].items \subseteq seen \cup caught
        /\ seen \subseteq 1..pieces /\ e \in Emails \cup {Unnamed}
    BY <1>1, <2>1, <2>2 DEF VisitFits, VisitRow
  <2>4. /\ carts' \in Seq(CartRow) /\ Len(carts') = Len(carts) /\ ~carts'[i].open
        /\ \A j \in 1..Len(carts) : carts'[j].items = carts[j].items
        /\ \A j \in 1..Len(carts) : j # i => carts'[j] = carts[j]
    <3> DEFINE row == [carts[i] EXCEPT !.open = FALSE, !.email = e]
    <3>1. carts' = [carts EXCEPT ![i] = row] /\ carts[i] \in CartRow
      BY <1>1, <2>2, <2>3
    <3>2. row \in CartRow /\ row.items = carts[i].items /\ ~row.open
      BY <2>3, <3>1 DEF CartRow
    <3> HIDE DEF row
    <3>3. carts' \in Seq(CartRow) /\ Len(carts') = Len(carts) /\ carts'[i] = row
          /\ \A j \in 1..Len(carts) : j # i => carts'[j] = carts[j]
      BY <1>1, <2>3, <3>1, <3>2
    <3> QED BY <3>2, <3>3
  <2>5. /\ visit' \in [Shoppers -> VisitRow] /\ visit'[v] = NoVisit
        /\ \A w \in Shoppers \ {v} : visit'[w] = visit[w]
    BY <1>1, <1>2, <2>2, VisitGoesOn
  <2>6. CartSessionsTypeOK'
    BY <1>1, <2>2, <2>3, <2>4, <2>5 DEF CartSessionsTypeOK, VisitRow, CartRow
  <2>7. ASSUME NEW w \in Shoppers PROVE VisitFits(visit[w])'
    <3>1. VisitFits(visit'[w])
      BY <1>3, <2>5 DEF CartSessionsOK
    <3> QED BY <2>2, <2>4, <3>1 DEF VisitFits
  <2>8. (\A j \in 1..Len(carts) : carts[j].items \subseteq 1..pieces)'
    BY <2>2, <2>4 DEF CartSessionsOK
  <2>9. (\A j \in 1..Len(carts) : CartAlone(j))'
    BY <2>2, <2>4 DEF CartSessionsOK, CartAlone
  <2>10. AddedStays'
    <3>1. ASSUME NEW p \in added
          PROVE  p \in ordered' \cup caught'
                   \/ \E j \in 1..Len(carts') : carts'[j].open /\ p \in carts'[j].items
      <4>1. CASE p \in ordered \cup caught
        BY <2>2, <4>1
      <4>2. CASE \E j \in 1..Len(carts) : carts[j].open /\ p \in carts[j].items
        BY <2>2, <2>3, <2>4, <4>2
      <4> QED BY <4>1, <4>2 DEF CartSessionsOK, AddedStays
    <3> QED BY <2>2, <3>1 DEF AddedStays
  <2> QED BY <2>5, <2>6, <2>7, <2>8, <2>9, <2>10 DEF CartSessionsOK
<1> QED BY <1>4, <1>5, <1>6

\* For any sessions and e-mails, the cart a shopper fills is found again.
LEMMA CartSessionsAlways == CartSessionsSpec => [](CartSessionsTypeOK /\ ShopperKeepsCart)
<1>1. CartSessionsInit => CartSessionsOK
  <2> SUFFICES ASSUME CartSessionsInit PROVE CartSessionsOK
    OBVIOUS
  <2>1. Len(carts) = 0 /\ carts \in Seq(CartRow) /\ MostCarts \in Nat /\ MostPieces \in Nat
    BY CartSessionsAssumption DEF CartSessionsInit, CartSessionsAssumption
  <2>2. NoVisit \in VisitRow /\ NoVisit.pc = "idle" /\ NoVisit.seen = {}
    BY NoVisitIsIdle
  <2>3. CartSessionsTypeOK
    BY <2>1, <2>2 DEF CartSessionsInit, CartSessionsTypeOK, CartRow, VisitRow
  <2>4. \A v \in Shoppers : visit[v].pc = "idle" /\ visit[v].seen = {}
    BY <2>2 DEF CartSessionsInit
  <2> QED BY <2>1, <2>3, <2>4 DEF CartSessionsOK, CartSessionsInit, VisitFits, AddedStays
<1>2. CartSessionsOK /\ [CartSessionsNext]_cartSessionsVars => CartSessionsOK'
  <2> SUFFICES ASSUME CartSessionsOK, [CartSessionsNext]_cartSessionsVars PROVE CartSessionsOK'
    OBVIOUS
  <2>1. CASE UNCHANGED cartSessionsVars
    BY <2>1 DEF cartSessionsVars, CartSessionsOK, CartSessionsTypeOK, VisitFits, CartAlone, AddedStays
  <2>2. ASSUME NEW v \in Shoppers,
               FindBySession(v) \/ FindByEmail(v) \/ CreateCart(v) \/ AddPiece(v)
               \/ PieceRefused(v) \/ AnswerVisit(v)
        PROVE  CartSessionsOK'
    BY <2>2, LookupsKeep, CreatingKeeps, AddingKeeps, AnsweringVisitKeeps
  <2>3. ASSUME NEW v \in Shoppers,
               \E s \in Sessions \cup {Unnamed}, e \in Emails \cup {Unnamed}, adds \in BOOLEAN :
                 Visit(v, s, e, adds)
        PROVE  CartSessionsOK'
    BY <2>3, LookupsKeep
  <2> QED BY <2>1, <2>2, <2>3, OrderingKeeps DEF CartSessionsNext
<1>3. CartSessionsOK => CartSessionsTypeOK /\ ShopperKeepsCart
  <2> SUFFICES ASSUME CartSessionsOK PROVE CartSessionsTypeOK /\ ShopperKeepsCart
    OBVIOUS
  <2>1. added \subseteq
          ordered \cup caught
            \cup UNION {carts[i].items : i \in {j \in 1..Len(carts) : carts[j].open}}
    BY DEF CartSessionsOK, AddedStays
  <2> QED BY <2>1, FindingFinds DEF CartSessionsOK, ShopperKeepsCart
<1> QED BY <1>1, <1>2, <1>3, PTL DEF CartSessionsSpec

-------------------------------------------------------------------------------
(* The shopper's pages: any number of tabs, requests and shipping methods. *)

Changed == {"add", "set"}

\* The tabs that need not show the API's cart: outrun, or having made their order.
Stale == outrun \cup spent

\* A request under way is of the page its tab shows, and as long as its tab is
\* not outrun, its answer and the total it was sent with are those of now.
HopFits(q) ==
  LET t == q.tab IN
  /\ q.pc = "idle" => q = NoHop
  /\ q.kind = "add" /\ t # NoTab => tab[t].page = "product"
  /\ q.kind = "load" /\ t # NoTab => tab[t].page \in {"cart", "checkout"}
  /\ q.kind = "set" /\ t # NoTab => tab[t].page = "cart"
  /\ q.kind \in {"options", "order", "intent"} /\ t # NoTab => tab[t].page = "checkout"
  /\ q.kind = "options" /\ t # NoTab => tab[t].cart # Nothing
  /\ q.kind = "options" => \A m \in Methods : q.offer[m] # Nothing => method[m] # NoMethod
  /\ q.pc = "answered" /\ q.kind \in Changed \cup {"load", "badge"} =>
       q.answer \in Items /\ (t \in Tabs \ Stale => q.answer = cart)
  /\ q.kind = "order" =>
       /\ q.arg \in Methods
       /\ q.pc = "sent" /\ t \in Tabs \ Stale => q.shown = cart + method[q.arg].price
       /\ q.pc = "answered" => q.answer \in 1..Len(orders)
  /\ q.kind = "intent" =>
       /\ q.arg \in 1..Len(orders)
       /\ q.pc = "answered" => q.answer = q.arg /\ orders[q.arg].intent
       /\ q.pc = "failed" => orders[q.arg].intent \/ orders[q.arg].lost

\* What a tab that is not outrun shows is what the API has, or the answer that
\* makes it so is on its way.
TabFits(t, row) ==
  /\ row.page \in {"closed", "product"} => row.cart = Nothing
  /\ row.selected # NoMethod => row.offer[row.selected] # Nothing
  /\ row.done > 0 => row.done \in 1..Len(orders) /\ orders[row.done].intent
  /\ \A m \in Methods : row.offer[m] # Nothing =>
       /\ method[m] # NoMethod /\ row.cart # Nothing
       /\ t \notin Stale => row.offer[m] = method[m].price
  /\ t \notin Stale =>
       /\ row.cart \in {Nothing, cart}
            \/ \E h \in Hops : hop[h].tab = t /\ HopAt(h, "answered") /\ hop[h].kind = "set"
       /\ row.badge = cart
            \/ \E h \in Hops : hop[h].tab = t
                 /\ (hop[h].kind = "badge" \/ (HopAt(h, "answered") /\ hop[h].kind \in Changed))

\* An order has its intent, or it is on its way, or it is lost.
OrderFits(i) ==
  \/ orders[i].intent \/ orders[i].lost
  \/ \E h \in Hops : HopAt(h, "answered") /\ hop[h].kind = "order" /\ hop[h].answer = i
  \/ \E h \in Hops : hop[h].kind = "intent" /\ hop[h].arg = i

StorefrontOK ==
  /\ StorefrontTypeOK
  /\ method \in [Methods -> MethodRow \cup {NoMethod}]
  /\ session \/ (cart = 0 /\ \A h \in Hops : HopAt(h, "idle"))
  /\ \A h \in Hops : HopFits(hop[h])
  /\ \A t \in Tabs : TabFits(t, tab[t])
  /\ \A i \in 1..Len(orders) : OrderFits(i)
  /\ ChargedAsShown

Sold(t) == cart = 0 /\ tab[t].page = "checkout" /\ tab[t].cart \in Items \ {0}

\* A page that made its order shows the cart it sold and the API has none, as long
\* as nothing else happened; no page loads its cart once it has one, or twice.
SpentOK ==
  /\ \A t \in spent \ outrun : Sold(t)
  /\ \A h \in Hops : hop[h].tab # NoTab =>
       /\ hop[h].kind = "load" => tab[hop[h].tab].cart = Nothing
       /\ hop[h].kind \in {"set", "order"} => tab[hop[h].tab].cart # Nothing
  /\ \A g, h \in Hops :
       g # h /\ hop[g].tab = hop[h].tab /\ hop[h].tab # NoTab =>
         hop[g].kind # "load" \/ hop[h].kind # "load"

\* A request's step changes its own row and no other.
LEMMA HopGoesOn ==
  ASSUME StorefrontTypeOK, NEW h \in Hops, NEW q \in HopRow, hop' = [hop EXCEPT ![h] = q]
  PROVE  /\ hop' \in [Hops -> HopRow] /\ hop'[h] = q
         /\ \A g \in Hops \ {h} : hop'[g] = hop[g]
<1>1. hop \in [Hops -> HopRow]
  BY DEF StorefrontTypeOK
<1> QED BY <1>1

\* A tab's step changes its own row and no other.
LEMMA TabGoesOn ==
  ASSUME StorefrontTypeOK, NEW t \in Tabs, NEW row \in TabRow, tab' = [tab EXCEPT ![t] = row]
  PROVE  /\ tab' \in [Tabs -> TabRow] /\ tab'[t] = row
         /\ \A u \in Tabs \ {t} : tab'[u] = tab[u]
<1>1. tab \in [Tabs -> TabRow]
  BY DEF StorefrontTypeOK
<1> QED BY <1>1

\* No order is added, and none is taken back.
OrdersKept ==
  /\ orders' \in Seq(OrderRow) /\ Len(orders') = Len(orders)
  /\ \A i \in 1..Len(orders) :
       /\ orders'[i].total = orders[i].total /\ orders'[i].shown = orders[i].shown
       /\ orders'[i].fresh = orders[i].fresh
       /\ orders[i].intent => orders'[i].intent
       /\ orders[i].lost => orders'[i].lost

\* An order that gets its intent, or is lost, stays as it was charged.
LEMMA MarkingKeepsOrders ==
  ASSUME StorefrontTypeOK
  PROVE  /\ UNCHANGED orders => OrdersKept
         /\ \A i \in 1..Len(orders) :
              /\ orders' = [orders EXCEPT ![i].intent = TRUE] => OrdersKept /\ orders'[i].intent
              /\ orders' = [orders EXCEPT ![i].lost = TRUE] => OrdersKept /\ orders'[i].lost
<1>1. orders \in Seq(OrderRow)
  BY DEF StorefrontTypeOK
<1>2. ASSUME NEW i \in 1..Len(orders), orders' = [orders EXCEPT ![i].intent = TRUE]
      PROVE  OrdersKept /\ orders'[i].intent
  <2> DEFINE row == [orders[i] EXCEPT !.intent = TRUE]
  <2>1. orders' = [orders EXCEPT ![i] = row] /\ orders[i] \in OrderRow
    BY <1>1, <1>2
  <2>2. /\ row \in OrderRow /\ row.intent /\ row.lost = orders[i].lost
        /\ row.total = orders[i].total /\ row.shown = orders[i].shown
        /\ row.fresh = orders[i].fresh
    BY <2>1 DEF OrderRow
  <2> HIDE DEF row
  <2> QED BY <1>1, <2>1, <2>2 DEF OrdersKept
<1>3. ASSUME NEW i \in 1..Len(orders), orders' = [orders EXCEPT ![i].lost = TRUE]
      PROVE  OrdersKept /\ orders'[i].lost
  <2> DEFINE row == [orders[i] EXCEPT !.lost = TRUE]
  <2>1. orders' = [orders EXCEPT ![i] = row] /\ orders[i] \in OrderRow
    BY <1>1, <1>3
  <2>2. /\ row \in OrderRow /\ row.lost /\ row.intent = orders[i].intent
        /\ row.total = orders[i].total /\ row.shown = orders[i].shown
        /\ row.fresh = orders[i].fresh
    BY <2>1 DEF OrderRow
  <2> HIDE DEF row
  <2> QED BY <1>1, <2>1, <2>2 DEF OrdersKept
<1> QED BY <1>1, <1>2, <1>3 DEF OrdersKept

\* What a request's fitting depends on.
LEMMA HopFitsStill ==
  ASSUME StorefrontTypeOK, NEW q \in HopRow, HopFits(q), OrdersKept,
         UNCHANGED <<cart, method>>, Stale \subseteq Stale',
         \A t \in Tabs : tab'[t].page = tab[t].page
                         /\ (tab[t].cart # Nothing => tab'[t].cart # Nothing)
  PROVE  HopFits(q)'
<1>1. q.tab \in Tabs \cup {NoTab}
  BY DEF HopRow
<1>2. /\ q.kind = "order" =>
           /\ q.arg \in Methods
           /\ q.pc = "sent" /\ q.tab \in Tabs \ Stale' => q.shown = cart' + method'[q.arg].price
           /\ q.pc = "answered" => q.answer \in 1..Len(orders')
      /\ q.kind = "intent" =>
           /\ q.arg \in 1..Len(orders')
           /\ q.pc = "answered" => q.answer = q.arg /\ orders'[q.arg].intent
           /\ q.pc = "failed" => orders'[q.arg].intent \/ orders'[q.arg].lost
  BY DEF HopFits, OrdersKept
<1>3. /\ q.pc = "idle" => q = NoHop
      /\ q.kind = "add" /\ q.tab # NoTab => tab'[q.tab].page = "product"
      /\ q.kind = "load" /\ q.tab # NoTab => tab'[q.tab].page \in {"cart", "checkout"}
      /\ q.kind = "set" /\ q.tab # NoTab => tab'[q.tab].page = "cart"
      /\ q.kind \in {"options", "order", "intent"} /\ q.tab # NoTab => tab'[q.tab].page = "checkout"
      /\ q.kind = "options" /\ q.tab # NoTab => tab'[q.tab].cart # Nothing
  BY <1>1 DEF HopFits
<1>4. /\ q.kind = "options" => \A m \in Methods : q.offer[m] # Nothing => method'[m] # NoMethod
      /\ q.pc = "answered" /\ q.kind \in Changed \cup {"load", "badge"} =>
           q.answer \in Items /\ (q.tab \in Tabs \ Stale' => q.answer = cart')
  BY DEF HopFits
<1> QED BY <1>2, <1>3, <1>4 DEF HopFits

\* What a tab's fitting depends on: its answers are still on their way.
LEMMA TabFitsStill ==
  ASSUME StorefrontTypeOK, NEW t \in Tabs, NEW row \in TabRow, TabFits(t, row), OrdersKept,
         UNCHANGED <<cart, method>>, Stale \subseteq Stale',
         \A h \in Hops :
           hop[h].tab = t /\ (hop[h].kind = "badge" \/ (hop[h].pc = "answered" /\ hop[h].kind \in Changed)) =>
             /\ hop'[h].tab = t /\ hop'[h].kind = hop[h].kind
             /\ hop[h].pc = "answered" => hop'[h].pc = "answered"
  PROVE  TabFits(t, row)'
<1>1. /\ row.page \in {"closed", "product"} => row.cart = Nothing
      /\ row.selected # NoMethod => row.offer[row.selected] # Nothing
      /\ row.done > 0 => row.done \in 1..Len(orders') /\ orders'[row.done].intent
      /\ \A m \in Methods : row.offer[m] # Nothing =>
           /\ method'[m] # NoMethod /\ row.cart # Nothing
           /\ t \notin Stale' => row.offer[m] = method'[m].price
  BY DEF TabFits, OrdersKept
<1>2. t \notin Stale' =>
       /\ row.cart \in {Nothing, cart'}
            \/ \E h \in Hops : hop'[h].tab = t /\ hop'[h].pc = "answered" /\ hop'[h].kind = "set"
       /\ row.badge = cart'
            \/ \E h \in Hops : hop'[h].tab = t
                 /\ (hop'[h].kind = "badge" \/ (hop'[h].pc = "answered" /\ hop'[h].kind \in Changed))
  BY DEF TabFits, Changed, HopAt
<1> QED BY <1>1, <1>2 DEF TabFits, HopAt

\* What an order was charged is decided when it is created.
LEMMA ChargedStill ==
  ASSUME ChargedAsShown, OrdersKept
  PROVE  ChargedAsShown'
BY DEF ChargedAsShown, OrdersKept

\* A request that was not sent fits any tab.
LEMMA NoHopFits == NoHop \in HopRow /\ HopFits(NoHop)
<1>1. NoHop \in HopRow
  BY DEF NoHop, HopRow, Offer, NoOffer
<1> QED BY <1>1 DEF NoHop, HopFits, Changed

\* What a tab sends is a request of its kind with nothing in it from the server.
LEMMA RequestIsOne ==
  ASSUME NEW t \in Tabs, NEW arg \in Nat \cup Methods \cup {Nothing},
         NEW kind \in {"load", "badge", "add", "set", "options", "order", "intent"}
  PROVE  LET q == Request(t, kind, arg) IN
         /\ q \in HopRow /\ q.pc = "sent" /\ q.tab = t /\ q.kind = kind /\ q.arg = arg
         /\ q.shown = 0 /\ q.offer = NoOffer /\ q.answer = Nothing
         /\ kind = "badge" => HopFits(q)
<1>1. NoHop \in HopRow /\ NoHop.shown = 0 /\ NoHop.offer = NoOffer /\ NoHop.answer = Nothing
  BY NoHopFits DEF NoHop
<1> DEFINE q == Request(t, kind, arg)
<1>2. /\ q \in HopRow /\ q.pc = "sent" /\ q.tab = t /\ q.kind = kind /\ q.arg = arg
      /\ q.shown = 0 /\ q.offer = NoOffer /\ q.answer = Nothing
  BY <1>1 DEF Request, HopRow
<1> HIDE DEF q
<1>3. kind = "badge" => HopFits(q)
  BY <1>2 DEF HopFits
<1> QED BY <1>2, <1>3 DEF q

\* The page sends a request, and goes on showing what it showed.
LEMMA SendingKeeps ==
  ASSUME StorefrontOK, NEW t \in Tabs, NEW h \in Hops, HopAt(h, "idle"),
         NEW q \in HopRow, q.tab = t, q.pc = "sent", HopFits(q), hop' = [hop EXCEPT ![h] = q],
         NEW row \in TabRow, tab' = [tab EXCEPT ![t] = row],
         row.page = tab[t].page, row.cart = tab[t].cart, row.badge = tab[t].badge,
         row.offer = tab[t].offer, row.selected = tab[t].selected, row.done = tab[t].done,
         session' = TRUE, UNCHANGED <<cart, orders, method, Stale, drops>>
  PROVE  StorefrontOK'
<1>1. StorefrontTypeOK /\ hop[h] = NoHop /\ hop[h].tab = NoTab /\ hop[h].pc = "idle"
      /\ hop[h].kind = "none" /\ NoTab \notin Tabs
  BY StorefrontAssumption DEF StorefrontOK, HopFits, NoHop, HopAt, StorefrontAssumption
<1>2. /\ hop' \in [Hops -> HopRow] /\ hop'[h] = q
      /\ \A g \in Hops \ {h} : hop'[g] = hop[g]
  BY <1>1, HopGoesOn
<1>3. /\ tab' \in [Tabs -> TabRow] /\ tab'[t] = row
      /\ \A u \in Tabs \ {t} : tab'[u] = tab[u]
  BY <1>1, TabGoesOn
<1>4. OrdersKept
  BY <1>1, MarkingKeepsOrders
<1>5. \A u \in Tabs : tab'[u].page = tab[u].page /\ tab'[u].cart = tab[u].cart
  BY <1>3
<1>6. StorefrontTypeOK'
  BY <1>1, <1>2, <1>3 DEF StorefrontTypeOK, Stale
<1>7. \A g \in Hops : HopFits(hop[g])'
  <2>1. ASSUME NEW g \in Hops PROVE HopFits(hop'[g]) /\ hop'[g] \in HopRow
    BY <1>2 DEF StorefrontOK
  <2>2. ASSUME NEW p \in HopRow, HopFits(p) PROVE HopFits(p)'
    BY <1>1, <1>4, <1>5, <2>2, HopFitsStill
  <2>3. ASSUME NEW g \in Hops PROVE HopFits(hop[g])'
    <3>1. PICK p \in HopRow : p = hop'[g] /\ HopFits(p)
      BY <2>1
    <3>2. HopFits(p)'
      BY <2>2, <3>1
    <3> QED BY <3>1, <3>2 DEF HopFits
  <2> QED BY <2>3
<1>8. ASSUME NEW u \in Tabs PROVE TabFits(u, tab[u])'
  <2>1. PICK r : r = tab'[u]
    OBVIOUS
  <2>2. r \in TabRow /\ TabFits(u, r)
    <3>1. CASE u = t
      BY <1>3, <2>1, <3>1 DEF StorefrontOK, TabFits
    <3>2. CASE u # t
      BY <1>3, <2>1, <3>2 DEF StorefrontOK
    <3> QED BY <3>1, <3>2
  <2>3. TabFits(u, r)'
    BY <1>1, <1>2, <1>4, <2>2, TabFitsStill
  <2> QED BY <2>1, <2>3
<1>9. ASSUME NEW i \in 1..Len(orders') PROVE OrderFits(i)'
  <2>1. OrderFits(i) /\ UNCHANGED orders
    BY DEF StorefrontOK
  <2> QED BY <1>1, <1>2, <2>1 DEF OrderFits, HopAt
<1>10. ChargedAsShown'
  BY <1>4, ChargedStill DEF StorefrontOK
<1> QED BY <1>6, <1>7, <1>8, <1>9, <1>10 DEF StorefrontOK

\* A request under way comes to its answer or fails: no cart or shipping method changes.
LEMMA AnsweringHopKeeps ==
  ASSUME StorefrontOK, NEW h \in Hops, hop[h].pc = "sent",
         NEW q \in HopRow, q.pc \in {"answered", "failed"}, q.tab = hop[h].tab,
         q.kind = hop[h].kind, q.arg = hop[h].arg, HopFits(q)',
         hop' = [hop EXCEPT ![h] = q], drops' \in 0..MostDrops,
         OrdersKept, UNCHANGED <<session, cart, tab, method, Stale>>
  PROVE  StorefrontOK'
<1>1. StorefrontTypeOK
  BY DEF StorefrontOK
<1>2. /\ hop' \in [Hops -> HopRow] /\ hop'[h] = q
      /\ \A g \in Hops \ {h} : hop'[g] = hop[g]
  BY <1>1, HopGoesOn
<1>3. StorefrontTypeOK'
  BY <1>1, <1>2 DEF StorefrontTypeOK, OrdersKept, Stale
<1>4. ASSUME NEW g \in Hops PROVE HopFits(hop[g])'
  <2>1. CASE g = h
    BY <1>2, <2>1 DEF HopFits
  <2>2. CASE g # h
    <3>1. PICK p : p = hop[g]
      OBVIOUS
    <3>2. p \in HopRow /\ HopFits(p) /\ hop'[g] = p
      BY <1>1, <1>2, <2>2, <3>1 DEF StorefrontOK, StorefrontTypeOK
    <3>3. HopFits(p)'
      BY <1>1, <3>2, HopFitsStill
    <3> QED BY <3>2, <3>3
  <2> QED BY <2>1, <2>2
<1>5. ASSUME NEW t \in Tabs PROVE TabFits(t, tab[t])'
  <2>1. PICK r : r = tab[t]
    OBVIOUS
  <2>2. r \in TabRow /\ TabFits(t, r)
    BY <1>1, <2>1 DEF StorefrontOK, StorefrontTypeOK
  <2>3. TabFits(t, r)'
    BY <1>1, <1>2, <2>2, TabFitsStill
  <2> QED BY <2>1, <2>3
<1>6. ASSUME NEW i \in 1..Len(orders') PROVE OrderFits(i)'
  <2>1. OrderFits(i) /\ i \in 1..Len(orders)
    BY DEF StorefrontOK, OrdersKept
  <2> QED BY <1>2, <2>1 DEF OrderFits, HopAt, OrdersKept
<1>7. ChargedAsShown'
  BY ChargedStill DEF StorefrontOK
<1>8. (session \/ (cart = 0 /\ \A g \in Hops : HopAt(g, "idle")))'
  BY DEF StorefrontOK, HopAt
<1> QED BY <1>3, <1>4, <1>5, <1>6, <1>7, <1>8 DEF StorefrontOK

\* The page takes an answer: only its tab is another one.
LEMMA ReceivingKeeps ==
  ASSUME StorefrontOK, NEW h \in Hops, hop[h].pc \in {"answered", "failed"},
         NEW t \in Tabs, t = hop[h].tab,
         NEW q \in HopRow, hop' = [hop EXCEPT ![h] = q], HopFits(q)',
         NEW row \in TabRow, tab' = [tab EXCEPT ![t] = row], TabFits(t, row)',
         row.page = tab[t].page, tab[t].cart # Nothing => row.cart # Nothing,
         row.done <= Len(orders),
         Stale \subseteq Stale', Stale' \subseteq Stale \cup {t},
         hop[h].pc = "answered" /\ hop[h].kind = "order" =>
           q.kind = "intent" /\ q.arg = hop[h].answer,
         hop[h].kind = "intent" => orders[hop[h].arg].intent \/ orders[hop[h].arg].lost,
         UNCHANGED <<session, cart, orders, method, drops>>
  PROVE  StorefrontOK'
<1>1. StorefrontTypeOK /\ OrdersKept
  BY MarkingKeepsOrders DEF StorefrontOK
<1>2. /\ hop' \in [Hops -> HopRow] /\ hop'[h] = q
      /\ \A g \in Hops \ {h} : hop'[g] = hop[g]
  BY <1>1, HopGoesOn
<1>3. /\ tab' \in [Tabs -> TabRow] /\ tab'[t] = row
      /\ \A u \in Tabs \ {t} : tab'[u] = tab[u]
  BY <1>1, TabGoesOn
<1>4. \A u \in Tabs : tab'[u].page = tab[u].page /\ (tab[u].cart # Nothing => tab'[u].cart # Nothing)
  BY <1>3
<1>5. StorefrontTypeOK'
  BY <1>1, <1>2, <1>3 DEF StorefrontTypeOK, Stale
<1>6. ASSUME NEW g \in Hops PROVE HopFits(hop[g])'
  <2>1. CASE g = h
    BY <1>2, <2>1 DEF HopFits
  <2>2. CASE g # h
    <3>1. PICK p : p = hop[g]
      OBVIOUS
    <3>2. p \in HopRow /\ HopFits(p) /\ hop'[g] = p
      BY <1>1, <1>2, <2>2, <3>1 DEF StorefrontOK, StorefrontTypeOK
    <3>3. HopFits(p)'
      BY <1>1, <1>4, <3>2, HopFitsStill
    <3> QED BY <3>2, <3>3
  <2> QED BY <2>1, <2>2
<1>7. ASSUME NEW u \in Tabs PROVE TabFits(u, tab[u])'
  <2>1. CASE u = t
    BY <1>3, <2>1
  <2>2. CASE u # t
    <3>1. PICK r : r = tab[u]
      OBVIOUS
    <3>2. r \in TabRow /\ TabFits(u, r) /\ tab'[u] = r
      BY <1>1, <1>3, <2>2, <3>1 DEF StorefrontOK, StorefrontTypeOK
    <3>3. TabFits(u, r)'
      BY <1>1, <1>2, <2>2, <3>2, TabFitsStill
    <3> QED BY <3>2, <3>3
  <2> QED BY <2>1, <2>2
<1>8. ASSUME NEW i \in 1..Len(orders') PROVE OrderFits(i)'
  <2>1. OrderFits(i) /\ i \in 1..Len(orders)
    BY DEF StorefrontOK
  <2> QED BY <1>2, <2>1 DEF OrderFits, HopAt
<1>9. ChargedAsShown'
  BY <1>1, ChargedStill DEF StorefrontOK
<1>10. session
  BY DEF StorefrontOK, HopAt
<1> QED BY <1>5, <1>6, <1>7, <1>8, <1>9, <1>10 DEF StorefrontOK

\* A tab asks for a change of its cart or for its options.
LEMMA AskingKeeps ==
  ASSUME StorefrontOK, UNCHANGED shippingVars, NEW t \in Tabs,
         AddToCart(t) \/ AskOptions(t) \/ \E a \in Items : SetQuantity(t, a)
  PROVE  StorefrontOK'
<1>1. StorefrontTypeOK /\ tab[t] \in TabRow /\ UNCHANGED method
  BY DEF StorefrontOK, StorefrontTypeOK, shippingVars
<1>2. NoOffer \in Offer /\ \A m \in Methods : NoOffer[m] = Nothing
  BY DEF NoOffer, Offer
<1>3. ASSUME NEW kind \in {"add", "set", "options"}, NEW arg \in Nat \cup {Nothing},
             NEW row \in TabRow, Send(t, kind, arg, row),
             row \in {tab[t], [tab[t] EXCEPT !.asking = TRUE]},
             kind = "add" => tab[t].page = "product",
             kind = "set" => tab[t].page = "cart",
             kind = "options" => tab[t].page = "checkout" /\ tab[t].cart # Nothing
      PROVE  StorefrontOK'
  <2>1. PICK q : q = Request(t, kind, arg)
    OBVIOUS
  <2>2. /\ q \in HopRow /\ q.pc = "sent" /\ q.tab = t /\ q.kind = kind /\ q.offer = NoOffer
    BY <2>1, RequestIsOne
  <2>3. HopFits(q)
    BY <1>2, <1>3, <2>2 DEF HopFits
  <2>4. PICK h \in Hops : HopAt(h, "idle") /\ hop' = [hop EXCEPT ![h] = q]
    BY <1>3, <2>1 DEF Send
  <2>5. /\ row.page = tab[t].page /\ row.cart = tab[t].cart /\ row.badge = tab[t].badge
        /\ row.offer = tab[t].offer /\ row.selected = tab[t].selected /\ row.done = tab[t].done
    BY <1>1, <1>3 DEF TabRow
  <2>6. /\ session' = TRUE /\ tab' = [tab EXCEPT ![t] = row]
        /\ UNCHANGED <<cart, orders, method, Stale, drops>>
    BY <1>3 DEF Send, TabGoes, Stale
  <2> QED BY <2>2, <2>3, <2>4, <2>5, <2>6, SendingKeeps
<1>4. CASE AddToCart(t)
  BY <1>1, <1>3, <1>4 DEF AddToCart
<1>5. CASE AskOptions(t)
  <2>1. [tab[t] EXCEPT !.asking = TRUE] \in TabRow
    BY <1>1 DEF TabRow
  <2>2. tab[t].cart # Nothing
    BY <1>5, StorefrontAssumption DEF AskOptions, Items, StorefrontAssumption
  <2> QED BY <1>3, <1>5, <2>1, <2>2 DEF AskOptions
<1>6. ASSUME NEW a \in Items, SetQuantity(t, a) PROVE StorefrontOK'
  BY <1>1, <1>3, <1>6 DEF SetQuantity, Items
<1> QED BY <1>4, <1>5, <1>6

\* A page that is not outrun submits the total the API would come to.
LEMMA SubmittingKeeps ==
  ASSUME StorefrontOK, UNCHANGED shippingVars, NEW t \in Tabs, Submit(t)
  PROVE  StorefrontOK'
<1>1. StorefrontTypeOK /\ tab[t] \in TabRow /\ UNCHANGED method /\ TabFits(t, tab[t])
  BY DEF StorefrontOK, StorefrontTypeOK, shippingVars
<1>2. PICK m : m = tab[t].selected
  OBVIOUS
<1>3. /\ m \in Methods /\ tab[t].cart \in Items /\ tab[t].cart \in Nat
      /\ tab[t].offer[m] \in Nat /\ tab[t].offer[m] # Nothing
      /\ tab[t].page = "checkout" /\ tab[t].cart # Nothing
  BY <1>1, <1>2 DEF Submit, TabFits, TabRow, Offer, Items
<1>4. TotalShown(t) \in Nat /\ TotalShown(t) = tab[t].cart + tab[t].offer[m]
  BY <1>2, <1>3 DEF TotalShown
<1>5. t \notin Stale => TotalShown(t) = cart + method[m].price
  <2> SUFFICES ASSUME t \notin Stale PROVE TotalShown(t) = cart + method[m].price
    OBVIOUS
  <2>1. \A h \in Hops : hop[h].tab = t /\ t # NoTab /\ hop[h].kind = "set" => tab[t].page = "cart"
    BY DEF StorefrontOK, HopFits
  <2>2. t # NoTab
    BY StorefrontAssumption DEF StorefrontAssumption
  <2>3. tab[t].cart = cart
    BY <1>1, <1>3, <2>1, <2>2 DEF TabFits
  <2>4. tab[t].offer[m] = method[m].price
    BY <1>1, <1>3 DEF TabFits
  <2> QED BY <1>4, <2>3, <2>4
<1>6. PICK r : r = Request(t, "order", m)
  OBVIOUS
<1>7. r \in HopRow /\ r.pc = "sent" /\ r.tab = t /\ r.kind = "order" /\ r.arg = m
  <2>1. m \in Nat \cup Methods \cup {Nothing}
    BY <1>3
  <2> QED BY <1>6, <2>1, RequestIsOne
<1> DEFINE q == [r EXCEPT !.shown = TotalShown(t)]
<1>8. /\ q \in HopRow /\ q.pc = "sent" /\ q.tab = t /\ q.kind = "order" /\ q.arg = m
      /\ q.shown = TotalShown(t)
  BY <1>4, <1>7 DEF HopRow
<1>9. PICK h \in Hops : HopAt(h, "idle") /\ hop' = [hop EXCEPT ![h] = q]
  BY <1>2, <1>6 DEF Submit
<1> HIDE DEF q
<1>10. HopFits(q)
  BY <1>3, <1>5, <1>8 DEF HopFits, Changed
<1> DEFINE row == [tab[t] EXCEPT !.paying = TRUE]
<1>11. /\ row \in TabRow /\ row.page = tab[t].page /\ row.cart = tab[t].cart
       /\ row.badge = tab[t].badge /\ row.offer = tab[t].offer
       /\ row.selected = tab[t].selected /\ row.done = tab[t].done
  BY <1>1 DEF TabRow
<1>12. /\ session' = TRUE /\ tab' = [tab EXCEPT ![t] = row]
       /\ UNCHANGED <<cart, orders, method, Stale, drops>>
  BY <1>1 DEF Submit, Stale
<1> HIDE DEF row
<1> QED BY <1>8, <1>9, <1>10, <1>11, <1>12, SendingKeeps

\* A shopper selects one of the offered methods.
LEMMA SelectingKeeps ==
  ASSUME StorefrontOK, UNCHANGED shippingVars, NEW t \in Tabs, NEW m \in Methods, Select(t, m)
  PROVE  StorefrontOK'
<1> DEFINE row == [tab[t] EXCEPT !.selected = m]
<1>1. StorefrontTypeOK /\ tab[t] \in TabRow /\ UNCHANGED method /\ TabFits(t, tab[t])
      /\ tab' = [tab EXCEPT ![t] = row] /\ OrdersKept
      /\ UNCHANGED <<session, cart, orders, hop, Stale, drops>>
  BY MarkingKeepsOrders DEF StorefrontOK, StorefrontTypeOK, shippingVars, Select, Stale
<1>2. /\ row \in TabRow /\ row.page = tab[t].page /\ row.cart = tab[t].cart
      /\ row.badge = tab[t].badge /\ row.offer = tab[t].offer
      /\ row.selected = m /\ row.done = tab[t].done
  BY <1>1 DEF TabRow
<1> HIDE DEF row
<1>3. /\ tab' \in [Tabs -> TabRow] /\ tab'[t] = row
      /\ \A u \in Tabs \ {t} : tab'[u] = tab[u]
  BY <1>1, <1>2, TabGoesOn
<1>4. row.cart # Nothing /\ row.offer[m] # Nothing
  <2>1. tab[t].page = "checkout" /\ tab[t].offer[m] # Nothing
    BY DEF Select
  <2> QED BY <1>1, <1>2, <2>1 DEF TabFits
<1>5. TabFits(t, row)
  BY <1>1, <1>2, <1>4 DEF TabFits
<1>6. \A u \in Tabs : tab'[u].page = tab[u].page /\ tab'[u].cart = tab[u].cart
  BY <1>2, <1>3
<1>7. StorefrontTypeOK'
  BY <1>1, <1>2, <1>3 DEF StorefrontTypeOK, Stale
<1>8. \A g \in Hops : HopFits(hop[g])'
  <2>1. ASSUME NEW g \in Hops PROVE HopFits(hop[g]) /\ hop[g] \in HopRow
    BY <1>1 DEF StorefrontOK, StorefrontTypeOK
  <2>2. ASSUME NEW p \in HopRow, HopFits(p) PROVE HopFits(p)'
    BY <1>1, <1>6, <2>2, HopFitsStill
  <2> QED BY <1>1, <2>1, <2>2 DEF HopFits
<1>9. \A u \in Tabs : TabFits(u, tab[u])'
  <2>1. ASSUME NEW u \in Tabs PROVE TabFits(u, tab'[u])
    BY <1>3, <1>5 DEF StorefrontOK
  <2> QED BY <1>1, <2>1 DEF TabFits, HopAt
<1> QED BY <1>1, <1>7, <1>8, <1>9 DEF StorefrontOK, OrderFits, ChargedAsShown, HopAt

\* A request fails; of an intent, its order knows.
LEMMA FailingKeeps ==
  ASSUME StorefrontOK, NEW h \in Hops, HopAt(h, "sent"), Fails(h), OrdersKept,
         hop[h].kind = "intent" =>
           orders'[hop[h].arg].intent \/ orders'[hop[h].arg].lost,
         drops' \in 0..MostDrops, UNCHANGED <<session, cart, tab, method, Stale>>
  PROVE  StorefrontOK'
<1> DEFINE q == [hop[h] EXCEPT !.pc = "failed"]
<1>1. StorefrontTypeOK /\ hop[h] \in HopRow /\ HopFits(hop[h]) /\ hop' = [hop EXCEPT ![h] = q]
  BY DEF StorefrontOK, StorefrontTypeOK, Fails, HopGoes
<1>2. /\ q \in HopRow /\ q.pc = "failed" /\ q.tab = hop[h].tab /\ q.kind = hop[h].kind
      /\ q.arg = hop[h].arg /\ q.offer = hop[h].offer
  BY <1>1 DEF HopRow
<1> HIDE DEF q
<1>3. PICK p : p = q
  OBVIOUS
<1>4. HopFits(p)'
  <2>1. HopFits([hop[h] EXCEPT !.pc = "sent"])
    BY <1>1 DEF HopFits, HopAt
  <2>2. q.kind = "intent" => q.arg \in 1..Len(orders')
    BY <1>1, <1>2 DEF HopFits, OrdersKept
  <2>3. p.kind = "order" => p.arg \in Methods
    BY <1>1, <1>2, <1>3 DEF HopFits
  <2>4. /\ p.kind = "add" /\ p.tab # NoTab => tab'[p.tab].page = "product"
        /\ p.kind = "load" /\ p.tab # NoTab => tab'[p.tab].page \in {"cart", "checkout"}
        /\ p.kind = "set" /\ p.tab # NoTab => tab'[p.tab].page = "cart"
        /\ p.kind \in {"options", "order", "intent"} /\ p.tab # NoTab =>
             tab'[p.tab].page = "checkout"
        /\ p.kind = "options" /\ p.tab # NoTab => tab'[p.tab].cart # Nothing
        /\ p.kind = "options" => \A m \in Methods : p.offer[m] # Nothing => method'[m] # NoMethod
    BY <1>1, <1>2, <1>3 DEF HopFits
  <2> QED BY <1>2, <1>3, <2>2, <2>3, <2>4 DEF HopFits
<1> QED BY <1>1, <1>2, <1>3, <1>4, AnsweringHopKeeps DEF HopAt

\* The server answers with the cart.
LEMMA ServingCartKeeps ==
  ASSUME StorefrontOK, UNCHANGED shippingVars, NEW h \in Hops, ServeCart(h)
  PROVE  StorefrontOK'
<1> DEFINE q == [hop[h] EXCEPT !.pc = "answered", !.answer = cart]
<1>1. StorefrontTypeOK /\ hop[h] \in HopRow /\ HopFits(hop[h]) /\ hop' = [hop EXCEPT ![h] = q]
      /\ cart \in Items /\ cart \in Nat /\ hop[h].pc = "sent" /\ hop[h].kind \in {"load", "badge"}
      /\ UNCHANGED <<session, cart, orders, tab, method, Stale, drops>>
      /\ drops \in 0..MostDrops
  BY DEF StorefrontOK, StorefrontTypeOK, ServeCart, Answer, HopGoes, HopAt, Items, shippingVars, Stale
<1>2. /\ q \in HopRow /\ q.pc = "answered" /\ q.tab = hop[h].tab /\ q.kind = hop[h].kind
      /\ q.arg = hop[h].arg /\ q.answer = cart
  BY <1>1 DEF HopRow
<1> HIDE DEF q
<1>3. PICK p : p = q
  OBVIOUS
<1>4. HopFits(p)'
  BY <1>1, <1>2, <1>3 DEF HopFits
<1>5. OrdersKept
  BY <1>1, MarkingKeepsOrders
<1> QED BY <1>1, <1>2, <1>3, <1>4, <1>5, AnsweringHopKeeps

\* What is offered is there, at the price it has now.
LEMMA ServingOptionsKeeps ==
  ASSUME StorefrontOK, UNCHANGED shippingVars, NEW h \in Hops, ServeOptions(h)
  PROVE  StorefrontOK'
<1> DEFINE offer == [m \in Methods |->
                      IF m \in ShippingOptions(cart) THEN method[m].price ELSE Nothing]
           q == [hop[h] EXCEPT !.pc = "answered", !.offer = offer]
<1>1. StorefrontTypeOK /\ hop[h] \in HopRow /\ HopFits(hop[h])
      /\ hop[h].pc = "sent" /\ hop[h].kind = "options"
      /\ UNCHANGED <<session, cart, orders, tab, method, Stale, drops>>
      /\ drops \in 0..MostDrops /\ OrdersKept
      /\ (Fails(h) \/ hop' = [hop EXCEPT ![h] = q])
  BY MarkingKeepsOrders
  DEF StorefrontOK, StorefrontTypeOK, ServeOptions, HopGoes, HopAt, shippingVars, Stale
<1>2. CASE Fails(h)
  BY <1>1, <1>2, FailingKeeps DEF HopAt
<1>3. CASE hop' = [hop EXCEPT ![h] = q]
  <2>1. ASSUME NEW m \in Methods
        PROVE  offer[m] \in Nat \cup {Nothing} /\ (offer[m] # Nothing => method[m] # NoMethod)
    BY DEF ShippingOptions, Offered, StorefrontOK, MethodRow
  <2>2. offer \in Offer
    BY <2>1 DEF Offer
  <2> HIDE DEF offer
  <2>3. /\ q \in HopRow /\ q.pc = "answered" /\ q.tab = hop[h].tab /\ q.kind = "options"
        /\ q.arg = hop[h].arg /\ q.offer = offer
    BY <1>1, <2>2 DEF HopRow
  <2> HIDE DEF q
  <2>4. PICK p : p = q
    OBVIOUS
  <2>5. HopFits(p)'
    BY <1>1, <2>1, <2>3, <2>4 DEF HopFits, Changed
  <2> QED BY <1>1, <1>3, <2>3, <2>4, <2>5, AnsweringHopKeeps
<1> QED BY <1>1, <1>2, <1>3

\* The server creates the intent of an order.
LEMMA ServingIntentKeeps ==
  ASSUME StorefrontOK, UNCHANGED shippingVars, NEW h \in Hops, ServeIntent(h)
  PROVE  StorefrontOK'
<1>1. PICK i : i = hop[h].arg
  OBVIOUS
<1>2. StorefrontTypeOK /\ hop[h] \in HopRow /\ HopFits(hop[h])
      /\ hop[h].pc = "sent" /\ hop[h].kind = "intent"
      /\ orders' = [orders EXCEPT ![i].intent = TRUE]
      /\ UNCHANGED <<session, cart, tab, method, Stale>>
      /\ drops \in 0..MostDrops /\ i \in 1..Len(orders)
  BY <1>1 DEF StorefrontOK, StorefrontTypeOK, ServeIntent, HopAt, HopFits, shippingVars, Stale
<1>3. OrdersKept /\ orders'[i].intent
  BY <1>2, MarkingKeepsOrders
<1>4. CASE Drops /\ Fails(h)
  <2>1. drops' \in 0..MostDrops
    BY <1>2, <1>4, StorefrontAssumption DEF Drops, StorefrontAssumption
  <2> QED BY <1>1, <1>2, <1>3, <1>4, <2>1, FailingKeeps DEF HopAt
<1>5. CASE Answer(h, i) /\ UNCHANGED drops
  <2> DEFINE q == [hop[h] EXCEPT !.pc = "answered", !.answer = i]
  <2>1. hop' = [hop EXCEPT ![h] = q]
    BY <1>5 DEF Answer, HopGoes
  <2>2. /\ q \in HopRow /\ q.pc = "answered" /\ q.tab = hop[h].tab /\ q.kind = "intent"
        /\ q.arg = i /\ q.answer = i
    <3>1. i \in Nat
      BY <1>2 DEF StorefrontTypeOK
    <3> QED BY <1>1, <1>2, <3>1 DEF HopRow
  <2> HIDE DEF q
  <2>3. PICK p : p = q
    OBVIOUS
  <2>4. i \in 1..Len(orders')
    BY <1>2, <1>3 DEF OrdersKept
  <2>5. HopFits(p)'
    BY <1>1, <1>2, <1>3, <2>2, <2>3, <2>4 DEF HopFits, Changed
  <2> QED BY <1>1, <1>2, <1>3, <1>5, <2>1, <2>2, <2>3, <2>5, AnsweringHopKeeps
<1> QED BY <1>1, <1>4, <1>5 DEF ServeIntent

\* A request fails before it reached the server.
LEMMA DroppingKeeps ==
  ASSUME StorefrontOK, UNCHANGED shippingVars, NEW h \in Hops, DropHop(h)
  PROVE  StorefrontOK'
<1>1. PICK i : i = hop[h].arg
  OBVIOUS
<1>2. StorefrontTypeOK /\ HopFits(hop[h]) /\ HopAt(h, "sent") /\ Fails(h) /\ Drops
      /\ UNCHANGED <<session, cart, tab, method, Stale>> /\ drops \in 0..MostDrops
  BY <1>1 DEF StorefrontOK, StorefrontTypeOK, DropHop, shippingVars, Stale
<1>3. drops' \in 0..MostDrops
  BY <1>2, StorefrontAssumption DEF Drops, StorefrontAssumption
<1>4. hop[h].kind = "intent" => i \in 1..Len(orders)
  BY <1>1, <1>2 DEF HopFits
<1>5. OrdersKept /\ (hop[h].kind = "intent" => orders'[i].lost)
  <2>1. CASE hop[h].kind = "intent"
    <3>1. orders' = [orders EXCEPT ![i].lost = TRUE]
      BY <1>1, <2>1 DEF DropHop
    <3> QED BY <1>2, <1>4, <2>1, <3>1, MarkingKeepsOrders
  <2>2. CASE hop[h].kind # "intent"
    <3>1. UNCHANGED orders
      BY <2>2 DEF DropHop
    <3> QED BY <1>2, <2>2, <3>1, MarkingKeepsOrders
  <2> QED BY <2>1, <2>2
<1> QED BY <1>1, <1>2, <1>3, <1>5, FailingKeeps

\* An answer to a page that has gone is dropped, and an order with it is lost.
LEMMA IgnoringKeeps ==
  ASSUME StorefrontOK, UNCHANGED shippingVars, NEW h \in Hops, IgnoreAnswer(h)
  PROVE  StorefrontOK'
<1>1. PICK i : i = hop[h].answer
  OBVIOUS
<1>2. StorefrontTypeOK /\ HopFits(hop[h]) /\ hop[h].pc \in {"answered", "failed"}
      /\ hop[h].tab = NoTab /\ NoTab \notin Tabs /\ hop' = [hop EXCEPT ![h] = NoHop]
      /\ UNCHANGED <<session, cart, tab, method, Stale, drops>>
  BY StorefrontAssumption
  DEF StorefrontOK, StorefrontTypeOK, IgnoreAnswer, Ends, HopGoes, shippingVars, StorefrontAssumption, Stale
<1>3. /\ hop' \in [Hops -> HopRow] /\ hop'[h] = NoHop
      /\ \A g \in Hops \ {h} : hop'[g] = hop[g]
  BY <1>2, NoHopFits, HopGoesOn
<1>4. OrdersKept /\ (hop[h].pc = "answered" /\ hop[h].kind = "order" => orders'[i].lost)
  <2>1. CASE hop[h].pc = "answered" /\ hop[h].kind = "order"
    <3>1. i \in 1..Len(orders)
      BY <1>1, <1>2, <2>1 DEF HopFits
    <3>2. orders' = [orders EXCEPT ![i].lost = TRUE]
      BY <1>1, <2>1 DEF IgnoreAnswer, HopAt
    <3> QED BY <1>2, <2>1, <3>1, <3>2, MarkingKeepsOrders
  <2>2. CASE ~(hop[h].pc = "answered" /\ hop[h].kind = "order")
    <3>1. UNCHANGED orders
      BY <2>2 DEF IgnoreAnswer, HopAt
    <3> QED BY <1>2, <2>2, <3>1, MarkingKeepsOrders
  <2> QED BY <2>1, <2>2
<1>5. StorefrontTypeOK'
  BY <1>2, <1>3, <1>4 DEF StorefrontTypeOK, OrdersKept, Stale
<1>6. ASSUME NEW g \in Hops PROVE HopFits(hop[g])'
  <2>1. PICK p : p = hop'[g]
    OBVIOUS
  <2>2. p \in HopRow /\ HopFits(p)
    BY <1>3, <2>1, NoHopFits DEF StorefrontOK
  <2>3. HopFits(p)'
    BY <1>2, <1>4, <2>2, HopFitsStill
  <2> QED BY <2>1, <2>3
<1>7. ASSUME NEW t \in Tabs PROVE TabFits(t, tab[t])'
  <2>1. PICK r : r = tab[t]
    OBVIOUS
  <2>2. r \in TabRow /\ TabFits(t, r)
    BY <1>2, <2>1 DEF StorefrontOK, StorefrontTypeOK
  <2>3. TabFits(t, r)'
    BY <1>2, <1>3, <1>4, <2>2, TabFitsStill
  <2> QED BY <1>2, <2>1, <2>3
<1>8. ASSUME NEW j \in 1..Len(orders') PROVE OrderFits(j)'
  <2>1. OrderFits(j) /\ j \in 1..Len(orders)
    BY <1>4 DEF StorefrontOK, OrdersKept
  <2>2. hop[h].kind = "intent" => orders[hop[h].arg].intent \/ orders[hop[h].arg].lost
    BY <1>2 DEF HopFits
  <2> QED BY <1>1, <1>2, <1>3, <1>4, <2>1, <2>2 DEF OrderFits, HopAt, OrdersKept
<1>9. ChargedAsShown'
  BY <1>4, ChargedStill DEF StorefrontOK
<1>10. session
  BY <1>2 DEF StorefrontOK, HopAt
<1> QED BY <1>2, <1>5, <1>6, <1>7, <1>8, <1>9, <1>10 DEF StorefrontOK

\* A cart changes: every tab is outrun but the one that asked, when nothing
\* else is on its way to it.
LEMMA CartGoesOn ==
  ASSUME StorefrontOK, UNCHANGED method, NEW h \in Hops, hop[h].pc = "sent",
         hop[h].kind \in Changed, cart' \in Items, Stale \subseteq Stale', Stale' \subseteq Tabs,
         drops' \in 0..MostDrops, UNCHANGED <<session, orders, tab>>,
         NEW q \in HopRow, hop' = [hop EXCEPT ![h] = q], q.tab = hop[h].tab,
         q.kind = hop[h].kind, q.pc \in {"answered", "failed"},
         q.pc = "answered" => q.answer = cart' /\ Behind(h) \subseteq Stale',
         q.pc = "failed" => Stale' = Tabs
  PROVE  StorefrontOK'
<1>1. StorefrontTypeOK /\ hop[h] \in HopRow /\ HopFits(hop[h])
  BY DEF StorefrontOK, StorefrontTypeOK
<1>2. /\ hop' \in [Hops -> HopRow] /\ hop'[h] = q
      /\ \A g \in Hops \ {h} : hop'[g] = hop[g]
  BY <1>1, HopGoesOn
<1>3. StorefrontTypeOK'
  BY <1>1, <1>2 DEF StorefrontTypeOK, Stale
<1>4. ASSUME NEW t \in Tabs \ Stale'
      PROVE  /\ t = hop[h].tab /\ t # NoTab /\ q.pc = "answered"
             /\ \A g \in Hops \ {h} : hop[g].tab = t => hop[g].pc # "answered"
  <2>1. q.pc = "answered" /\ t \notin Behind(h)
    BY <1>4
  <2>2. t # NoTab
    BY <1>4, StorefrontAssumption DEF StorefrontAssumption
  <2> QED BY <2>1, <2>2 DEF Behind, HopsOf, HopAt
<1>5. /\ hop[h].kind = "set" /\ hop[h].tab # NoTab => tab[hop[h].tab].page = "cart"
      /\ hop[h].kind = "add" /\ hop[h].tab # NoTab => tab[hop[h].tab].page = "product"
  BY <1>1 DEF HopFits
<1>6. ASSUME NEW g \in Hops PROVE HopFits(hop[g])'
  <2>1. CASE g = h
    <3>1. PICK p : p = q
      OBVIOUS
    <3>2. HopFits(p)'
      BY <1>1, <1>5, <3>1 DEF HopFits, Changed
    <3> QED BY <1>2, <2>1, <3>1, <3>2
  <2>2. CASE g # h
    <3>1. PICK p : p = hop[g]
      OBVIOUS
    <3>2. p \in HopRow /\ HopFits(p) /\ hop'[g] = p
      BY <1>1, <1>2, <2>2, <3>1 DEF StorefrontOK, StorefrontTypeOK
    <3>3. p.tab \in Tabs \ Stale' => p.pc # "answered" /\ p.kind # "order"
      <4> SUFFICES ASSUME p.tab \in Tabs \ Stale' PROVE p.pc # "answered" /\ p.kind # "order"
        OBVIOUS
      <4>1. p.pc # "answered" /\ p.tab = hop[h].tab /\ p.tab # NoTab
        BY <1>4, <2>2, <3>1
      <4>2. tab[p.tab].page \in {"cart", "product"}
        BY <1>5, <4>1 DEF Changed
      <4> QED BY <3>2, <4>1, <4>2 DEF HopFits
    <3>4. HopFits(p)'
      BY <3>2, <3>3 DEF HopFits
    <3> QED BY <3>2, <3>4
  <2> QED BY <2>1, <2>2
<1>7. ASSUME NEW t \in Tabs PROVE TabFits(t, tab[t])'
  <2>1. PICK r : r = tab[t]
    OBVIOUS
  <2>2. r \in TabRow /\ TabFits(t, r) /\ tab'[t] = r
    BY <1>1, <2>1 DEF StorefrontOK, StorefrontTypeOK
  <2>3. ASSUME t \notin Stale'
        PROVE  /\ r.cart \in {Nothing, cart'}
                    \/ \E g \in Hops : hop'[g].tab = t /\ hop'[g].pc = "answered" /\ hop'[g].kind = "set"
               /\ \E g \in Hops : hop'[g].tab = t /\ hop'[g].pc = "answered" /\ hop'[g].kind \in Changed
    <3>1. /\ t = hop[h].tab /\ t # NoTab /\ hop'[h].tab = t /\ hop'[h].pc = "answered"
          /\ hop'[h].kind = hop[h].kind
      BY <1>2, <1>4, <2>3
    <3>2. hop[h].kind = "add" => r.cart = Nothing
      BY <1>5, <2>1, <2>2, <3>1 DEF TabFits
    <3> QED BY <3>1, <3>2 DEF Changed
  <2>4. TabFits(t, r)'
    BY <2>2, <2>3 DEF TabFits, HopAt
  <2> QED BY <2>2, <2>4
<1>8. ASSUME NEW i \in 1..Len(orders') PROVE OrderFits(i)'
  <2>1. OrderFits(i) /\ i \in 1..Len(orders)
    BY DEF StorefrontOK
  <2> QED BY <1>2, <2>1 DEF OrderFits, HopAt, Changed
<1>9. ChargedAsShown'
  BY DEF StorefrontOK, ChargedAsShown
<1>10. session
  BY DEF StorefrontOK, HopAt
<1> QED BY <1>3, <1>6, <1>7, <1>8, <1>9, <1>10 DEF StorefrontOK

\* The server changes the cart of a session.
LEMMA ServingChangeKeeps ==
  ASSUME StorefrontOK, UNCHANGED shippingVars, NEW h \in Hops, ServeChange(h)
  PROVE  StorefrontOK'
<1>1. PICK next : next = IF hop[h].kind = "add" THEN cart + 1 ELSE hop[h].arg
  OBVIOUS
<1>2. StorefrontTypeOK /\ hop[h] \in HopRow /\ HopFits(hop[h])
      /\ hop[h].pc = "sent" /\ hop[h].kind \in Changed
      /\ UNCHANGED <<session, orders, tab, method>>
      /\ drops \in 0..MostDrops /\ Stale \subseteq Tabs /\ cart \in Items
  BY DEF StorefrontOK, StorefrontTypeOK, ServeChange, HopAt, Changed, shippingVars, Stale
<1>3. \/ Fails(h) /\ UNCHANGED <<cart, Stale, drops>>
      \/ /\ next \in Items /\ cart' = next
         /\ \/ Answer(h, next) /\ Stale' = Stale \cup Behind(h) /\ UNCHANGED drops
            \/ Drops /\ Fails(h) /\ Stale' = Tabs
  BY <1>1, <1>2 DEF ServeChange, Stale
<1>4. Behind(h) \subseteq Tabs /\ (Drops => drops' \in 0..MostDrops)
  BY <1>2, StorefrontAssumption DEF Behind, Drops, StorefrontAssumption
<1>5. CASE Fails(h) /\ UNCHANGED <<cart, Stale, drops>>
  <2>1. OrdersKept
    BY <1>2, MarkingKeepsOrders
  <2> QED BY <1>2, <1>5, <2>1, FailingKeeps DEF HopAt, Changed
<1>6. CASE next \in Items /\ cart' = next /\ Drops /\ Fails(h) /\ Stale' = Tabs
  <2> DEFINE q == [hop[h] EXCEPT !.pc = "failed"]
  <2>1. q \in HopRow /\ q.pc = "failed" /\ q.tab = hop[h].tab /\ q.kind = hop[h].kind
    BY <1>2 DEF HopRow
  <2>2. hop' = [hop EXCEPT ![h] = q]
    BY <1>6 DEF Fails, HopGoes
  <2> HIDE DEF q
  <2> QED BY <1>2, <1>4, <1>6, <2>1, <2>2, CartGoesOn
<1>7. CASE next \in Items /\ cart' = next /\ Answer(h, next)
           /\ Stale' = Stale \cup Behind(h) /\ UNCHANGED drops
  <2> DEFINE q == [hop[h] EXCEPT !.pc = "answered", !.answer = next]
  <2>1. /\ q \in HopRow /\ q.pc = "answered" /\ q.tab = hop[h].tab /\ q.kind = hop[h].kind
        /\ q.answer = next
    <3>1. next \in Nat
      BY <1>7 DEF Items
    <3> QED BY <1>2, <3>1 DEF HopRow
  <2>2. hop' = [hop EXCEPT ![h] = q]
    BY <1>7 DEF Answer, HopGoes
  <2> HIDE DEF q
  <2> QED BY <1>2, <1>4, <1>7, <2>1, <2>2, CartGoesOn
<1> QED BY <1>3, <1>5, <1>6, <1>7

\* The cart is spent on an order of what the page had shown, or the tab was outrun.
LEMMA ServingOrderKeeps ==
  ASSUME StorefrontOK, SpentOK, UNCHANGED shippingVars, NEW h \in Hops, ServeOrder(h)
  PROVE  StorefrontOK'
<1>1. PICK m, n : m = hop[h].arg /\ n = Len(orders)
  OBVIOUS
<1> DEFINE row(lost) == [total |-> cart + method[m].price, shown |-> hop[h].shown,
                         fresh |-> hop[h].tab \in Tabs \ outrun, intent |-> FALSE, lost |-> lost]
<1>2. StorefrontTypeOK /\ hop[h] \in HopRow /\ HopFits(hop[h])
      /\ hop[h].pc = "sent" /\ hop[h].kind = "order"
      /\ UNCHANGED <<session, tab, method>>
      /\ drops \in 0..MostDrops /\ Stale \subseteq Tabs /\ cart \in Items
      /\ orders \in Seq(OrderRow) /\ n \in Nat /\ m \in Methods /\ MostOrders \in Nat
  BY <1>1, StorefrontAssumption
  DEF StorefrontOK, StorefrontTypeOK, ServeOrder, HopAt, HopFits, shippingVars, StorefrontAssumption, Stale
<1>3. \/ Fails(h) /\ UNCHANGED <<cart, orders, Stale, drops>>
      \/ /\ m \in ShippingOptions(cart) /\ cart # 0 /\ n < MostOrders /\ cart' = 0 /\ Stale' = Tabs
         /\ \/ Answer(h, n + 1) /\ orders' = Append(orders, row(FALSE)) /\ UNCHANGED drops
            \/ Drops /\ Fails(h) /\ orders' = Append(orders, row(TRUE))
  <2>1. hop[h].tab \in Tabs \cup {NoTab} /\ NoTab \notin Tabs /\ Stale \subseteq Tabs
    BY <1>2, StorefrontAssumption DEF HopRow, StorefrontAssumption
  <2>2. outrun' = outrun \cup (Tabs \ {hop[h].tab}) /\ spent' = spent \cup ({hop[h].tab} \ {NoTab})
          => Stale' = Tabs
    BY <2>1 DEF Stale
  <2>3. UNCHANGED <<outrun, spent>> => Stale' = Stale
    BY DEF Stale
  <2> QED BY <1>1, <2>2, <2>3 DEF ServeOrder
<1>4. CASE Fails(h) /\ UNCHANGED <<cart, orders, Stale, drops>>
  <2>1. OrdersKept
    BY <1>2, <1>4, MarkingKeepsOrders
  <2> QED BY <1>2, <1>4, <2>1, FailingKeeps DEF HopAt
<1>5. ASSUME NEW q \in HopRow, hop' = [hop EXCEPT ![h] = q], q.tab = hop[h].tab,
             q.kind = "order", q.arg = m, q.pc \in {"answered", "failed"},
             NEW lost \in BOOLEAN, q.pc = "failed" => lost,
             q.pc = "answered" => q.answer = n + 1, drops' \in 0..MostDrops,
             orders' = Append(orders, row(lost)),
             m \in ShippingOptions(cart), cart # 0, n < MostOrders, cart' = 0, Stale' = Tabs
      PROVE  StorefrontOK'
  <2>1. /\ hop' \in [Hops -> HopRow] /\ hop'[h] = q
        /\ \A g \in Hops \ {h} : hop'[g] = hop[g]
    BY <1>2, <1>5, HopGoesOn
  <2>2. row(lost) \in OrderRow
    <3>1. method[m].price \in Nat
      BY <1>5 DEF ShippingOptions, Offered, StorefrontOK, MethodRow
    <3>2. cart + method[m].price \in Nat
      BY <1>2, <3>1 DEF Items
    <3>3. hop[h].shown \in Nat
      BY <1>2 DEF HopRow
    <3> QED BY <1>5, <3>2, <3>3 DEF OrderRow
  <2>3. /\ row(lost).fresh => row(lost).total = row(lost).shown
        /\ row(lost).lost = lost
    <3>1. hop[h].tab \in Tabs \ outrun => hop[h].tab \notin Stale
      BY <1>5 DEF SpentOK, Sold, Stale
    <3> QED BY <1>1, <1>2, <3>1 DEF HopFits
  <2> HIDE DEF row
  <2>4. /\ orders' \in Seq(OrderRow) /\ Len(orders') = n + 1 /\ orders'[n + 1] = row(lost)
        /\ \A i \in 1..n : orders'[i] = orders[i] /\ i \in 1..Len(orders')
        /\ \A i \in 1..Len(orders') : i \in 1..n \/ i = n + 1
        /\ n + 1 \in 1..Len(orders')
    BY <1>1, <1>2, <1>5, <2>2
  <2>5. 0 \in Items /\ \A t \in Tabs : tab'[t] = tab[t]
    BY <1>2, StorefrontAssumption DEF Items, StorefrontAssumption
  <2>6. StorefrontTypeOK'
    <3>1. ASSUME NEW t \in Tabs PROVE tab[t].done <= n + 1
      BY <1>1, <1>2 DEF StorefrontTypeOK, TabRow
    <3> QED BY <1>2, <1>5, <2>1, <2>4, <2>5, <3>1 DEF StorefrontTypeOK, Stale
  <2>7. ASSUME NEW g \in Hops PROVE HopFits(hop[g])'
    <3>1. CASE g = h
      <4>1. PICK p : p = q
        OBVIOUS
      <4>2. p.tab # NoTab => tab[p.tab].page = "checkout"
        BY <1>2, <1>5, <4>1 DEF HopFits
      <4>3. HopFits(p)'
        BY <1>2, <1>5, <2>4, <4>1, <4>2 DEF HopFits, Changed
      <4> QED BY <2>1, <3>1, <4>1, <4>3
    <3>2. CASE g # h
      <4>1. PICK p : p = hop[g]
        OBVIOUS
      <4>2. p \in HopRow /\ HopFits(p) /\ hop'[g] = p
        BY <1>2, <2>1, <3>2, <4>1 DEF StorefrontOK, StorefrontTypeOK
      <4>3. HopFits(p)'
        BY <1>1, <1>2, <1>5, <2>4, <4>2 DEF HopFits
      <4> QED BY <4>2, <4>3
    <3> QED BY <3>1, <3>2
  <2>8. ASSUME NEW t \in Tabs PROVE TabFits(t, tab[t])'
    <3>1. PICK r : r = tab[t]
      OBVIOUS
    <3>2. r \in TabRow /\ TabFits(t, r) /\ tab'[t] = r
      BY <1>2, <2>5, <3>1 DEF StorefrontOK, StorefrontTypeOK
    <3>3. TabFits(t, r)'
      BY <1>1, <1>2, <1>5, <2>4, <3>2 DEF TabFits
    <3> QED BY <3>2, <3>3
  <2>9. ASSUME NEW i \in 1..Len(orders') PROVE OrderFits(i)'
    <3>1. CASE i = n + 1
      BY <1>5, <2>1, <2>3, <2>4, <3>1 DEF OrderFits, HopAt
    <3>2. CASE i \in 1..n
      <4>1. OrderFits(i) /\ orders'[i] = orders[i]
        BY <1>1, <2>4, <3>2 DEF StorefrontOK
      <4> QED BY <1>2, <2>1, <4>1 DEF OrderFits, HopAt
    <3> QED BY <2>4, <3>1, <3>2
  <2>10. ChargedAsShown'
    BY <1>1, <2>3, <2>4 DEF StorefrontOK, ChargedAsShown
  <2>11. session
    BY <1>2 DEF StorefrontOK, HopAt
  <2> QED BY <1>2, <2>6, <2>7, <2>8, <2>9, <2>10, <2>11 DEF StorefrontOK
<1>6. CASE /\ m \in ShippingOptions(cart) /\ cart # 0 /\ n < MostOrders /\ cart' = 0 /\ Stale' = Tabs
           /\ Answer(h, n + 1) /\ orders' = Append(orders, row(FALSE)) /\ UNCHANGED drops
  <2> DEFINE q == [hop[h] EXCEPT !.pc = "answered", !.answer = n + 1]
  <2>1. /\ q \in HopRow /\ q.pc = "answered" /\ q.tab = hop[h].tab /\ q.kind = "order"
        /\ q.answer = n + 1 /\ q.arg = m
    <3>1. n + 1 \in Nat
      BY <1>2
    <3> QED BY <1>1, <1>2, <3>1 DEF HopRow
  <2>2. hop' = [hop EXCEPT ![h] = q]
    BY <1>6 DEF Answer, HopGoes
  <2> HIDE DEF q, row
  <2> QED BY <1>2, <1>5, <1>6, <2>1, <2>2
<1>7. CASE /\ m \in ShippingOptions(cart) /\ cart # 0 /\ n < MostOrders /\ cart' = 0 /\ Stale' = Tabs
           /\ Drops /\ Fails(h) /\ orders' = Append(orders, row(TRUE))
  <2> DEFINE q == [hop[h] EXCEPT !.pc = "failed"]
  <2>1. /\ q \in HopRow /\ q.pc = "failed" /\ q.tab = hop[h].tab /\ q.kind = "order"
        /\ q.arg = m
    BY <1>1, <1>2 DEF HopRow
  <2>2. hop' = [hop EXCEPT ![h] = q]
    BY <1>7 DEF Fails, HopGoes
  <2>3. drops' \in 0..MostDrops
    BY <1>2, <1>7, StorefrontAssumption DEF Drops, StorefrontAssumption
  <2> HIDE DEF q, row
  <2> QED BY <1>5, <1>7, <2>1, <2>2, <2>3
<1> QED BY <1>3, <1>4, <1>6, <1>7

\* A badge or a cart that arrives is the API's, or the tab is outrun.
LEMMA ReceivingCartKeeps ==
  ASSUME StorefrontOK, UNCHANGED shippingVars, NEW h \in Hops, ReceiveCart(h)
  PROVE  StorefrontOK'
<1>1. PICK t, a : t = hop[h].tab /\ a = hop[h].answer
  OBVIOUS
<1>0. PICK row : row = IF hop[h].kind = "load" THEN [tab[t] EXCEPT !.cart = a]
                         ELSE [tab[t] EXCEPT !.badge = a]
  OBVIOUS
<1>2. StorefrontTypeOK /\ hop[h] \in HopRow /\ HopFits(hop[h])
      /\ hop[h].pc = "answered" /\ hop[h].kind \in {"load", "badge"} /\ t # NoTab
      /\ UNCHANGED <<session, cart, orders, method, Stale, drops>>
      /\ hop' = [hop EXCEPT ![h] = NoHop] /\ tab' = [tab EXCEPT ![t] = row]
  BY <1>0, <1>1 DEF StorefrontOK, StorefrontTypeOK, ReceiveCart, Ends, HopGoes, TabGoes, HopAt, shippingVars, Stale
<1>3. t \in Tabs /\ tab[t] \in TabRow /\ TabFits(t, tab[t])
  BY <1>1, <1>2 DEF HopRow, StorefrontOK, StorefrontTypeOK
<1>4. a \in Items /\ a # Nothing /\ (t \notin Stale => a = cart)
      /\ (hop[h].kind = "load" => tab[t].page \in {"cart", "checkout"})
  BY <1>1, <1>2, <1>3, StorefrontAssumption DEF HopFits, Items, StorefrontAssumption
<1>5. /\ row \in TabRow /\ row.page = tab[t].page /\ row.offer = tab[t].offer
      /\ row.selected = tab[t].selected /\ row.done = tab[t].done
      /\ row.cart = IF hop[h].kind = "load" THEN a ELSE tab[t].cart
      /\ row.badge = IF hop[h].kind = "load" THEN tab[t].badge ELSE a
  BY <1>0, <1>3, <1>4 DEF TabRow
<1>6. /\ hop'[h] = NoHop /\ \A g \in Hops \ {h} : hop'[g] = hop[g]
  BY <1>2, NoHopFits, HopGoesOn
<1>7. TabFits(t, row)'
  <2>2. ASSUME t \notin Stale
        PROVE  /\ row.cart \in {Nothing, cart'}
                    \/ \E g \in Hops : hop'[g].tab = t /\ hop'[g].pc = "answered" /\ hop'[g].kind = "set"
               /\ row.badge = cart'
                    \/ \E g \in Hops : hop'[g].tab = t
                      /\ (hop'[g].kind = "badge" \/ (hop'[g].pc = "answered" /\ hop'[g].kind \in Changed))
    <3>1. CASE hop[h].kind = "load"
      BY <1>2, <1>3, <1>4, <1>5, <1>6, <2>2, <3>1 DEF TabFits, HopAt, Changed
    <3>2. CASE hop[h].kind = "badge"
      BY <1>2, <1>3, <1>4, <1>5, <1>6, <2>2, <3>2 DEF TabFits, HopAt, Changed
    <3> QED BY <1>2, <3>1, <3>2
  <2> QED BY <1>2, <1>3, <1>4, <1>5, <2>2 DEF TabFits, HopAt
<1>8. HopFits(NoHop)'
  BY DEF HopFits, NoHop, Changed
<1>9. row.done <= Len(orders)
  BY <1>2, <1>3, <1>5 DEF StorefrontTypeOK
<1> QED BY <1>1, <1>2, <1>3, <1>4, <1>5, <1>7, <1>8, <1>9, NoHopFits, ReceivingKeeps

\* A change that arrives is shown, and the badge asks anew.
LEMMA ReceivingChangeKeeps ==
  ASSUME StorefrontOK, UNCHANGED shippingVars, NEW h \in Hops, ReceiveChange(h)
  PROVE  StorefrontOK'
<1>1. PICK t, a, q : t = hop[h].tab /\ a = hop[h].answer /\ q = Request(t, "badge", Nothing)
  OBVIOUS
<1>0. PICK row : row = IF hop[h].kind = "set" THEN [tab[t] EXCEPT !.cart = a] ELSE tab[t]
  OBVIOUS
<1>2. StorefrontTypeOK /\ hop[h] \in HopRow /\ HopFits(hop[h])
      /\ hop[h].pc = "answered" /\ hop[h].kind \in Changed /\ t # NoTab
      /\ UNCHANGED <<session, cart, orders, method, Stale, drops>>
      /\ hop' = [hop EXCEPT ![h] = q] /\ tab' = [tab EXCEPT ![t] = row]
  BY <1>0, <1>1
  DEF StorefrontOK, StorefrontTypeOK, ReceiveChange, HopGoes, TabGoes, HopAt, Changed, shippingVars, Stale
<1>3. t \in Tabs /\ tab[t] \in TabRow /\ TabFits(t, tab[t])
  BY <1>1, <1>2 DEF HopRow, StorefrontOK, StorefrontTypeOK
<1>4. a \in Items /\ a # Nothing /\ (t \notin Stale => a = cart)
      /\ (hop[h].kind = "set" => tab[t].page = "cart")
      /\ (hop[h].kind = "add" => tab[t].page = "product")
  BY <1>1, <1>2, <1>3, StorefrontAssumption DEF HopFits, Items, StorefrontAssumption
<1>5. /\ row \in TabRow /\ row.page = tab[t].page /\ row.offer = tab[t].offer
      /\ row.selected = tab[t].selected /\ row.done = tab[t].done /\ row.badge = tab[t].badge
      /\ row.cart = IF hop[h].kind = "set" THEN a ELSE tab[t].cart
  BY <1>0, <1>3, <1>4 DEF TabRow
<1>6. q \in HopRow /\ q.pc = "sent" /\ q.tab = t /\ q.kind = "badge"
  <2>1. q = Request(t, "badge", Nothing) /\ Nothing \in Nat \cup Methods \cup {Nothing}
    BY <1>1
  <2> QED BY <1>3, <2>1, RequestIsOne
<1>7. hop'[h] = q
  BY <1>2, <1>6, HopGoesOn
<1>8. TabFits(t, row)'
  <2>2. t \notin Stale => row.cart \in {Nothing, cart'}
    BY <1>2, <1>3, <1>4, <1>5 DEF TabFits, Changed
  <2> QED BY <1>2, <1>3, <1>4, <1>5, <1>6, <1>7, <2>2 DEF TabFits
<1>9. HopFits(q)'
  BY <1>6 DEF HopFits, Changed
<1>10. row.done <= Len(orders)
  BY <1>2, <1>3, <1>5 DEF StorefrontTypeOK
<1> QED BY <1>1, <1>2, <1>3, <1>4, <1>5, <1>6, <1>8, <1>9, <1>10, ReceivingKeeps DEF Changed

\* The options that arrive are at the prices of now, or the tab is outrun.
LEMMA ReceivingOptionsKeeps ==
  ASSUME StorefrontOK, UNCHANGED shippingVars, NEW h \in Hops, ReceiveOptions(h)
  PROVE  StorefrontOK'
<1>1. PICK t, offer : t = hop[h].tab /\ offer = hop[h].offer
  OBVIOUS
<1> DEFINE offered == {m \in Methods : offer[m] # Nothing}
<1>2. StorefrontTypeOK /\ hop[h] \in HopRow /\ HopFits(hop[h])
      /\ hop[h].pc = "answered" /\ hop[h].kind = "options" /\ t # NoTab
      /\ UNCHANGED <<session, cart, orders, method, drops>>
      /\ hop' = [hop EXCEPT ![h] = NoHop]
      /\ Stale' = IF \E m \in offered : method[m].price # offer[m] THEN Stale \cup {t} ELSE Stale
  BY <1>1
  DEF StorefrontOK, StorefrontTypeOK, ReceiveOptions, Ends, HopGoes, HopAt, shippingVars, Stale
<1>3. t \in Tabs /\ tab[t] \in TabRow /\ TabFits(t, tab[t]) /\ offer \in Offer
  BY <1>1, <1>2 DEF HopRow, StorefrontOK, StorefrontTypeOK
<1>4. PICK n \in offered :
        TabGoes(t, [tab[t] EXCEPT !.offer = offer, !.selected = n, !.asking = FALSE])
  BY <1>1 DEF ReceiveOptions
<1>0. PICK row : row = [tab[t] EXCEPT !.offer = offer, !.selected = n, !.asking = FALSE]
  OBVIOUS
<1>5. /\ row \in TabRow /\ row.page = tab[t].page /\ row.offer = offer
      /\ row.selected = n /\ row.done = tab[t].done /\ row.badge = tab[t].badge
      /\ row.cart = tab[t].cart
  BY <1>0, <1>3, <1>4 DEF TabRow
<1>6. tab' = [tab EXCEPT ![t] = row]
  BY <1>0, <1>4 DEF TabGoes
<1>7. hop'[h] = NoHop /\ \A g \in Hops \ {h} : hop'[g] = hop[g]
  BY <1>2, NoHopFits, HopGoesOn
<1>8. /\ tab[t].page = "checkout" /\ tab[t].cart # Nothing
      /\ \A m \in Methods : offer[m] # Nothing => method[m] # NoMethod
      /\ \A m \in Methods : offer[m] # Nothing /\ t \notin Stale' => offer[m] = method[m].price
      /\ Stale \subseteq Stale' /\ Stale' \subseteq Stale \cup {t} /\ Stale' \subseteq Tabs
  BY <1>1, <1>2, <1>3 DEF HopFits, StorefrontTypeOK, Stale
<1>9. TabFits(t, row)'
  <2>2. ASSUME t \notin Stale'
        PROVE  /\ row.cart \in {Nothing, cart'}
                    \/ \E g \in Hops : hop'[g].tab = t /\ hop'[g].pc = "answered" /\ hop'[g].kind = "set"
               /\ row.badge = cart'
                    \/ \E g \in Hops : hop'[g].tab = t
                      /\ (hop'[g].kind = "badge" \/ (hop'[g].pc = "answered" /\ hop'[g].kind \in Changed))
    BY <1>2, <1>3, <1>5, <1>7, <1>8, <2>2 DEF TabFits, HopAt, Changed
  <2>3. \A m \in Methods : row.offer[m] # Nothing =>
          /\ method'[m] # NoMethod /\ row.cart # Nothing
          /\ t \notin Stale' => row.offer[m] = method'[m].price
    BY <1>2, <1>5, <1>8
  <2>4. row.selected # NoMethod => row.offer[row.selected] # Nothing
    BY <1>4, <1>5
  <2>5. row.done > 0 => row.done \in 1..Len(orders') /\ orders'[row.done].intent
    BY <1>2, <1>3, <1>5 DEF TabFits
  <2>6. row.page = "checkout"
    BY <1>5, <1>8
  <2> QED BY <2>2, <2>3, <2>4, <2>5, <2>6 DEF TabFits, HopAt
<1>10. HopFits(NoHop)'
  BY DEF HopFits, NoHop, Changed
<1>11. row.done <= Len(orders)
  BY <1>2, <1>3, <1>5 DEF StorefrontTypeOK
<1> HIDE DEF offered
<1> QED BY <1>1, <1>2, <1>3, <1>5, <1>6, <1>8, <1>9, <1>10, <1>11, NoHopFits, ReceivingKeeps

\* An order's answer is followed by the request of its intent.
LEMMA ReceivingOrderKeeps ==
  ASSUME StorefrontOK, UNCHANGED shippingVars, NEW h \in Hops, ReceiveOrder(h)
  PROVE  StorefrontOK'
<1>1. PICK t, i, q : t = hop[h].tab /\ i = hop[h].answer /\ q = Request(t, "intent", i)
  OBVIOUS
<1>2. StorefrontTypeOK /\ hop[h] \in HopRow /\ HopFits(hop[h])
      /\ hop[h].pc = "answered" /\ hop[h].kind = "order" /\ t # NoTab
      /\ UNCHANGED <<session, cart, orders, tab, method, Stale, drops>>
      /\ hop' = [hop EXCEPT ![h] = q] /\ tab \in [Tabs -> TabRow]
  BY <1>1 DEF StorefrontOK, StorefrontTypeOK, ReceiveOrder, HopGoes, HopAt, shippingVars, Stale
<1>3. PICK row : row = tab[t]
  OBVIOUS
<1>4. t \in Tabs /\ row \in TabRow /\ TabFits(t, row) /\ tab' = [tab EXCEPT ![t] = row]
  BY <1>1, <1>2, <1>3 DEF HopRow, StorefrontOK
<1>5. i \in 1..Len(orders) /\ i \in Nat /\ tab[t].page = "checkout"
  BY <1>1, <1>2 DEF HopFits, StorefrontTypeOK
<1>6. q \in HopRow /\ q.pc = "sent" /\ q.tab = t /\ q.kind = "intent" /\ q.arg = i
  BY <1>1, <1>4, <1>5, RequestIsOne
<1>7. /\ hop' \in [Hops -> HopRow] /\ hop'[h] = q
      /\ \A g \in Hops \ {h} : hop'[g] = hop[g]
  BY <1>2, <1>6, HopGoesOn
<1>8. HopFits(q)'
  BY <1>2, <1>4, <1>5, <1>6 DEF HopFits, Changed
<1>9. TabFits(t, row)'
  <2>1. OrdersKept
    BY <1>2, MarkingKeepsOrders
  <2> QED BY <1>2, <1>4, <1>7, <2>1, TabFitsStill DEF Changed
<1>10. row.done <= Len(orders)
  BY <1>2, <1>3, <1>4 DEF StorefrontTypeOK
<1> QED BY <1>1, <1>2, <1>3, <1>4, <1>6, <1>8, <1>9, <1>10, ReceivingKeeps

\* The success is of an order that has its intent.
LEMMA ReceivingIntentKeeps ==
  ASSUME StorefrontOK, UNCHANGED shippingVars, NEW h \in Hops, ReceiveIntent(h)
  PROVE  StorefrontOK'
<1>1. PICK t, i : t = hop[h].tab /\ i = hop[h].answer
  OBVIOUS
<1>0. PICK row : row = [tab[t] EXCEPT !.done = i, !.paying = FALSE]
  OBVIOUS
<1>2. StorefrontTypeOK /\ hop[h] \in HopRow /\ HopFits(hop[h])
      /\ hop[h].pc = "answered" /\ hop[h].kind = "intent" /\ t # NoTab
      /\ UNCHANGED <<session, cart, orders, method, Stale, drops>>
      /\ hop' = [hop EXCEPT ![h] = NoHop] /\ tab' = [tab EXCEPT ![t] = row]
  BY <1>0, <1>1
  DEF StorefrontOK, StorefrontTypeOK, ReceiveIntent, Ends, HopGoes, TabGoes, HopAt, shippingVars, Stale
<1>3. t \in Tabs /\ tab[t] \in TabRow /\ TabFits(t, tab[t])
  BY <1>1, <1>2 DEF HopRow, StorefrontOK, StorefrontTypeOK
<1>4. i \in 1..Len(orders) /\ i \in Nat /\ orders[i].intent /\ hop[h].arg = i
  BY <1>1, <1>2 DEF HopFits, StorefrontTypeOK
<1>5. /\ row \in TabRow /\ row.page = tab[t].page /\ row.offer = tab[t].offer
      /\ row.selected = tab[t].selected /\ row.done = i /\ row.badge = tab[t].badge
      /\ row.cart = tab[t].cart
  BY <1>0, <1>3, <1>4 DEF TabRow
<1>6. /\ hop' \in [Hops -> HopRow] /\ hop'[h] = NoHop
      /\ \A g \in Hops \ {h} : hop'[g] = hop[g]
  BY <1>2, NoHopFits, HopGoesOn
<1>7. TabFits(t, row)'
  <2>1. OrdersKept
    BY <1>2, MarkingKeepsOrders
  <2>3. TabFits(t, row)
    BY <1>3, <1>4, <1>5 DEF TabFits
  <2> QED BY <1>2, <1>3, <1>5, <1>6, <2>1, <2>3, TabFitsStill DEF Changed
<1>8. HopFits(NoHop)'
  BY DEF HopFits, NoHop, Changed
<1>9. row.done <= Len(orders)
  BY <1>2, <1>4, <1>5 DEF StorefrontTypeOK
<1> QED BY <1>1, <1>2, <1>3, <1>4, <1>5, <1>7, <1>8, <1>9, NoHopFits, ReceivingKeeps

\* An error message: a badge that could not load is outrun.
LEMMA ReceivingFailureKeeps ==
  ASSUME StorefrontOK, UNCHANGED shippingVars, NEW h \in Hops, ReceiveFailure(h)
  PROVE  StorefrontOK'
<1>1. PICK t, kind : t = hop[h].tab /\ kind = hop[h].kind
  OBVIOUS
<1>2. StorefrontTypeOK /\ hop[h] \in HopRow /\ HopFits(hop[h])
      /\ hop[h].pc = "failed" /\ t # NoTab
      /\ UNCHANGED <<session, cart, orders, method, drops>>
      /\ hop' = [hop EXCEPT ![h] = NoHop]
      /\ Stale' = IF kind = "badge" THEN Stale \cup {t} ELSE Stale
  BY <1>1
  DEF StorefrontOK, StorefrontTypeOK, ReceiveFailure, Ends, HopGoes, HopAt, shippingVars, Stale
<1>3. t \in Tabs /\ tab[t] \in TabRow /\ TabFits(t, tab[t]) /\ 0 \in Items
  BY <1>1, <1>2, StorefrontAssumption
  DEF HopRow, StorefrontOK, StorefrontTypeOK, Items, StorefrontAssumption
<1>4. PICK row \in TabRow :
        /\ tab' = [tab EXCEPT ![t] = row]
        /\ row.page = tab[t].page /\ row.offer = tab[t].offer /\ row.cart = tab[t].cart
        /\ row.selected = tab[t].selected /\ row.done = tab[t].done
        /\ kind # "badge" => row.badge = tab[t].badge
  <2>1. CASE kind = "badge"
    <3>1. tab' = [tab EXCEPT ![t] = [tab[t] EXCEPT !.badge = 0]]
      BY <1>1, <2>1 DEF ReceiveFailure, TabGoes
    <3> QED BY <1>3, <2>1, <3>1 DEF TabRow
  <2>2. CASE kind = "options"
    <3> DEFINE row == [tab[t] EXCEPT !.asking = FALSE]
    <3>1. tab' = [tab EXCEPT ![t] = row]
      BY <1>1, <2>2 DEF ReceiveFailure, TabGoes
    <3>2. /\ row \in TabRow /\ row.page = tab[t].page /\ row.offer = tab[t].offer
          /\ row.cart = tab[t].cart /\ row.selected = tab[t].selected
          /\ row.done = tab[t].done /\ row.badge = tab[t].badge
      BY <1>3 DEF TabRow
    <3> HIDE DEF row
    <3> QED BY <3>1, <3>2
  <2>3. CASE kind \in {"order", "intent"}
    <3> DEFINE row == [tab[t] EXCEPT !.paying = FALSE]
    <3>1. tab' = [tab EXCEPT ![t] = row]
      BY <1>1, <2>3 DEF ReceiveFailure, TabGoes
    <3>2. /\ row \in TabRow /\ row.page = tab[t].page /\ row.offer = tab[t].offer
          /\ row.cart = tab[t].cart /\ row.selected = tab[t].selected
          /\ row.done = tab[t].done /\ row.badge = tab[t].badge
      BY <1>3 DEF TabRow
    <3> HIDE DEF row
    <3> QED BY <3>1, <3>2
  <2>4. CASE kind \notin {"badge", "options", "order", "intent"}
    <3>1. tab' = [tab EXCEPT ![t] = tab[t]]
      BY <1>1, <2>4 DEF ReceiveFailure, TabGoes
    <3> QED BY <1>3, <3>1
  <2> QED BY <2>1, <2>2, <2>3, <2>4
<1>5. /\ hop' \in [Hops -> HopRow] /\ hop'[h] = NoHop
      /\ \A g \in Hops \ {h} : hop'[g] = hop[g]
  BY <1>2, NoHopFits, HopGoesOn
<1>6. Stale \subseteq Stale' /\ Stale' \subseteq Stale \cup {t}
  BY <1>2
<1>7. TabFits(t, row)'
  <2>1. OrdersKept
    BY <1>2, MarkingKeepsOrders
  <2>3. CASE kind # "badge"
    <3>1. TabFits(t, row)
      BY <1>3, <1>4, <2>3 DEF TabFits
    <3>2. TabFits(t, row)'
      BY <1>1, <1>2, <1>3, <1>4, <1>5, <1>6, <2>1, <2>3, <3>1, TabFitsStill DEF Changed
    <3> QED BY <3>2
  <2>4. CASE kind = "badge"
    <3>1. t \in Stale'
      BY <1>2, <2>4
    <3>2. TabFits(t, row)'
      BY <1>2, <1>3, <1>4, <3>1 DEF TabFits
    <3> QED BY <3>2
  <2> QED BY <2>3, <2>4
<1>8. HopFits(NoHop)'
  BY DEF HopFits, NoHop, Changed
<1>9. row.done <= Len(orders)
  BY <1>2, <1>3, <1>4 DEF StorefrontTypeOK
<1>10. hop[h].kind = "intent" => orders[hop[h].arg].intent \/ orders[hop[h].arg].lost
  BY <1>2 DEF HopFits
<1> QED BY <1>1, <1>2, <1>3, <1>4, <1>6, <1>7, <1>8, <1>9, <1>10, NoHopFits, ReceivingKeeps

\* A page opens: what was on its way to the tab is no more, and what it shows
\* is empty or asked for.
LEMMA OpeningKeeps ==
  ASSUME StorefrontOK, UNCHANGED shippingVars, NEW t \in Tabs,
         NEW page \in {"product", "cart", "checkout"}, OpenPage(t, page)
  PROVE  StorefrontOK'
<1>1. PICK kinds : kinds = IF ~session THEN {} ELSE IF page = "product" THEN {"badge"}
                           ELSE {"badge", "load"}
  OBVIOUS
<1>2. PICK f \in [kinds -> {h \in Hops : HopAt(h, "idle")}] :
        /\ \A a, b \in kinds : a # b => f[a] # f[b]
        /\ hop' = [h \in Hops |->
             IF \E a \in kinds : f[a] = h
             THEN Request(t, CHOOSE a \in kinds : f[a] = h, Nothing)
             ELSE IF h \in HopsOf(t) THEN [hop[h] EXCEPT !.tab = NoTab] ELSE hop[h]]
  BY <1>1 DEF OpenPage
<1>3. /\ tab' = [tab EXCEPT ![t] = [Closed EXCEPT !.page = page]] /\ Stale' = Stale \ {t}
      /\ UNCHANGED <<session, cart, orders, method, drops>>
  BY DEF OpenPage, shippingVars, Stale
<1>4. PICK row : row = [Closed EXCEPT !.page = page]
  OBVIOUS
<1>5. StorefrontTypeOK /\ 0 \in Items /\ NoTab \notin Tabs /\ OrdersKept
      /\ UNCHANGED <<session, cart, orders, method, drops>>
  BY <1>3, MarkingKeepsOrders, StorefrontAssumption
  DEF StorefrontOK, Items, StorefrontAssumption
<1>6. /\ row \in TabRow /\ row.page = page /\ row.cart = Nothing /\ row.badge = 0
      /\ row.selected = NoMethod /\ row.done = 0 /\ \A m \in Methods : row.offer[m] = Nothing
  BY <1>4, <1>5 DEF Closed, TabRow, Offer, NoOffer
<1>7. /\ tab' \in [Tabs -> TabRow] /\ tab'[t] = row
      /\ \A u \in Tabs \ {t} : tab'[u] = tab[u]
  BY <1>3, <1>4, <1>5, <1>6, TabGoesOn
<1>8. ASSUME NEW h \in Hops
      PROVE  \/ \E a \in kinds : hop[h].pc = "idle" /\ f[a] = h /\ hop'[h] = Request(t, a, Nothing)
             \/ /\ hop[h].tab = t /\ hop'[h] = [hop[h] EXCEPT !.tab = NoTab]
             \/ /\ hop[h].tab # t /\ hop'[h] = hop[h]
  <2>1. CASE \E a \in kinds : f[a] = h
    <3>1. PICK a \in kinds : a = CHOOSE b \in kinds : f[b] = h
      BY <2>1
    <3>2. f[a] = h
      BY <2>1, <3>1
    <3>3. hop'[h] = Request(t, a, Nothing)
      BY <1>2, <2>1, <3>1
    <3>4. hop[h].pc = "idle"
      BY <1>2, <3>2 DEF HopAt
    <3> QED BY <3>2, <3>3, <3>4
  <2>2. CASE ~\E a \in kinds : f[a] = h
    <3>1. hop'[h] = IF h \in HopsOf(t) THEN [hop[h] EXCEPT !.tab = NoTab] ELSE hop[h]
      BY <1>2, <2>2
    <3> QED BY <3>1 DEF HopsOf
  <2> QED BY <2>1, <2>2
<1>9. ASSUME NEW h \in Hops
      PROVE  \/ /\ hop[h].pc = "idle" /\ hop'[h] \in HopRow
                /\ \E a \in kinds : f[a] = h /\ hop'[h].kind = a
                /\ hop'[h].pc = "sent" /\ hop'[h].tab = t
             \/ /\ hop[h].tab = t /\ hop'[h] \in HopRow /\ hop'[h].tab = NoTab
                /\ hop'[h].pc = hop[h].pc /\ hop'[h].kind = hop[h].kind
                /\ hop'[h].arg = hop[h].arg /\ hop'[h].answer = hop[h].answer
                /\ hop'[h].offer = hop[h].offer
             \/ hop[h].tab # t /\ hop'[h] = hop[h] /\ hop'[h] \in HopRow
  <2>1. hop[h] \in HopRow
    BY <1>5 DEF StorefrontTypeOK
  <2>2. ASSUME NEW a \in kinds, hop[h].pc = "idle", f[a] = h, hop'[h] = Request(t, a, Nothing)
        PROVE  /\ hop'[h] \in HopRow /\ hop'[h].kind = a
               /\ hop'[h].pc = "sent" /\ hop'[h].tab = t
    <3>1. a \in {"load", "badge", "add", "set", "options", "order", "intent"}
      BY <1>1
    <3>2. PICK q, none : q = hop'[h] /\ none = Nothing
      OBVIOUS
    <3>3. none \in Nat \cup Methods \cup {Nothing} /\ q = Request(t, a, none)
      BY <2>2, <3>2
    <3>4. q \in HopRow /\ q.kind = a /\ q.pc = "sent" /\ q.tab = t
      BY <3>1, <3>3, RequestIsOne
    <3> QED BY <3>2, <3>4
  <2>3. ASSUME hop[h].tab = t, hop'[h] = [hop[h] EXCEPT !.tab = NoTab]
        PROVE  /\ hop'[h] \in HopRow /\ hop'[h].tab = NoTab
               /\ hop'[h].pc = hop[h].pc /\ hop'[h].kind = hop[h].kind
               /\ hop'[h].arg = hop[h].arg /\ hop'[h].answer = hop[h].answer
               /\ hop'[h].offer = hop[h].offer
    BY <2>1, <2>3 DEF HopRow
  <2> QED BY <1>8, <2>1, <2>2, <2>3
<1>10. hop' \in [Hops -> HopRow]
  BY <1>2, <1>9
<1>11. StorefrontTypeOK'
  <2>1. ASSUME NEW u \in Tabs PROVE tab'[u].done <= Len(orders)
    BY <1>5, <1>6, <1>7 DEF StorefrontTypeOK
  <2> QED BY <1>5, <1>3, <1>7, <1>10, <2>1 DEF StorefrontTypeOK, Stale
<1>12. ASSUME NEW h \in Hops PROVE HopFits(hop[h])'
  <2>1. PICK p : p = hop'[h]
    OBVIOUS
  <2>2. HopFits(hop[h])
    BY DEF StorefrontOK
  <2>3. CASE p.tab = t /\ p.pc = "sent" /\ p.kind \in kinds
    <3>1. p.kind = "badge" \/ (p.kind = "load" /\ page \in {"cart", "checkout"})
      BY <1>1, <2>3
    <3>2. HopFits(p)'
      BY <1>6, <1>7, <2>3, <3>1 DEF HopFits, Changed
    <3> QED BY <2>1, <3>2
  <2>4. CASE /\ p.tab = NoTab /\ hop[h].tab = t
             /\ p.pc = hop[h].pc /\ p.kind = hop[h].kind /\ p.arg = hop[h].arg
             /\ p.answer = hop[h].answer /\ p.offer = hop[h].offer
    <3>1. p.pc # "idle"
      BY <1>5, <2>2, <2>4 DEF HopFits, NoHop
    <3>2. HopFits(p)'
      BY <1>5, <2>2, <2>4, <3>1 DEF HopFits
    <3> QED BY <2>1, <3>2
  <2>5. CASE p = hop[h] /\ p.tab # t /\ p \in HopRow
    <3>1. p.tab \in Tabs \cup {NoTab} /\ (p.tab \in Tabs => tab'[p.tab] = tab[p.tab])
          /\ (p.tab \in Tabs \ Stale' => p.tab \notin Stale)
      BY <1>3, <1>7, <2>5 DEF HopRow
    <3>2. HopFits(p)'
      BY <1>5, <2>2, <2>5, <3>1 DEF HopFits
    <3> QED BY <2>1, <3>2
  <2> QED BY <1>9, <2>1, <2>3, <2>4, <2>5
<1>13. \A h \in Hops : hop[h].tab \in Tabs \ {t} => hop'[h] = hop[h]
  <2>1. \A h \in Hops : hop[h].pc = "idle" => hop[h].tab = NoTab
    BY DEF StorefrontOK, HopFits, NoHop
  <2> QED BY <1>5, <1>9, <2>1
<1>14. TabFits(t, tab[t])'
  <2>1. session => \E h \in Hops : hop'[h].tab = t /\ hop'[h].kind = "badge"
    <3> SUFFICES ASSUME session PROVE \E h \in Hops : hop'[h].tab = t /\ hop'[h].kind = "badge"
      OBVIOUS
    <3>1. "badge" \in kinds
      BY <1>1
    <3>2. PICK h \in Hops : h = f["badge"] /\ hop[h].pc = "idle"
      BY <1>2, <3>1 DEF HopAt
    <3>3. \A a \in kinds : f[a] = h => a = "badge"
      BY <1>2, <3>1, <3>2
    <3>4. hop[h].tab # t
      BY <1>5, <3>2 DEF StorefrontOK, HopFits, NoHop
    <3>5. \E a \in kinds : f[a] = h
      BY <3>1, <3>2
    <3>6. hop'[h] = Request(t, CHOOSE a \in kinds : f[a] = h, Nothing)
      BY <1>2, <3>5
    <3>7. (CHOOSE a \in kinds : f[a] = h) = "badge"
      BY <3>3, <3>5
    <3>8. Nothing \in Nat \cup Methods \cup {Nothing}
      OBVIOUS
    <3>9. hop'[h] = Request(t, "badge", Nothing)
      BY <3>6, <3>7
    <3> QED BY <3>8, <3>9, RequestIsOne
  <2>2. ~session => cart' = 0
    BY <1>5 DEF StorefrontOK
  <2>3. TabFits(t, row)'
    BY <1>6, <2>1, <2>2 DEF TabFits
  <2> QED BY <1>7, <2>3 DEF TabFits
<1>15. ASSUME NEW u \in Tabs \ {t} PROVE TabFits(u, tab[u])'
  <2>1. PICK r : r = tab[u]
    OBVIOUS
  <2>2. r \in TabRow /\ TabFits(u, r) /\ tab'[u] = r /\ (u \notin Stale' => u \notin Stale)
    BY <1>3, <1>5, <1>7, <2>1 DEF StorefrontOK, StorefrontTypeOK, Stale
  <2>3. u \notin Stale =>
          /\ r.cart \in {Nothing, cart}
               \/ \E h \in Hops : hop'[h].tab = u /\ hop'[h].pc = "answered" /\ hop'[h].kind = "set"
          /\ r.badge = cart
               \/ \E h \in Hops : hop'[h].tab = u
                    /\ (hop'[h].kind = "badge" \/ (hop'[h].pc = "answered" /\ hop'[h].kind \in Changed))
    BY <1>13, <2>2 DEF TabFits, HopAt
  <2>4. TabFits(u, r)'
    BY <1>5, <2>2, <2>3 DEF TabFits, HopAt
  <2> QED BY <2>2, <2>4
<1>16. ASSUME NEW i \in 1..Len(orders') PROVE OrderFits(i)'
  <2>1. OrderFits(i) /\ i \in 1..Len(orders)
    BY <1>5 DEF StorefrontOK
  <2>2. \A h \in Hops : hop[h].pc # "idle" =>
          /\ hop'[h].pc = hop[h].pc /\ hop'[h].kind = hop[h].kind
          /\ hop'[h].arg = hop[h].arg /\ hop'[h].answer = hop[h].answer
    BY <1>9
  <2>3. \A h \in Hops : hop[h].pc = "idle" => hop[h].kind = "none"
    BY DEF StorefrontOK, HopFits, NoHop
  <2> QED BY <1>5, <2>1, <2>2, <2>3 DEF OrderFits, HopAt
<1>17. ChargedAsShown'
  BY <1>5 DEF StorefrontOK, ChargedAsShown
<1>18. session \/ (cart = 0 /\ \A h \in Hops : hop'[h].pc = "idle")
  <2>1. ASSUME ~session, NEW h \in Hops PROVE hop'[h].pc = "idle"
    <3>1. hop[h].pc = "idle" /\ kinds = {} /\ hop[h].tab # t
      BY <1>1, <1>5, <2>1 DEF StorefrontOK, HopAt, HopFits, NoHop
    <3> QED BY <1>9, <3>1
  <2> QED BY <2>1 DEF StorefrontOK
<1> QED BY <1>5, <1>11, <1>12, <1>14, <1>15, <1>16, <1>17, <1>18 DEF StorefrontOK, HopAt

\* A method's new price outruns the tabs that show, or have sent, another.
LEMMA MerchantKeeps ==
  ASSUME StorefrontOK, NEW m \in Methods, NEW input \in Changes, MerchantWrites(m, input)
  PROVE  StorefrontOK'
<1>1. PICK row : row = IF method[m] = NoMethod THEN input ELSE Overlaid(method[m], input)
  OBVIOUS
<1>2. /\ StorefrontTypeOK /\ method \in [Methods -> MethodRow \cup {NoMethod}]
      /\ method' = [method EXCEPT ![m] = row]
      /\ Stale' = Stale \cup {t \in Tabs :
           \/ tab[t].offer[m] \notin {Nothing, row.price}
           \/ \E h \in HopsOf(t) : hop[h].kind = "order" /\ hop[h].arg = m}
      /\ UNCHANGED <<session, cart, orders, tab, hop, drops>>
  BY <1>1 DEF StorefrontOK, MerchantWrites, Stale
<1>3. row \in MethodRow
  <2>1. input \in MethodBody
    BY StorefrontAssumption, ShippingAssumption DEF StorefrontAssumption, ShippingAssumption
  <2>2. CASE method[m] = NoMethod
    <3>1. row = input /\ LeftOut \notin {input[g] : g \in DOMAIN input}
      BY <1>1, <2>2 DEF MerchantWrites
    <3> QED BY <2>1, <3>1, BodiesMakeRows
  <2>3. CASE method[m] # NoMethod
    BY <1>1, <1>2, <2>1, <2>3, BodiesMakeRows
  <2> QED BY <2>2, <2>3
<1>4. row # NoMethod
  BY <1>3, ShippingAssumption DEF ShippingAssumption
<1>5. /\ method' \in [Methods -> MethodRow \cup {NoMethod}] /\ method'[m] = row
      /\ \A n \in Methods \ {m} : method'[n] = method[n]
  BY <1>2, <1>3
<1>6. StorefrontTypeOK'
  BY <1>2 DEF StorefrontTypeOK, Stale
<1>7. Stale \subseteq Stale' /\ \A n \in Methods : method[n] # NoMethod => method'[n] # NoMethod
  BY <1>2, <1>4, <1>5
<1>8. ASSUME NEW h \in Hops PROVE HopFits(hop[h])'
  <2>1. PICK p : p = hop[h]
    OBVIOUS
  <2>2. HopFits(p) /\ p \in HopRow /\ hop'[h] = p
    BY <1>2, <2>1 DEF StorefrontOK, StorefrontTypeOK
  <2>3. p.kind = "order" /\ p.tab \in Tabs \ Stale' => p.arg # m
    BY <1>2, <2>1 DEF HopsOf
  <2>4. p.kind = "order" /\ p.tab \in Tabs \ Stale' => method'[p.arg] = method[p.arg]
    BY <1>5, <2>2, <2>3 DEF HopFits
  <2>5. HopFits(p)'
    BY <1>2, <1>7, <2>2, <2>4 DEF HopFits
  <2> QED BY <2>2, <2>5
<1>9. ASSUME NEW t \in Tabs PROVE TabFits(t, tab[t])'
  <2>1. PICK r : r = tab[t]
    OBVIOUS
  <2>2. TabFits(t, r) /\ tab'[t] = r
    BY <1>2, <2>1 DEF StorefrontOK
  <2>3. t \notin Stale' => r.offer[m] = Nothing \/ r.offer[m] = row.price
    BY <1>2, <2>1
  <2>4. \A n \in Methods : r.offer[n] # Nothing =>
          /\ method'[n] # NoMethod /\ r.cart # Nothing
          /\ t \notin Stale' => r.offer[n] = method'[n].price
    <3>1. ASSUME NEW n \in Methods, r.offer[n] # Nothing
          PROVE  /\ method'[n] # NoMethod /\ r.cart # Nothing
                 /\ t \notin Stale' => r.offer[n] = method'[n].price
      <4>1. CASE n = m
        BY <1>4, <1>5, <2>2, <2>3, <3>1, <4>1 DEF TabFits
      <4>2. CASE n # m
        BY <1>5, <1>7, <2>2, <3>1, <4>2 DEF TabFits
      <4> QED BY <4>1, <4>2
    <3> QED BY <3>1
  <2>5. TabFits(t, r)'
    BY <1>2, <1>7, <2>2, <2>4 DEF TabFits, HopAt
  <2> QED BY <2>2, <2>5
<1>10. ASSUME NEW i \in 1..Len(orders') PROVE OrderFits(i)'
  BY <1>2 DEF StorefrontOK, OrderFits, HopAt
<1>11. ChargedAsShown' /\ (session \/ (cart = 0 /\ \A h \in Hops : HopAt(h, "idle")))'
  BY <1>2 DEF StorefrontOK, ChargedAsShown, HopAt
<1> QED BY <1>5, <1>6, <1>8, <1>9, <1>10, <1>11 DEF StorefrontOK

\* A page that shows a cart goes on showing one, and the one that had none shows
\* what it loaded: requests for the cart remain as they were.
LEMMA SpentGoesOn ==
  ASSUME StorefrontTypeOK, SpentOK, NEW h \in Hops, NEW q \in HopRow, hop' = [hop EXCEPT ![h] = q],
         \A t \in Tabs : tab[t].cart # Nothing => tab'[t].cart # Nothing,
         \A t \in Tabs : tab'[t].cart # Nothing =>
           tab[t].cart # Nothing \/ (t = hop[h].tab /\ hop[h].kind = "load"),
         q.kind = "load" => hop[h].kind = "load" /\ q.tab = hop[h].tab /\ UNCHANGED tab,
         q.kind \in {"set", "order"} /\ q.tab # NoTab => tab'[q.tab].cart # Nothing,
         \A t \in spent' \ outrun' : Sold(t)'
  PROVE  SpentOK'
<1>1. /\ hop' \in [Hops -> HopRow] /\ hop'[h] = q
      /\ \A g \in Hops \ {h} : hop'[g] = hop[g]
  BY HopGoesOn
<1>2. \A g \in Hops : hop[g].tab \in Tabs \cup {NoTab} /\ hop'[g].tab \in Tabs \cup {NoTab}
  BY <1>1 DEF StorefrontTypeOK, HopRow
<1>3. ASSUME NEW g \in Hops, hop'[g].tab # NoTab
      PROVE  /\ hop'[g].kind = "load" => tab'[hop'[g].tab].cart = Nothing
             /\ hop'[g].kind \in {"set", "order"} => tab'[hop'[g].tab].cart # Nothing
  <2>1. CASE g = h
    BY <1>1, <1>2, <1>3, <2>1 DEF SpentOK
  <2>2. CASE g # h
    <3>1. PICK t \in Tabs : t = hop[g].tab /\ t # NoTab /\ hop'[g] = hop[g]
      BY <1>1, <1>2, <1>3, <2>2
    <3>2. hop[g].kind = "load" => tab[t].cart = Nothing /\ (t = hop[h].tab => hop[h].kind # "load")
      BY <2>2, <3>1 DEF SpentOK
    <3>3. hop[g].kind \in {"set", "order"} => tab[t].cart # Nothing
      BY <3>1 DEF SpentOK
    <3> QED BY <3>1, <3>2, <3>3
  <2> QED BY <2>1, <2>2
<1>4. ASSUME NEW f \in Hops, NEW g \in Hops, f # g, hop'[f].tab = hop'[g].tab, hop'[g].tab # NoTab
      PROVE  hop'[f].kind # "load" \/ hop'[g].kind # "load"
  BY <1>1, <1>4 DEF SpentOK
<1> QED BY <1>3, <1>4 DEF SpentOK

\* A step that moves neither carts nor pages leaves the sold carts on theirs.
LEMMA SoldStays ==
  ASSUME StorefrontTypeOK, SpentOK, UNCHANGED cart, spent' \ outrun' \subseteq spent \ outrun,
         \A t \in spent \ outrun : tab'[t].page = tab[t].page /\ tab'[t].cart = tab[t].cart
  PROVE  \A t \in spent' \ outrun' : Sold(t)'
BY DEF SpentOK, Sold, Items

\* What a tab asks for, and what it selects.
LEMMA AskingKeepsSpent ==
  ASSUME StorefrontOK, SpentOK, NEW t \in Tabs,
         \/ AddToCart(t) \/ AskOptions(t) \/ Submit(t)
         \/ \E a \in Items : SetQuantity(t, a)
         \/ \E m \in Methods : Select(t, m)
  PROVE  SpentOK'
<1>1. StorefrontTypeOK /\ tab[t] \in TabRow /\ TabFits(t, tab[t]) /\ Nothing \notin Items
  BY StorefrontAssumption DEF StorefrontOK, StorefrontTypeOK, Items, StorefrontAssumption
<1>2. ASSUME NEW q \in HopRow, NEW row \in TabRow, NEW h \in Hops, hop' = [hop EXCEPT ![h] = q],
             tab' = [tab EXCEPT ![t] = row], row.page = tab[t].page, row.cart = tab[t].cart,
             UNCHANGED <<cart, outrun, spent>>, q.tab = t, q.kind # "load",
             q.kind \in {"set", "order"} => tab[t].cart # Nothing
      PROVE  SpentOK'
  <2>1. \A u \in Tabs : tab'[u].page = tab[u].page /\ tab'[u].cart = tab[u].cart
    BY <1>1, <1>2, TabGoesOn
  <2>2. \A u \in spent' \ outrun' : Sold(u)'
    BY <1>1, <1>2, <2>1, SoldStays DEF StorefrontTypeOK
  <2> QED BY <1>1, <1>2, <2>1, <2>2, SpentGoesOn
<1>3. ASSUME NEW kind \in {"add", "set", "options"}, NEW arg \in Nat \cup {Nothing},
             NEW row \in TabRow, Send(t, kind, arg, row), row.page = tab[t].page,
             row.cart = tab[t].cart, kind = "set" => tab[t].cart # Nothing
      PROVE  SpentOK'
  <2>1. PICK q : q = Request(t, kind, arg)
    OBVIOUS
  <2>2. q \in HopRow /\ q.tab = t /\ q.kind = kind
    BY <2>1, RequestIsOne
  <2>3. PICK h \in Hops : hop' = [hop EXCEPT ![h] = q]
    BY <1>3, <2>1 DEF Send
  <2>4. tab' = [tab EXCEPT ![t] = row] /\ UNCHANGED <<cart, outrun, spent>>
    BY <1>3 DEF Send, TabGoes
  <2> QED BY <1>2, <1>3, <2>2, <2>3, <2>4
<1>4. CASE AddToCart(t)
  BY <1>1, <1>3, <1>4 DEF AddToCart
<1>5. CASE AskOptions(t)
  <2> DEFINE row == [tab[t] EXCEPT !.asking = TRUE]
  <2>1. row \in TabRow /\ row.page = tab[t].page /\ row.cart = tab[t].cart
    BY <1>1 DEF TabRow
  <2>2. Send(t, "options", Nothing, row)
    BY <1>5 DEF AskOptions
  <2> HIDE DEF row
  <2> QED BY <1>3, <2>1, <2>2
<1>6. ASSUME NEW a \in Items, SetQuantity(t, a) PROVE SpentOK'
  BY <1>1, <1>3, <1>6 DEF SetQuantity, Items
<1>7. CASE Submit(t)
  <2>1. PICK m : m = tab[t].selected
    OBVIOUS
  <2>2. m \in Methods /\ tab[t].offer[m] \in Nat /\ tab[t].cart \in Nat /\ tab[t].cart # Nothing
    BY <1>1, <1>7, <2>1 DEF Submit, TabFits, TabRow, Offer, Items
  <2>3. PICK r : r = Request(t, "order", m)
    OBVIOUS
  <2>4. r \in HopRow /\ r.tab = t /\ r.kind = "order"
    <3>1. m \in Nat \cup Methods \cup {Nothing}
      BY <2>2
    <3> QED BY <2>3, <3>1, RequestIsOne
  <2> DEFINE q == [r EXCEPT !.shown = TotalShown(t)]
             row == [tab[t] EXCEPT !.paying = TRUE]
  <2>5. q \in HopRow /\ q.tab = t /\ q.kind = "order"
    BY <2>1, <2>2, <2>4 DEF HopRow, TotalShown
  <2>6. row \in TabRow /\ row.page = tab[t].page /\ row.cart = tab[t].cart
    BY <1>1 DEF TabRow
  <2>7. PICK h \in Hops : hop' = [hop EXCEPT ![h] = q]
    BY <1>7, <2>1, <2>3 DEF Submit
  <2>8. tab' = [tab EXCEPT ![t] = row] /\ UNCHANGED <<cart, outrun, spent>>
    BY <1>1, <1>7 DEF Submit
  <2> HIDE DEF q, row
  <2> QED BY <1>2, <2>2, <2>5, <2>6, <2>7, <2>8
<1>8. ASSUME NEW m \in Methods, Select(t, m) PROVE SpentOK'
  <2> DEFINE row == [tab[t] EXCEPT !.selected = m]
  <2>1. row \in TabRow /\ row.page = tab[t].page /\ row.cart = tab[t].cart
    BY <1>1 DEF TabRow
  <2>2. tab' = [tab EXCEPT ![t] = row] /\ UNCHANGED <<cart, hop, outrun, spent>>
    BY <1>1, <1>8 DEF Select
  <2> HIDE DEF row
  <2>3. \A u \in Tabs : tab'[u].page = tab[u].page /\ tab'[u].cart = tab[u].cart
    BY <1>1, <2>1, <2>2, TabGoesOn
  <2>4. \A u \in spent' \ outrun' : Sold(u)'
    BY <1>1, <2>2, <2>3, SoldStays DEF StorefrontTypeOK
  <2>5. \A h \in Hops : hop[h].tab \in Tabs \cup {NoTab}
    BY <1>1 DEF StorefrontTypeOK, HopRow
  <2> QED BY <2>2, <2>3, <2>4, <2>5 DEF SpentOK
<1> QED BY <1>4, <1>5, <1>6, <1>7, <1>8

\* The server answers, or a request fails: it is still the same page's request.
LEMMA ServedIsSame ==
  ASSUME StorefrontOK, UNCHANGED shippingVars, NEW h \in Hops,
         \/ ServeCart(h) \/ ServeChange(h) \/ ServeOptions(h)
         \/ ServeOrder(h) \/ ServeIntent(h) \/ DropHop(h)
  PROVE  \E q \in HopRow :
           hop' = [hop EXCEPT ![h] = q] /\ q.tab = hop[h].tab /\ q.kind = hop[h].kind
<1>1. StorefrontTypeOK /\ hop[h] \in HopRow /\ HopFits(hop[h]) /\ cart \in Nat /\ Items \subseteq Nat
      /\ Len(orders) \in Nat
  BY DEF StorefrontOK, StorefrontTypeOK, Items
<1>2. CASE Fails(h)
  <2> DEFINE q == [hop[h] EXCEPT !.pc = "failed"]
  <2>1. q \in HopRow /\ q.tab = hop[h].tab /\ q.kind = hop[h].kind
    BY <1>1 DEF HopRow
  <2>2. hop' = [hop EXCEPT ![h] = q]
    BY <1>2 DEF Fails, HopGoes
  <2> HIDE DEF q
  <2> QED BY <2>1, <2>2
<1>3. ASSUME NEW value \in Nat, Answer(h, value)
      PROVE  \E q \in HopRow :
               hop' = [hop EXCEPT ![h] = q] /\ q.tab = hop[h].tab /\ q.kind = hop[h].kind
  <2> DEFINE q == [hop[h] EXCEPT !.pc = "answered", !.answer = value]
  <2>1. q \in HopRow /\ q.tab = hop[h].tab /\ q.kind = hop[h].kind
    BY <1>1 DEF HopRow
  <2>2. hop' = [hop EXCEPT ![h] = q]
    BY <1>3 DEF Answer, HopGoes
  <2> HIDE DEF q
  <2> QED BY <2>1, <2>2
<1>4. CASE ServeCart(h)
  BY <1>1, <1>3, <1>4 DEF ServeCart
<1>5. CASE ServeChange(h)
  BY <1>1, <1>2, <1>3, <1>5 DEF ServeChange
<1>6. CASE ServeOptions(h)
  <2> DEFINE offer == [m \in Methods |->
                        IF m \in ShippingOptions(cart) THEN method[m].price ELSE Nothing]
             q == [hop[h] EXCEPT !.pc = "answered", !.offer = offer]
  <2>1. offer \in Offer
    BY DEF ShippingOptions, Offered, StorefrontOK, MethodRow, Offer
  <2>2. Fails(h) \/ hop' = [hop EXCEPT ![h] = q]
    BY <1>6 DEF ServeOptions, HopGoes
  <2> HIDE DEF offer
  <2>3. q \in HopRow /\ q.tab = hop[h].tab /\ q.kind = hop[h].kind
    BY <1>1, <2>1 DEF HopRow
  <2> HIDE DEF q
  <2> QED BY <1>2, <2>2, <2>3
<1>7. CASE ServeOrder(h)
  BY <1>1, <1>2, <1>3, <1>7 DEF ServeOrder
<1>8. CASE ServeIntent(h)
  <2>1. hop[h].arg \in Nat
    BY <1>1, <1>8 DEF ServeIntent, HopFits
  <2> QED BY <1>2, <1>3, <1>8, <2>1 DEF ServeIntent
<1>9. CASE DropHop(h)
  BY <1>2, <1>9 DEF DropHop
<1> QED BY <1>4, <1>5, <1>6, <1>7, <1>8, <1>9

\* An order sells the cart its page shows; any other change of the cart is another page's.
LEMMA ServingKeepsSpent ==
  ASSUME StorefrontOK, SpentOK, UNCHANGED shippingVars, NEW h \in Hops,
         \/ ServeCart(h) \/ ServeChange(h) \/ ServeOptions(h)
         \/ ServeOrder(h) \/ ServeIntent(h) \/ DropHop(h)
  PROVE  SpentOK'
<1>1. PICK q \in HopRow :
        hop' = [hop EXCEPT ![h] = q] /\ q.tab = hop[h].tab /\ q.kind = hop[h].kind
  BY ServedIsSame
<1>2. StorefrontTypeOK /\ hop[h] \in HopRow /\ HopFits(hop[h]) /\ UNCHANGED tab /\ NoTab \notin Tabs
      /\ spent \subseteq Tabs
  BY StorefrontAssumption
  DEF StorefrontOK, StorefrontTypeOK, StorefrontAssumption, ServeCart, ServeChange, ServeOptions,
      ServeOrder, ServeIntent, DropHop
<1>3. ASSUME UNCHANGED <<cart, spent>>, outrun \subseteq outrun'
      PROVE  \A t \in spent' \ outrun' : Sold(t)'
  BY <1>2, <1>3, SoldStays
<1>4. CASE ServeCart(h) \/ ServeOptions(h) \/ ServeIntent(h) \/ DropHop(h)
  <2>1. UNCHANGED <<cart, outrun, spent>>
    BY <1>4 DEF ServeCart, ServeOptions, ServeIntent, DropHop
  <2>2. \A t \in spent' \ outrun' : Sold(t)'
    BY <1>3, <2>1
  <2> QED BY <1>1, <1>2, <2>2, SpentGoesOn DEF SpentOK
<1>5. CASE ServeChange(h)
  <2>1. /\ UNCHANGED spent /\ hop[h].kind \in Changed
        /\ \/ UNCHANGED <<cart, outrun>>
           \/ outrun' = outrun \cup Behind(h)
           \/ outrun' = Tabs
    BY <1>5 DEF ServeChange, Changed
  <2>2. CASE UNCHANGED <<cart, outrun>>
    <3>1. \A t \in spent' \ outrun' : Sold(t)'
      BY <1>3, <2>1, <2>2
    <3> QED BY <1>1, <1>2, <3>1, SpentGoesOn DEF SpentOK
  <2>3. CASE outrun' = outrun \cup Behind(h) \/ outrun' = Tabs
    <3>1. ASSUME NEW t \in spent' \ outrun' PROVE FALSE
      <4>1. t \in spent \ outrun /\ t \in Tabs /\ t = hop[h].tab /\ t # NoTab
        BY <1>2, <2>1, <2>3, <3>1 DEF Behind
      <4>2. tab[t].page = "checkout"
        BY <4>1 DEF SpentOK, Sold
      <4>3. tab[t].page \in {"cart", "product"}
        BY <1>2, <2>1, <4>1 DEF HopFits, Changed
      <4> QED BY <4>2, <4>3
    <3> QED BY <1>1, <1>2, <3>1, SpentGoesOn DEF SpentOK
  <2> QED BY <2>1, <2>2, <2>3
<1>6. CASE ServeOrder(h)
  <2>1. CASE UNCHANGED <<cart, outrun, spent>>
    <3>1. \A t \in spent' \ outrun' : Sold(t)'
      BY <1>3, <2>1
    <3> QED BY <1>1, <1>2, <3>1, SpentGoesOn DEF SpentOK
  <2>2. CASE /\ cart # 0 /\ cart' = 0 /\ outrun' = outrun \cup (Tabs \ {hop[h].tab})
             /\ spent' = spent \cup ({hop[h].tab} \ {NoTab})
    <3>1. ASSUME NEW t \in spent' \ outrun' PROVE Sold(t)'
      <4>1. t \in Tabs /\ t = hop[h].tab /\ t # NoTab /\ t \notin outrun
        BY <1>2, <2>2, <3>1 DEF HopRow
      <4>2. t \notin spent
        BY <2>2, <4>1 DEF SpentOK, Sold
      <4>3. hop[h].kind = "order" /\ tab[t].page = "checkout" /\ tab[t].cart # Nothing
        BY <1>2, <1>6, <4>1 DEF ServeOrder, HopFits, SpentOK
      <4>4. \A g \in Hops : hop[g].tab = t /\ hop[g].kind = "set" => tab[t].page = "cart"
        BY <4>1 DEF StorefrontOK, HopFits
      <4>5. tab[t].cart = cart
        BY <4>1, <4>2, <4>3, <4>4 DEF StorefrontOK, TabFits, Stale
      <4> QED BY <1>2, <2>2, <4>3, <4>5 DEF Sold, StorefrontTypeOK, Items
    <3> QED BY <1>1, <1>2, <3>1, SpentGoesOn DEF SpentOK
  <2> QED BY <1>6, <2>1, <2>2 DEF ServeOrder
<1> QED BY <1>4, <1>5, <1>6

\* A page takes an answer: a cart it loads is its first, and one it set replaces another.
LEMMA ReceivingKeepsSpent ==
  ASSUME StorefrontOK, SpentOK, UNCHANGED shippingVars, NEW h \in Hops,
         \/ IgnoreAnswer(h) \/ ReceiveCart(h) \/ ReceiveChange(h) \/ ReceiveOptions(h)
         \/ ReceiveOrder(h) \/ ReceiveIntent(h) \/ ReceiveFailure(h)
  PROVE  SpentOK'
<1>1. StorefrontTypeOK /\ hop[h] \in HopRow /\ HopFits(hop[h]) /\ Nothing \notin Items
      /\ NoTab \notin Tabs /\ tab \in [Tabs -> TabRow] /\ NoHop \in HopRow /\ NoHop.tab = NoTab
      /\ NoHop.kind = "none" /\ hop[h].tab \in Tabs \cup {NoTab}
  BY StorefrontAssumption, NoHopFits
  DEF StorefrontOK, StorefrontTypeOK, Items, StorefrontAssumption, NoHop, HopRow
<1>2. PICK t : t = hop[h].tab
  OBVIOUS
<1>3. UNCHANGED <<cart, spent>> /\ outrun \subseteq outrun'
  BY DEF IgnoreAnswer, ReceiveCart, ReceiveChange, ReceiveOptions, ReceiveOrder, ReceiveIntent,
         ReceiveFailure
<1>4. ASSUME NEW q \in HopRow, hop' = [hop EXCEPT ![h] = q], q.kind \notin {"load", "set", "order"},
             NEW row, t \in Tabs, tab' = [tab EXCEPT ![t] = row], row.page = tab[t].page,
             \/ row.cart = tab[t].cart
             \/ row.cart \in Items /\ hop[h].kind = "load"
             \/ row.cart \in Items /\ hop[h].kind = "set"
      PROVE  SpentOK'
  <2>1. tab'[t] = row /\ \A u \in Tabs \ {t} : tab'[u] = tab[u]
    BY <1>1, <1>4
  <2>2. t # NoTab /\ (hop[h].kind = "load" => tab[t].cart = Nothing)
        /\ (hop[h].kind = "set" => tab[t].cart # Nothing /\ tab[t].page = "cart")
    BY <1>1, <1>2, <1>4 DEF SpentOK, HopFits
  <2>3. t \in spent \ outrun => row.cart = tab[t].cart
    BY <1>1, <1>4, <2>2 DEF SpentOK, Sold
  <2>4. \A u \in spent' \ outrun' : Sold(u)'
    <3>1. spent \subseteq Tabs
      BY <1>1 DEF StorefrontTypeOK
    <3>2. \A u \in spent \ outrun : tab'[u].page = tab[u].page /\ tab'[u].cart = tab[u].cart
      BY <1>4, <2>1, <2>3, <3>1
    <3> QED BY <1>1, <1>3, <3>2, SoldStays
  <2>5. \A u \in Tabs : /\ tab[u].cart # Nothing => tab'[u].cart # Nothing
                        /\ tab'[u].cart # Nothing =>
                             tab[u].cart # Nothing \/ (u = hop[h].tab /\ hop[h].kind = "load")
    BY <1>1, <1>2, <1>4, <2>1, <2>2
  <2> QED BY <1>1, <1>4, <2>4, <2>5, SpentGoesOn
<1>5. ASSUME NEW q \in HopRow, hop' = [hop EXCEPT ![h] = q], q.kind \notin {"load", "set", "order"},
             UNCHANGED tab
      PROVE  SpentOK'
  <2>1. \A u \in spent' \ outrun' : Sold(u)'
    BY <1>1, <1>3, <1>5, SoldStays
  <2> QED BY <1>1, <1>5, <2>1, SpentGoesOn
<1>6. CASE IgnoreAnswer(h)
  BY <1>1, <1>5, <1>6 DEF IgnoreAnswer, Ends, HopGoes
<1>7. CASE ReceiveOrder(h)
  <2>1. PICK i, q : i = hop[h].answer /\ q = Request(t, "intent", i)
    OBVIOUS
  <2>2. t \in Tabs /\ i \in Nat /\ hop' = [hop EXCEPT ![h] = q] /\ UNCHANGED tab
    BY <1>1, <1>2, <1>7, <2>1 DEF ReceiveOrder, HopGoes, HopAt, HopFits
  <2>3. q \in HopRow /\ q.kind = "intent"
    <3>1. i \in Nat \cup Methods \cup {Nothing}
      BY <2>2
    <3> QED BY <2>1, <2>2, <3>1, RequestIsOne
  <2> QED BY <1>5, <2>2, <2>3
<1>8. CASE ReceiveCart(h)
  <2>1. PICK a, row : a = hop[h].answer /\ row = IF hop[h].kind = "load" THEN [tab[t] EXCEPT !.cart = a]
                                                   ELSE [tab[t] EXCEPT !.badge = a]
    OBVIOUS
  <2>2. t \in Tabs /\ a \in Items /\ hop' = [hop EXCEPT ![h] = NoHop] /\ tab' = [tab EXCEPT ![t] = row]
    BY <1>1, <1>2, <1>8, <2>1 DEF ReceiveCart, Ends, HopGoes, TabGoes, HopAt, HopFits
  <2>3. row.page = tab[t].page /\ row.cart = IF hop[h].kind = "load" THEN a ELSE tab[t].cart
    BY <1>1, <2>1, <2>2 DEF TabRow
  <2> QED BY <1>1, <1>4, <2>2, <2>3
<1>9. CASE ReceiveChange(h)
  <2>1. PICK a, row, q : a = hop[h].answer /\ q = Request(t, "badge", Nothing)
                         /\ row = IF hop[h].kind = "set" THEN [tab[t] EXCEPT !.cart = a] ELSE tab[t]
    OBVIOUS
  <2>2. t \in Tabs /\ a \in Items /\ hop' = [hop EXCEPT ![h] = q] /\ tab' = [tab EXCEPT ![t] = row]
    BY <1>1, <1>2, <1>9, <2>1 DEF ReceiveChange, HopGoes, TabGoes, HopAt, HopFits, Changed
  <2>3. row.page = tab[t].page /\ row.cart = IF hop[h].kind = "set" THEN a ELSE tab[t].cart
    BY <1>1, <2>1, <2>2 DEF TabRow
  <2>4. q \in HopRow /\ q.kind = "badge"
    <3>1. Nothing \in Nat \cup Methods \cup {Nothing}
      OBVIOUS
    <3> QED BY <2>1, <2>2, <3>1, RequestIsOne
  <2> QED BY <1>1, <1>4, <2>2, <2>3, <2>4
<1>10. CASE ReceiveOptions(h)
  <2>1. PICK n, offer :
          /\ n \in Methods
          /\ tab' = [tab EXCEPT ![t] = [tab[t] EXCEPT !.offer = offer, !.selected = n, !.asking = FALSE]]
    BY <1>2, <1>10 DEF ReceiveOptions, TabGoes
  <2>2. PICK row : row = [tab[t] EXCEPT !.offer = offer, !.selected = n, !.asking = FALSE]
    OBVIOUS
  <2>3. t \in Tabs /\ hop' = [hop EXCEPT ![h] = NoHop]
    BY <1>1, <1>2, <1>10 DEF ReceiveOptions, Ends, HopGoes
  <2>4. row.page = tab[t].page /\ row.cart = tab[t].cart
    BY <1>1, <2>2, <2>3 DEF TabRow
  <2> QED BY <1>1, <1>4, <2>1, <2>2, <2>3, <2>4
<1>11. CASE ReceiveIntent(h)
  <2>1. PICK row : row = [tab[t] EXCEPT !.done = hop[h].answer, !.paying = FALSE]
    OBVIOUS
  <2>2. t \in Tabs /\ hop' = [hop EXCEPT ![h] = NoHop] /\ tab' = [tab EXCEPT ![t] = row]
    BY <1>1, <1>2, <1>11, <2>1 DEF ReceiveIntent, Ends, HopGoes, TabGoes
  <2>3. row.page = tab[t].page /\ row.cart = tab[t].cart
    BY <1>1, <2>1, <2>2 DEF TabRow
  <2> QED BY <1>1, <1>4, <2>2, <2>3
<1>12. CASE ReceiveFailure(h)
  <2>1. PICK row : row \in {[tab[t] EXCEPT !.badge = 0], [tab[t] EXCEPT !.asking = FALSE],
                            [tab[t] EXCEPT !.paying = FALSE], tab[t]}
                   /\ tab' = [tab EXCEPT ![t] = row]
    BY <1>2, <1>12 DEF ReceiveFailure, TabGoes
  <2>2. t \in Tabs /\ hop' = [hop EXCEPT ![h] = NoHop]
    BY <1>1, <1>2, <1>12 DEF ReceiveFailure, Ends, HopGoes
  <2>3. row.page = tab[t].page /\ row.cart = tab[t].cart
    BY <1>1, <2>1, <2>2 DEF TabRow
  <2> QED BY <1>1, <1>4, <2>1, <2>2, <2>3
<1> QED BY <1>6, <1>7, <1>8, <1>9, <1>10, <1>11, <1>12

\* A page that opens shows no cart, and loads it once.
LEMMA OpeningKeepsSpent ==
  ASSUME StorefrontOK, SpentOK, NEW t \in Tabs, NEW page \in {"product", "cart", "checkout"},
         OpenPage(t, page)
  PROVE  SpentOK'
<1>1. PICK kinds : kinds = IF ~session THEN {} ELSE IF page = "product" THEN {"badge"}
                           ELSE {"badge", "load"}
  OBVIOUS
<1>2. PICK f \in [kinds -> {h \in Hops : HopAt(h, "idle")}] :
        /\ \A a, b \in kinds : a # b => f[a] # f[b]
        /\ hop' = [h \in Hops |->
             IF \E a \in kinds : f[a] = h
             THEN Request(t, CHOOSE a \in kinds : f[a] = h, Nothing)
             ELSE IF h \in HopsOf(t) THEN [hop[h] EXCEPT !.tab = NoTab] ELSE hop[h]]
  BY <1>1 DEF OpenPage
<1>3. StorefrontTypeOK /\ tab \in [Tabs -> TabRow] /\ NoTab \notin Tabs /\ UNCHANGED cart
      /\ outrun' = outrun \ {t} /\ spent' = spent \ {t} /\ spent \subseteq Tabs
  BY StorefrontAssumption DEF StorefrontOK, StorefrontTypeOK, StorefrontAssumption, OpenPage
<1>4. tab'[t].cart = Nothing /\ \A u \in Tabs \ {t} : tab'[u] = tab[u]
  <2>1. tab' = [tab EXCEPT ![t] = [Closed EXCEPT !.page = page]]
    BY DEF OpenPage
  <2> QED BY <1>3, <2>1 DEF Closed
<1>5. ASSUME NEW h \in Hops
      PROVE  /\ hop[h].tab \in Tabs \cup {NoTab} /\ hop[h] \in HopRow
             /\ \/ \E a \in kinds : f[a] = h /\ hop'[h].kind = a /\ hop'[h].tab = t
                \/ hop'[h].tab = NoTab
                \/ hop'[h] = hop[h] /\ hop[h].tab # t
  <2>1. hop[h] \in HopRow /\ hop[h].tab \in Tabs \cup {NoTab}
    BY <1>3 DEF StorefrontTypeOK, HopRow
  <2>2. CASE \E a \in kinds : f[a] = h
    <3>1. PICK a \in kinds : a = CHOOSE b \in kinds : f[b] = h
      BY <2>2
    <3>2. f[a] = h
      BY <2>2, <3>1
    <3>3. hop'[h] = Request(t, a, Nothing)
      BY <1>2, <2>2, <3>1
    <3>4. hop'[h].kind = a /\ hop'[h].tab = t
      BY <3>3 DEF Request, NoHop
    <3> QED BY <2>1, <3>2, <3>4
  <2>3. CASE ~\E a \in kinds : f[a] = h
    <3>1. hop'[h] = IF h \in HopsOf(t) THEN [hop[h] EXCEPT !.tab = NoTab] ELSE hop[h]
      BY <1>2, <2>3
    <3>2. [hop[h] EXCEPT !.tab = NoTab].tab = NoTab
      BY <2>1 DEF HopRow
    <3> QED BY <2>1, <3>1, <3>2 DEF HopsOf
  <2> QED BY <2>2, <2>3
<1>6. ASSUME NEW u \in spent' \ outrun' PROVE Sold(u)'
  <2>1. u \in spent \ outrun /\ u \in Tabs \ {t}
    BY <1>3, <1>6
  <2> QED BY <1>3, <1>4, <2>1 DEF SpentOK, Sold, Items
<1>7. ASSUME NEW h \in Hops, hop'[h].tab # NoTab
      PROVE  /\ hop'[h].kind = "load" => tab'[hop'[h].tab].cart = Nothing
             /\ hop'[h].kind \in {"set", "order"} => tab'[hop'[h].tab].cart # Nothing
  <2>1. CASE hop'[h].tab = t /\ hop'[h].kind \in kinds
    BY <1>1, <1>4, <2>1
  <2>2. CASE hop'[h] = hop[h] /\ hop[h].tab # t
    <3>1. tab'[hop[h].tab] = tab[hop[h].tab]
      BY <1>4, <1>5, <1>7, <2>2
    <3> QED BY <1>7, <2>2, <3>1 DEF SpentOK
  <2> QED BY <1>5, <1>7, <2>1, <2>2
<1>8. ASSUME NEW g \in Hops, NEW h \in Hops, g # h, hop'[g].tab = hop'[h].tab, hop'[h].tab # NoTab
      PROVE  hop'[g].kind # "load" \/ hop'[h].kind # "load"
  <2>1. CASE hop'[h].tab = t
    <3>1. PICK a \in kinds : f[a] = g /\ hop'[g].kind = a
      BY <1>5, <1>8, <2>1
    <3>2. PICK b \in kinds : f[b] = h /\ hop'[h].kind = b
      BY <1>5, <1>8, <2>1
    <3> QED BY <1>8, <3>1, <3>2
  <2>2. CASE hop'[h].tab # t
    <3>1. hop'[g] = hop[g] /\ hop'[h] = hop[h]
      BY <1>5, <1>8, <2>2
    <3> QED BY <1>8, <3>1 DEF SpentOK
  <2> QED BY <2>1, <2>2
<1> QED BY <1>6, <1>7, <1>8 DEF SpentOK

\* For any tabs, what they show and what they are charged.
LEMMA StorefrontAlways ==
  StorefrontSpec =>
    [](/\ StorefrontTypeOK /\ ShippingTypeOK
       /\ ChargedAsShown /\ SuccessHasIntent /\ ShownCartIsCurrent)
<1>1. ShippingInit /\ StorefrontInit => StorefrontOK
  <2> SUFFICES ASSUME ShippingInit, StorefrontInit PROVE StorefrontOK
    OBVIOUS
  <2>1. 0 \in Items /\ {MostOrders, MostDrops} \subseteq Nat /\ NoTab \notin Tabs
    BY StorefrontAssumption DEF Items, StorefrontAssumption
  <2>2. /\ Closed \in TabRow /\ Closed.page = "closed" /\ Closed.cart = Nothing
        /\ Closed.badge = 0 /\ Closed.selected = NoMethod /\ Closed.done = 0
        /\ \A m \in Methods : Closed.offer[m] = Nothing
    BY <2>1 DEF Closed, TabRow, Offer, NoOffer
  <2>3. NoHop \in HopRow /\ HopFits(NoHop) /\ NoHop.pc = "idle"
    BY NoHopFits DEF NoHop
  <2>4. /\ \A t \in Tabs : tab[t] = Closed
        /\ \A h \in Hops : hop[h] = NoHop
        /\ orders = <<>> /\ cart = 0 /\ Len(orders) = 0
    BY DEF StorefrontInit
  <2>5. StorefrontTypeOK
    <3>1. orders \in Seq(OrderRow) /\ Len(orders) <= MostOrders /\ drops \in 0..MostDrops
      BY <2>1, <2>4 DEF StorefrontInit
    <3>2. tab \in [Tabs -> TabRow] /\ hop \in [Hops -> HopRow]
      BY <2>2, <2>3 DEF StorefrontInit
    <3>3. \A t \in Tabs : tab[t].done <= Len(orders)
      BY <2>2, <2>4
    <3> QED BY <2>1, <2>4, <3>1, <3>2, <3>3 DEF StorefrontInit, StorefrontTypeOK
  <2>6. \A t \in Tabs : TabFits(t, Closed)
    BY <2>2, <2>4 DEF TabFits
  <2>7. method \in [Methods -> MethodRow \cup {NoMethod}]
    BY DEF ShippingInit
  <2> QED BY <2>3, <2>4, <2>5, <2>6, <2>7 DEF StorefrontOK, ChargedAsShown, HopAt
<1>2. StorefrontOK /\ SpentOK /\ [StorefrontNext]_<<shippingVars, storefrontVars>> => StorefrontOK'
  <2> SUFFICES ASSUME StorefrontOK, SpentOK, [StorefrontNext]_<<shippingVars, storefrontVars>>
               PROVE  StorefrontOK'
    OBVIOUS
  <2>1. CASE UNCHANGED <<shippingVars, storefrontVars>>
    BY <2>1
    DEF shippingVars, storefrontVars, StorefrontOK, StorefrontTypeOK, Stale, HopFits, TabFits, OrderFits,
        ChargedAsShown, HopAt
  <2>2. CASE StorefrontNext
    <3>1. UNCHANGED <<parcel, desk, twisted>> /\ StorefrontStep
      BY <2>2 DEF StorefrontNext
    <3>2. UNCHANGED method => UNCHANGED shippingVars
      BY <3>1 DEF shippingVars
    <3>3. ASSUME NEW t \in Tabs, NEW page \in {"product", "cart", "checkout"}, OpenPage(t, page)
          PROVE  StorefrontOK'
      BY <3>2, <3>3, OpeningKeeps DEF OpenPage
    <3>4. ASSUME NEW t \in Tabs,
                 AddToCart(t) \/ AskOptions(t) \/ \E a \in Items : SetQuantity(t, a)
          PROVE  StorefrontOK'
      BY <3>2, <3>4, AskingKeeps DEF AddToCart, AskOptions, SetQuantity, Send
    <3>5. ASSUME NEW t \in Tabs, Submit(t) PROVE StorefrontOK'
      BY <3>2, <3>5, SubmittingKeeps DEF Submit
    <3>6. ASSUME NEW t \in Tabs, NEW m \in Methods, Select(t, m) PROVE StorefrontOK'
      BY <3>2, <3>6, SelectingKeeps DEF Select
    <3>7. ASSUME NEW h \in Hops, ServeCart(h) \/ ServeChange(h) \/ ServeOptions(h)
                                 \/ ServeOrder(h) \/ ServeIntent(h) \/ DropHop(h)
          PROVE  StorefrontOK'
      <4>1. UNCHANGED shippingVars
        BY <3>2, <3>7 DEF ServeCart, ServeChange, ServeOptions, ServeOrder, ServeIntent, DropHop
      <4> QED BY <3>7, <4>1, ServingCartKeeps, ServingChangeKeeps, ServingOptionsKeeps,
                 ServingOrderKeeps, ServingIntentKeeps, DroppingKeeps
    <3>8. ASSUME NEW h \in Hops, IgnoreAnswer(h) \/ ReceiveCart(h) \/ ReceiveChange(h)
                                 \/ ReceiveOptions(h) \/ ReceiveOrder(h) \/ ReceiveIntent(h)
                                 \/ ReceiveFailure(h)
          PROVE  StorefrontOK'
      <4>1. UNCHANGED shippingVars
        BY <3>2, <3>8 DEF IgnoreAnswer, ReceiveCart, ReceiveChange, ReceiveOptions, ReceiveOrder,
                          ReceiveIntent, ReceiveFailure
      <4> QED BY <3>8, <4>1, IgnoringKeeps, ReceivingCartKeeps, ReceivingChangeKeeps,
                 ReceivingOptionsKeeps, ReceivingOrderKeeps, ReceivingIntentKeeps,
                 ReceivingFailureKeeps
    <3> QED BY <3>1, <3>3, <3>4, <3>5, <3>6, <3>7, <3>8, MerchantKeeps DEF StorefrontStep
  <2> QED BY <2>1, <2>2
<1>3. StorefrontOK /\ SpentOK =>
        StorefrontTypeOK /\ ChargedAsShown /\ SuccessHasIntent /\ ShownCartIsCurrent
  <2> SUFFICES ASSUME StorefrontOK, SpentOK
               PROVE  SuccessHasIntent /\ ShownCartIsCurrent
    BY DEF StorefrontOK
  <2>1. SuccessHasIntent
    BY DEF StorefrontOK, TabFits, OrderFits, SuccessHasIntent
  <2>2. ShownCartIsCurrent
    BY DEF StorefrontOK, TabFits, Stale, SpentOK, Sold, ShownCartIsCurrent, HopsOf
  <2> QED BY <2>1, <2>2
<1>4. ShippingInit => ShippingTypeOK
  BY DEF ShippingInit, ShippingTypeOK, IdleDesk
<1>5. StorefrontOK' /\ ShippingTypeOK /\ [StorefrontNext]_<<shippingVars, storefrontVars>>
        => ShippingTypeOK'
  <2>1. [StorefrontNext]_<<shippingVars, storefrontVars>> => UNCHANGED <<parcel, desk, twisted>>
    BY DEF StorefrontNext, shippingVars
  <2> QED BY <2>1 DEF StorefrontOK, ShippingTypeOK
<1>6. StorefrontInit => SpentOK
  BY DEF StorefrontInit, SpentOK, NoHop
<1>7. StorefrontOK /\ SpentOK /\ [StorefrontNext]_<<shippingVars, storefrontVars>> => SpentOK'
  <2> SUFFICES ASSUME StorefrontOK, SpentOK, [StorefrontNext]_<<shippingVars, storefrontVars>>
               PROVE  SpentOK'
    OBVIOUS
  <2>1. CASE UNCHANGED <<shippingVars, storefrontVars>>
    BY <2>1 DEF storefrontVars, SpentOK, Sold
  <2>2. CASE StorefrontNext
    <3>1. UNCHANGED <<parcel, desk, twisted>> /\ StorefrontStep
      BY <2>2 DEF StorefrontNext
    <3>2. UNCHANGED method => UNCHANGED shippingVars
      BY <3>1 DEF shippingVars
    <3>3. ASSUME NEW h \in Hops, ServeCart(h) \/ ServeChange(h) \/ ServeOptions(h)
                                 \/ ServeOrder(h) \/ ServeIntent(h) \/ DropHop(h)
          PROVE  SpentOK'
      <4>1. UNCHANGED shippingVars
        BY <3>2, <3>3 DEF ServeCart, ServeChange, ServeOptions, ServeOrder, ServeIntent, DropHop
      <4> QED BY <3>3, <4>1, ServingKeepsSpent
    <3>4. ASSUME NEW h \in Hops, IgnoreAnswer(h) \/ ReceiveCart(h) \/ ReceiveChange(h)
                                 \/ ReceiveOptions(h) \/ ReceiveOrder(h) \/ ReceiveIntent(h)
                                 \/ ReceiveFailure(h)
          PROVE  SpentOK'
      <4>1. UNCHANGED shippingVars
        BY <3>2, <3>4 DEF IgnoreAnswer, ReceiveCart, ReceiveChange, ReceiveOptions, ReceiveOrder,
                          ReceiveIntent, ReceiveFailure
      <4> QED BY <3>4, <4>1, ReceivingKeepsSpent
    <3>5. ASSUME NEW m \in Methods, NEW input \in Changes, MerchantWrites(m, input) PROVE SpentOK'
      <4>1. UNCHANGED <<cart, tab, hop, spent>> /\ outrun \subseteq outrun' /\ StorefrontTypeOK
        BY <3>5 DEF MerchantWrites, StorefrontOK
      <4> QED BY <4>1 DEF SpentOK, Sold
    <3>6. ASSUME NEW t \in Tabs,
                 \/ AddToCart(t) \/ AskOptions(t) \/ Submit(t)
                 \/ \E a \in Items : SetQuantity(t, a)
                 \/ \E m \in Methods : Select(t, m)
          PROVE  SpentOK'
      BY <3>6, AskingKeepsSpent
    <3>7. ASSUME NEW t \in Tabs, NEW page \in {"product", "cart", "checkout"}, OpenPage(t, page)
          PROVE  SpentOK'
      BY <3>7, OpeningKeepsSpent
    <3> QED BY <3>1, <3>3, <3>4, <3>5, <3>6, <3>7 DEF StorefrontStep
  <2> QED BY <2>1, <2>2
<1> QED BY <1>1, <1>2, <1>3, <1>4, <1>5, <1>6, <1>7, PTL DEF StorefrontSpec

-------------------------------------------------------------------------------
(* The images of a product: any number of overlapping requests.            *)

There == {i \in Images : image[i].of # NoPicture}

\* Images are told apart by their age, and the next one is younger than all.
BornApart ==
  /\ \A i \in There : image[i].born < Cardinality(There)
  /\ \A i, j \in There : image[i].born = image[j].born => i = j

\* A request's images are of its product, or gone; and what it saw of a product
\* that no other request changes is still so.
TouchFits(e) ==
  LET q == touch[e] IN
  /\ q.pc = "idle" <=> q.of = NoPicture
  /\ q.pc \in {"upload", "insert"} => q.row.of = q.of
  /\ q.pc \in {"alter", "remove"} => q.id \in Images
  /\ \A i \in Images : i = q.id \/ i \in q.seen => image[i].of \in {q.of, NoPicture}
  /\ q.of \in Pictured \ blurred =>
       /\ \A o \in Artists : touch[o].of = q.of => o = e
       /\ q.pc = "insert" => q.seen = IF q.row.primary THEN ImagesOf(q.of) ELSE {}
       /\ q.pc = "alter" => q.seen = IF q.asked = TRUE THEN ImagesOf(q.of) \ {q.id} ELSE {}

HasMain(p) == \E i \in ImagesOf(p) : \A j \in ImagesOf(p) : image[j].primary <=> j = i

GalleryOK ==
  /\ GalleryTypeOK
  /\ \A i \in Images : image[i].of = NoPicture => image[i] = NoImage
  /\ BornApart
  /\ \A e \in Artists : TouchFits(e)
  /\ \A p \in Pictured \ blurred : ImagesOf(p) # {} => HasMain(p)

TouchRow ==
  [pc : {"idle", "upload", "insert", "alter", "remove"}, of : Pictured \cup {NoPicture},
   id : Images \cup {NoId}, row : ImageRows,
   asked : BOOLEAN \cup {Unasked}, seen : SUBSET Images]

\* The invariant holds of galleries without images.
LEMMA GalleryStarts == GalleryInit => GalleryOK
<1> SUFFICES ASSUME GalleryInit PROVE GalleryOK
  OBVIOUS
<1> USE GalleryAssumption DEF GalleryAssumption
<1>1. Cardinality(Images) \in Nat
  BY FS_CardinalityType
<1>2. NoImage \in ImageRows
  BY <1>1 DEF NoImage, ImageRows
<1>3. GalleryTypeOK
  BY <1>2 DEF GalleryInit, GalleryTypeOK, NoTouch
<1>4. There = {} /\ \A p \in Pictured : ImagesOf(p) = {}
  BY DEF There, ImagesOf, GalleryInit, NoImage
<1>5. \A e \in Artists : TouchFits(e)
  BY DEF GalleryInit, TouchFits, NoTouch
<1> QED BY <1>3, <1>4, <1>5 DEF GalleryOK, BornApart, GalleryInit

\* A request that begins, or goes on with its product, sees what is there; one
\* that begins while another is under way blurs the product.
LEMMA TouchingKeeps ==
  ASSUME GalleryOK, NEW e \in Artists, NEW next \in TouchRow,
         next.of \in Pictured, next.pc # "idle",
         next.pc \in {"upload", "insert"} => next.row.of = next.of,
         next.pc \in {"alter", "remove"} => next.id \in Images,
         \A i \in Images : i = next.id \/ i \in next.seen => image[i].of \in {next.of, NoPicture},
         next.of \in Pictured \ blurred =>
           /\ next.pc = "insert" =>
                next.seen = IF next.row.primary THEN ImagesOf(next.of) ELSE {}
           /\ next.pc = "alter" =>
                next.seen = IF next.asked = TRUE THEN ImagesOf(next.of) \ {next.id} ELSE {},
         TouchGoes(e, next), Blur(e, next.of), UNCHANGED image
  PROVE  GalleryOK'
<1> USE GalleryAssumption DEF GalleryAssumption
<1>1. touch' = [touch EXCEPT ![e] = next] /\ DOMAIN touch = Artists
  BY DEF TouchGoes, GalleryOK, GalleryTypeOK
<1>2. blurred \subseteq blurred' /\ blurred' \subseteq Pictured
  BY DEF Blur, GalleryOK, GalleryTypeOK
<1>3. GalleryTypeOK'
  BY <1>1, <1>2 DEF GalleryOK, GalleryTypeOK, TouchRow
<1>4. \A o \in Artists \ {e} : touch[o].of = next.of => next.of \in blurred'
  BY DEF Blur, Retouching
<1>5. \A p : ImagesOf(p)' = ImagesOf(p)
  BY DEF ImagesOf
<1>6. TouchFits(e)'
  <2>1. touch'[e] = next
    BY <1>1
  <2>2. \A o \in Artists : touch'[o].of = next.of => o = e \/ next.of \in blurred'
    BY <1>1, <1>4
  <2> QED BY <1>2, <1>5, <2>1, <2>2 DEF TouchFits
<1>7. ASSUME NEW x \in Artists \ {e} PROVE TouchFits(x)'
  <2>1. touch'[x] = touch[x] /\ touch'[e] = next
    BY <1>1
  <2>2. \A o \in Artists : o # e => touch'[o] = touch[o]
    BY <1>1
  <2>3. TouchFits(x)
    BY DEF GalleryOK
  <2>4. touch[x].of \in Pictured \ blurred' =>
          \A o \in Artists : touch'[o].of = touch[x].of => o = x
    BY <1>2, <1>4, <2>1, <2>2, <2>3 DEF TouchFits
  <2> QED BY <1>2, <1>5, <2>1, <2>3, <2>4 DEF TouchFits
<1>8. BornApart'
  BY DEF GalleryOK, BornApart, There
<1>9. \A p \in Pictured \ blurred' : ImagesOf(p)' # {} => HasMain(p)'
  BY <1>2, <1>5 DEF GalleryOK, HasMain
<1> QED BY <1>3, <1>6, <1>7, <1>8, <1>9 DEF GalleryOK

\* A request that ends changes the main flags of its own product alone, and takes
\* no row that another names.
LEMMA EndingKeeps ==
  ASSUME GalleryOK, NEW e \in Artists, NEW p \in Pictured, touch[e].of = p,
         TouchGoes(e, NoTouch), image' \in [Images -> ImageRows],
         blurred \subseteq blurred', blurred' \subseteq Pictured,
         \A i \in Images : image[i].of \notin {p, NoPicture} =>
           image'[i].of = image[i].of /\ image'[i].primary = image[i].primary,
         \A i \in Images : image[i].of = p => image'[i].of \in {p, NoPicture},
         \A i \in Images : image[i].of = NoPicture =>
           \/ image'[i].of = NoPicture
           \/ image'[i].of = p
                /\ \A o \in Artists : i # touch[o].id /\ i \notin touch[o].seen,
         \A i \in Images : image'[i].of = NoPicture => image'[i] = NoImage,
         BornApart',
         p \notin blurred' /\ ImagesOf(p)' # {} => HasMain(p)'
  PROVE  GalleryOK'
<1> USE GalleryAssumption DEF GalleryAssumption
<1>1. touch' = [touch EXCEPT ![e] = NoTouch] /\ DOMAIN touch = Artists
  BY DEF TouchGoes, GalleryOK, GalleryTypeOK
<1>2. GalleryTypeOK'
  <2>1. NoTouch \in TouchRow
    <3>1. Cardinality(Images) \in Nat
      BY FS_CardinalityType
    <3> QED BY <3>1 DEF NoTouch, TouchRow, NoImage, ImageRows
  <2> QED BY <1>1, <2>1 DEF GalleryOK, GalleryTypeOK, TouchRow
<1>3. \A q \in Pictured \ {p} : ImagesOf(q)' = ImagesOf(q)
  BY DEF ImagesOf
<1>4. TouchFits(e)'
  <2>1. touch'[e] = NoTouch
    BY <1>1
  <2> QED BY <2>1 DEF TouchFits, NoTouch
<1>5. ASSUME NEW x \in Artists \ {e} PROVE TouchFits(x)'
  <2>1. touch'[x] = touch[x] /\ touch'[e].of = NoPicture
    BY <1>1 DEF NoTouch
  <2>2. \A o \in Artists : o # e => touch'[o] = touch[o]
    BY <1>1
  <2>3. TouchFits(x) /\ TouchFits(e)
    BY DEF GalleryOK
  <2>4. \A i \in Images : i = touch[x].id \/ i \in touch[x].seen =>
          image'[i].of \in {touch[x].of, NoPicture}
    BY <2>3 DEF TouchFits
  <2>5. touch[x].of \in Pictured \ blurred' => touch[x].of # p
    BY <2>3 DEF TouchFits
  <2>6. touch[x].of \in Pictured \ blurred' =>
          \A o \in Artists : touch'[o].of = touch[x].of => o = x
    BY <2>1, <2>2, <2>3 DEF TouchFits
  <2>7. PICK q : q = touch[x]
    OBVIOUS
  <2>8. /\ q.pc = "idle" <=> q.of = NoPicture
        /\ q.pc \in {"upload", "insert"} => q.row.of = q.of
        /\ q.pc \in {"alter", "remove"} => q.id \in Images
    BY <2>3, <2>7 DEF TouchFits
  <2>9. ASSUME q.of \in Pictured \ blurred'
        PROVE  /\ q.pc = "insert" => q.seen = IF q.row.primary THEN ImagesOf(q.of)' ELSE {}
               /\ q.pc = "alter" =>
                    q.seen = IF q.asked = TRUE THEN ImagesOf(q.of)' \ {q.id} ELSE {}
    <3>1. ImagesOf(q.of)' = ImagesOf(q.of)
      BY <1>3, <2>5, <2>7, <2>9
    <3> QED BY <2>3, <2>7, <2>9, <3>1 DEF TouchFits
  <2> QED BY <2>1, <2>4, <2>6, <2>7, <2>8, <2>9 DEF TouchFits
<1>6. ASSUME NEW q \in Pictured \ blurred', ImagesOf(q)' # {} PROVE HasMain(q)'
  <2>1. CASE q = p
    BY <1>6, <2>1
  <2>2. CASE q # p
    <3>1. ImagesOf(q)' = ImagesOf(q) /\ HasMain(q)
      BY <1>3, <1>6, <2>2 DEF GalleryOK
    <3>2. \A j \in ImagesOf(q) : image'[j].primary = image[j].primary
      BY <2>2 DEF ImagesOf
    <3> QED BY <3>1, <3>2 DEF HasMain
  <2> QED BY <2>1, <2>2
<1> QED BY <1>2, <1>4, <1>5, <1>6 DEF GalleryOK

\* An upload has counted the images there are.
LEMMA BeginningUploadKeeps ==
  ASSUME GalleryOK, NEW e \in Artists, NEW p \in Pictured, NEW asked \in BOOLEAN \cup {Unasked},
         BeginUpload(e, p, asked)
  PROVE  GalleryOK'
<1> USE GalleryAssumption DEF GalleryAssumption
<1>1. Cardinality(ImagesOf(p)) \in 0..Cardinality(Images)
  <2>1. ImagesOf(p) \in SUBSET Images
    BY DEF ImagesOf
  <2> QED BY <2>1, FS_Subset, FS_CardinalityType
<1>2. PICK row : row = [of |-> p, sort |-> Cardinality(ImagesOf(p)), born |-> 0,
                        primary |-> IF asked = Unasked THEN Cardinality(ImagesOf(p)) = 0 ELSE asked]
  OBVIOUS
<1>3. row \in ImageRows
  <2>1. (Cardinality(ImagesOf(p)) = 0) \in BOOLEAN
    OBVIOUS
  <2>2. row.primary \in BOOLEAN
    BY <1>2, <2>1
  <2>3. 0 \in 0..Cardinality(Images)
    BY FS_CardinalityType
  <2> QED BY <1>1, <1>2, <2>2, <2>3 DEF ImageRows
<1>4. PICK next : next = [NoTouch EXCEPT !.pc = "upload", !.of = p, !.row = row]
  OBVIOUS
<1>5. next = [pc |-> "upload", of |-> p, id |-> NoId, row |-> row, asked |-> Unasked, seen |-> {}]
  BY <1>4 DEF NoTouch
<1>6. next \in TouchRow
  BY <1>3, <1>5 DEF TouchRow
<1>7. TouchGoes(e, next) /\ Blur(e, next.of) /\ UNCHANGED image
  BY <1>2, <1>4, <1>5 DEF BeginUpload
<1>8. next.row.of = next.of
  BY <1>2, <1>5
<1> QED BY <1>5, <1>6, <1>7, <1>8, TouchingKeeps

\* An upload that was stored is about to be inserted.
LEMMA BeginningInsertKeeps ==
  ASSUME GalleryOK, NEW e \in Artists, BeginInsert(e)
  PROVE  GalleryOK'
<1> USE GalleryAssumption DEF GalleryAssumption
<1>1. PICK q : q = touch[e]
  OBVIOUS
<1>2. q \in TouchRow /\ q.pc = "upload" /\ TouchFits(e)
  BY <1>1 DEF BeginInsert, TouchAt, GalleryOK, GalleryTypeOK, TouchRow
<1>3. q.of \in Pictured /\ q.row.of = q.of
  BY <1>1, <1>2 DEF TouchFits, TouchRow
<1>4. PICK next : next = [q EXCEPT !.pc = "insert",
                            !.seen = IF q.row.primary THEN ImagesOf(q.of) ELSE {}]
  OBVIOUS
<1>5. /\ next \in TouchRow
      /\ next.of = q.of /\ next.row = q.row /\ next.id = q.id /\ next.pc = "insert"
      /\ next.seen = IF q.row.primary THEN ImagesOf(q.of) ELSE {}
  <2>1. ImagesOf(q.of) \subseteq Images
    BY DEF ImagesOf
  <2> QED BY <1>2, <1>4, <2>1 DEF TouchRow
<1>6. TouchGoes(e, next) /\ UNCHANGED image
  BY <1>1, <1>4 DEF BeginInsert
<1>7. Blur(e, next.of)
  <2>1. q.of \notin blurred => Retouching(q.of) \ {e} = {}
    BY <1>1, <1>2, <1>3 DEF TouchFits, Retouching
  <2> QED BY <1>5, <2>1 DEF Blur, BeginInsert
<1>8. \A i \in Images : i = next.id \/ i \in next.seen => image[i].of \in {next.of, NoPicture}
  BY <1>1, <1>2, <1>5 DEF TouchFits, ImagesOf
<1> QED BY <1>3, <1>5, <1>6, <1>7, <1>8, TouchingKeeps

\* An edit has found the image it is about.
LEMMA BeginningAlterKeeps ==
  ASSUME GalleryOK, NEW e \in Artists, NEW i \in Images, NEW asked \in BOOLEAN \cup {Unasked},
         BeginAlter(e, i, asked)
  PROVE  GalleryOK'
<1> USE GalleryAssumption DEF GalleryAssumption
<1>1. PICK p : p = image[i].of
  OBVIOUS
<1>2. p \in Pictured
  BY <1>1 DEF BeginAlter, GalleryOK, GalleryTypeOK, ImageRows
<1>3. PICK next : next = [NoTouch EXCEPT !.pc = "alter", !.of = p, !.id = i, !.asked = asked,
                            !.seen = IF asked = TRUE THEN ImagesOf(p) \ {i} ELSE {}]
  OBVIOUS
<1>4. next = [pc |-> "alter", of |-> p, id |-> i, row |-> NoImage, asked |-> asked,
              seen |-> IF asked = TRUE THEN ImagesOf(p) \ {i} ELSE {}]
  BY <1>3 DEF NoTouch
<1>5. next \in TouchRow
  <2>1. Cardinality(Images) \in Nat
    BY FS_CardinalityType
  <2>2. NoImage \in ImageRows /\ ImagesOf(p) \subseteq Images
    BY <2>1 DEF NoImage, ImageRows, ImagesOf
  <2> QED BY <1>2, <1>4, <2>2 DEF TouchRow
<1>6. TouchGoes(e, next) /\ Blur(e, next.of) /\ UNCHANGED image
  BY <1>1, <1>3, <1>4 DEF BeginAlter
<1>7. \A j \in Images : j = next.id \/ j \in next.seen => image[j].of \in {next.of, NoPicture}
  BY <1>1, <1>4 DEF ImagesOf
<1> QED BY <1>2, <1>4, <1>5, <1>6, <1>7, TouchingKeeps

\* A removal has found the image it is about.
LEMMA BeginningRemoveKeeps ==
  ASSUME GalleryOK, NEW e \in Artists, NEW i \in Images, BeginRemove(e, i)
  PROVE  GalleryOK'
<1> USE GalleryAssumption DEF GalleryAssumption
<1>1. PICK p : p = image[i].of
  OBVIOUS
<1>2. p \in Pictured
  BY <1>1 DEF BeginRemove, GalleryOK, GalleryTypeOK, ImageRows
<1>3. PICK next : next = [NoTouch EXCEPT !.pc = "remove", !.of = p, !.id = i]
  OBVIOUS
<1>4. next = [pc |-> "remove", of |-> p, id |-> i, row |-> NoImage, asked |-> Unasked,
              seen |-> {}]
  BY <1>3 DEF NoTouch
<1>5. next \in TouchRow
  <2>1. Cardinality(Images) \in Nat
    BY FS_CardinalityType
  <2>2. NoImage \in ImageRows
    BY <2>1 DEF NoImage, ImageRows
  <2> QED BY <1>2, <1>4, <2>2 DEF TouchRow
<1>6. TouchGoes(e, next) /\ Blur(e, next.of) /\ UNCHANGED image
  BY <1>1, <1>3, <1>4 DEF BeginRemove
<1>7. \A j \in Images : j = next.id \/ j \in next.seen => image[j].of \in {next.of, NoPicture}
  BY <1>1, <1>4
<1> QED BY <1>2, <1>4, <1>5, <1>6, <1>7, TouchingKeeps

\* Rows that agree on every column are one.
LEMMA SameRow ==
  ASSUME NEW r \in ImageRows, NEW s \in ImageRows,
         r.of = s.of, r.primary = s.primary, r.sort = s.sort, r.born = s.born
  PROVE  r = s
<1>1. \A x \in ImageRows :
        x = [of |-> x.of, primary |-> x.primary, sort |-> x.sort, born |-> x.born]
  BY DEF ImageRows
<1> QED BY <1>1, Zenon

\* An image that is not there has a row of no product.
LEMMA NoImageIsRow ==
  /\ NoImage \in ImageRows
  /\ NoImage.of = NoPicture /\ NoImage.primary = FALSE
  /\ NoImage.sort = 0 /\ NoImage.born = 0
<1>1. Cardinality(Images) \in Nat
  BY FS_CardinalityType, GalleryAssumption DEF GalleryAssumption
<1>2. NoImage \in ImageRows
  BY <1>1 DEF NoImage, ImageRows
<1> QED BY <1>2 DEF NoImage

\* Taking the main flag off changes nothing else.
LEMMA FlagOff ==
  ASSUME NEW r \in ImageRows
  PROVE  /\ [r EXCEPT !.primary = FALSE] \in ImageRows
         /\ [r EXCEPT !.primary = FALSE].primary = FALSE
         /\ [r EXCEPT !.primary = FALSE].of = r.of
         /\ [r EXCEPT !.primary = FALSE].born = r.born
         /\ r = NoImage => [r EXCEPT !.primary = FALSE] = NoImage
<1>1. /\ [r EXCEPT !.primary = FALSE] \in ImageRows
      /\ [r EXCEPT !.primary = FALSE].primary = FALSE
      /\ [r EXCEPT !.primary = FALSE].of = r.of
      /\ [r EXCEPT !.primary = FALSE].sort = r.sort
      /\ [r EXCEPT !.primary = FALSE].born = r.born
  BY DEF ImageRows
<1>2. PICK off : off = [r EXCEPT !.primary = FALSE]
  OBVIOUS
<1>3. r = NoImage => off = r
  BY <1>1, <1>2, NoImageIsRow, SameRow
<1> QED BY <1>1, <1>2, <1>3

\* The transaction that inserts an image and makes way for a main one.
LEMMA InsertingKeeps ==
  ASSUME GalleryOK, NEW e \in Artists, CommitInsert(e)
  PROVE  GalleryOK'
<1> USE GalleryAssumption DEF GalleryAssumption
<1>1. PICK q : q = touch[e]
  OBVIOUS
<1>2. q \in TouchRow /\ q.pc = "insert" /\ TouchFits(e)
  BY <1>1 DEF CommitInsert, TouchAt, GalleryOK, GalleryTypeOK, TouchRow
<1>3. q.of \in Pictured /\ q.row.of = q.of /\ q.row \in ImageRows /\ q.seen \subseteq Images
  BY <1>1, <1>2 DEF TouchFits, TouchRow
<1>4. PICK i : /\ i \in Images /\ image[i] = NoImage
               /\ \A o \in Artists : i # touch[o].id /\ i \notin touch[o].seen
               /\ \E sort \in {q.row.sort, 0} :
                    image' = [Unset(q.seen) EXCEPT ![i] = [q.row EXCEPT !.sort = sort,
                      !.born = Cardinality({j \in Images : image[j] # NoImage})]]
  BY <1>1 DEF CommitInsert
<1>5. PICK sort \in {q.row.sort, 0} :
        image' = [Unset(q.seen) EXCEPT ![i] = [q.row EXCEPT !.sort = sort,
                   !.born = Cardinality({j \in Images : image[j] # NoImage})]]
  BY <1>4
<1>6. PICK born : born = Cardinality(There)
  OBVIOUS
<1>7. image[i].of = NoPicture /\ i \notin There
  BY <1>4 DEF NoImage, There
<1>8. There \cup {i} \subseteq Images /\ IsFiniteSet(There)
      /\ Cardinality(There \cup {i}) = born + 1
      /\ born \in Nat /\ born + 1 <= Cardinality(Images)
  <2>1. There \cup {i} \in SUBSET Images
    BY <1>4 DEF There
  <2>2. IsFiniteSet(There) /\ Cardinality(There \cup {i}) <= Cardinality(Images)
    BY <2>1, FS_Subset
  <2>3. Cardinality(There) \in Nat /\ Cardinality(There \cup {i}) = Cardinality(There) + 1
    BY <1>7, <2>2, FS_AddElement, FS_CardinalityType
  <2> QED BY <1>6, <2>1, <2>2, <2>3
<1>9. {j \in Images : image[j] # NoImage} = There
  <2>1. \A j \in Images : image[j] = NoImage <=> image[j].of = NoPicture
    BY NoImageIsRow DEF GalleryOK
  <2> QED BY <2>1 DEF There
<1>10. PICK row : row = [q.row EXCEPT !.sort = sort, !.born = born]
  OBVIOUS
<1>11. /\ row \in ImageRows
       /\ row.of = q.of /\ row.primary = q.row.primary /\ row.born = born
  <2>1. sort \in 0..Cardinality(Images)
    BY <1>3, FS_CardinalityType DEF ImageRows
  <2>2. born \in 0..Cardinality(Images)
    BY <1>8, FS_CardinalityType
  <2> QED BY <1>3, <1>10, <2>1, <2>2 DEF ImageRows
<1>12. image' = [Unset(q.seen) EXCEPT ![i] = row]
  BY <1>5, <1>6, <1>9, <1>10
<1>14. \A j \in Images : image[j] \in ImageRows
  BY DEF GalleryOK, GalleryTypeOK
<1>15. image' = [j \in Images |-> IF j = i THEN row
                   ELSE IF j \in q.seen THEN [image[j] EXCEPT !.primary = FALSE] ELSE image[j]]
  BY <1>12 DEF Unset
<1>16. /\ image'[i] = row
       /\ \A j \in Images \ {i} :
            /\ image'[j] \in ImageRows
            /\ image'[j].of = image[j].of /\ image'[j].born = image[j].born
            /\ j \in q.seen => image'[j].primary = FALSE
            /\ j \notin q.seen => image'[j] = image[j]
  <2>1. image'[i] = row
    BY <1>4, <1>15
  <2>2. \A j \in Images \ {i} :
          /\ j \in q.seen => image'[j] = [image[j] EXCEPT !.primary = FALSE]
          /\ j \notin q.seen => image'[j] = image[j]
    BY <1>15
  <2> SUFFICES ASSUME NEW j \in Images \ {i}
               PROVE  /\ image'[j] \in ImageRows
                      /\ image'[j].of = image[j].of /\ image'[j].born = image[j].born
                      /\ j \in q.seen => image'[j].primary = FALSE
                      /\ j \notin q.seen => image'[j] = image[j]
    BY <2>1
  <2>3. CASE j \in q.seen
    <3>1. PICK r \in ImageRows : r = image[j]
      BY <1>14
    <3>2. PICK off : off = [r EXCEPT !.primary = FALSE]
      OBVIOUS
    <3>3. off \in ImageRows /\ off.primary = FALSE /\ off.of = r.of /\ off.born = r.born
      BY <3>2, FlagOff
    <3>4. image'[j] = off
      BY <2>2, <2>3, <3>1, <3>2
    <3> QED BY <2>3, <3>1, <3>3, <3>4
  <2>4. CASE j \notin q.seen
    BY <1>14, <2>2, <2>4
  <2> QED BY <2>3, <2>4
<1>17. image' \in [Images -> ImageRows]
  BY <1>11, <1>15, <1>16
<1>18. \A j \in Images : j \in q.seen => image[j].of \in {q.of, NoPicture}
  BY <1>1, <1>2 DEF TouchFits
<1>19. \A j \in Images : image'[j].of = NoPicture => image'[j] = NoImage
  <2> SUFFICES ASSUME NEW j \in Images, image'[j].of = NoPicture PROVE image'[j] = NoImage
    OBVIOUS
  <2>1. j # i /\ image[j] = NoImage
    BY <1>3, <1>11, <1>16 DEF GalleryOK
  <2>2. [image[j] EXCEPT !.primary = FALSE] = NoImage
    BY <1>14, <2>1, FlagOff
  <2> QED BY <1>15, <2>1, <2>2
<1>20. BornApart'
  <2>1. There' = There \cup {i}
    BY <1>3, <1>4, <1>11, <1>16 DEF There
  <2>2. \A j \in There : image'[j].born = image[j].born /\ image[j].born \in Nat
    BY <1>7, <1>14, <1>16, FS_CardinalityType DEF There, ImageRows
  <2>3. Cardinality(There') = born + 1 /\ image'[i].born = born
    BY <1>8, <1>11, <1>16, <2>1
  <2>4. /\ \A j \in There : image[j].born < born
        /\ \A j, k \in There : image[j].born = image[k].born => j = k
    BY <1>6 DEF GalleryOK, BornApart
  <2>5. \A j \in There \cup {i} : image'[j].born < born + 1
    BY <1>8, <2>2, <2>3, <2>4
  <2>6. \A j, k \in There \cup {i} : image'[j].born = image'[k].born => j = k
    BY <1>8, <2>2, <2>3, <2>4
  <2> QED BY <2>1, <2>3, <2>5, <2>6 DEF BornApart
<1>21. ASSUME q.of \notin blurred', ImagesOf(q.of)' # {} PROVE HasMain(q.of)'
  <2>1. q.of \notin blurred /\ ~(ImagesOf(q.of) = {} /\ ~q.row.primary)
    BY <1>1, <1>21 DEF CommitInsert
  <2>2. q.seen = IF q.row.primary THEN ImagesOf(q.of) ELSE {}
    BY <1>1, <1>2, <1>3, <2>1 DEF TouchFits
  <2>3. ImagesOf(q.of)' = ImagesOf(q.of) \cup {i} /\ i \notin ImagesOf(q.of)
    BY <1>3, <1>4, <1>7, <1>11, <1>16 DEF ImagesOf
  <2>4. CASE q.row.primary
    <3>1. \A j \in ImagesOf(q.of) \cup {i} : image'[j].primary <=> j = i
      BY <1>11, <1>16, <2>2, <2>3, <2>4 DEF ImagesOf
    <3> QED BY <2>3, <3>1 DEF HasMain
  <2>5. CASE ~q.row.primary
    <3>1. PICK m \in ImagesOf(q.of) : \A j \in ImagesOf(q.of) : image[j].primary <=> j = m
      BY <1>3, <2>1, <2>5 DEF GalleryOK, HasMain
    <3>2. \A j \in ImagesOf(q.of) \cup {i} : image'[j].primary <=> j = m
      BY <1>11, <1>16, <2>2, <2>3, <2>5, <3>1 DEF ImagesOf
    <3> QED BY <2>3, <3>1, <3>2 DEF HasMain
  <2> QED BY <2>4, <2>5
<1>22. blurred \subseteq blurred' /\ blurred' \subseteq Pictured /\ TouchGoes(e, NoTouch)
  BY <1>1, <1>3 DEF CommitInsert, GalleryOK, GalleryTypeOK
<1>23. \A j \in Images : image[j].of \notin {q.of, NoPicture} =>
         image'[j].of = image[j].of /\ image'[j].primary = image[j].primary
  BY <1>7, <1>16, <1>18
<1>24. \A j \in Images : image[j].of = q.of => image'[j].of \in {q.of, NoPicture}
  BY <1>3, <1>7, <1>16
<1>25. \A j \in Images : image[j].of = NoPicture =>
         \/ image'[j].of = NoPicture
         \/ image'[j].of = q.of /\ \A o \in Artists : j # touch[o].id /\ j \notin touch[o].seen
  <2> SUFFICES ASSUME NEW j \in Images, image[j].of = NoPicture, image'[j].of # NoPicture
               PROVE  image'[j].of = q.of
                        /\ \A o \in Artists : j # touch[o].id /\ j \notin touch[o].seen
    OBVIOUS
  <2>1. j = i
    BY <1>16
  <2>2. image'[j].of = q.of
    BY <1>11, <1>16, <2>1
  <2> QED BY <1>4, <2>1, <2>2
<1> QED BY <1>1, <1>3, <1>17, <1>19, <1>20, <1>21, <1>22, <1>23, <1>24, <1>25, EndingKeeps

\* The transaction that edits an image, and with it which one is the main one.
LEMMA AlteringKeeps ==
  ASSUME GalleryOK, NEW e \in Artists, CommitAlter(e)
  PROVE  GalleryOK'
<1> USE GalleryAssumption DEF GalleryAssumption
<1>1. PICK q : q = touch[e]
  OBVIOUS
<1>2. q \in TouchRow /\ q.pc = "alter" /\ TouchFits(e)
  BY <1>1 DEF CommitAlter, TouchAt, GalleryOK, GalleryTypeOK, TouchRow
<1>3. q.of \in Pictured /\ q.id \in Images /\ q.seen \subseteq Images
      /\ q.asked \in BOOLEAN \cup {Unasked}
  BY <1>1, <1>2 DEF TouchFits, TouchRow
<1>4. \A j \in Images : image[j] \in ImageRows
  BY DEF GalleryOK, GalleryTypeOK
<1>5. TouchGoes(e, NoTouch)
  BY DEF CommitAlter
<1>6. CASE image[q.id] = NoImage
  <2>1. UNCHANGED <<image, blurred>>
    BY <1>1, <1>6 DEF CommitAlter
  <2>2. image' \in [Images -> ImageRows] /\ blurred \subseteq blurred' /\ blurred' \subseteq Pictured
    BY <2>1 DEF GalleryOK, GalleryTypeOK
  <2>3. BornApart' /\ \A i \in Images : image'[i].of = NoPicture => image'[i] = NoImage
    BY <2>1 DEF GalleryOK, BornApart, There
  <2>4. q.of \notin blurred' /\ ImagesOf(q.of)' # {} => HasMain(q.of)'
    BY <1>3, <2>1 DEF GalleryOK, HasMain, ImagesOf
  <2> QED BY <1>1, <1>3, <1>5, <2>1, <2>2, <2>3, <2>4, EndingKeeps
<1>7. CASE image[q.id] # NoImage
  <2>1. PICK sort \in {image[q.id].sort, 0} :
          image' = [Unset(q.seen) EXCEPT ![q.id] = [image[q.id] EXCEPT
            !.primary = IF q.asked = Unasked THEN @ ELSE q.asked, !.sort = sort]]
    BY <1>1, <1>7 DEF CommitAlter
  <2>2. blurred' = IF q.asked = FALSE /\ image[q.id].primary
                   THEN blurred \cup {image[q.id].of} ELSE blurred
    BY <1>1, <1>7 DEF CommitAlter
  <2>3. image[q.id].of = q.of
    BY <1>1, <1>2, <1>3, <1>7 DEF TouchFits, GalleryOK
  <2>4. PICK row : row = [image[q.id] EXCEPT
            !.primary = IF q.asked = Unasked THEN @ ELSE q.asked, !.sort = sort]
    OBVIOUS
  <2>5. /\ row \in ImageRows /\ row.of = q.of /\ row.born = image[q.id].born
        /\ row.primary = IF q.asked = Unasked THEN image[q.id].primary ELSE q.asked
    <3>1. sort \in 0..Cardinality(Images)
      BY <1>3, <1>4, FS_CardinalityType DEF ImageRows
    <3>2. image[q.id].primary \in BOOLEAN
      BY <1>3, <1>4 DEF ImageRows
    <3>3. PICK flag : flag = IF q.asked = Unasked THEN image[q.id].primary ELSE q.asked
      OBVIOUS
    <3>4. flag \in BOOLEAN
      BY <1>3, <3>2, <3>3
    <3>5. row = [image[q.id] EXCEPT !.primary = flag, !.sort = sort]
      BY <2>4, <3>3
    <3> QED BY <1>3, <1>4, <2>3, <3>1, <3>3, <3>4, <3>5 DEF ImageRows
  <2>6. image' = [j \in Images |-> IF j = q.id THEN row
                   ELSE IF j \in q.seen THEN [image[j] EXCEPT !.primary = FALSE] ELSE image[j]]
    BY <2>1, <2>4 DEF Unset
  <2>7. /\ image'[q.id] = row
        /\ \A j \in Images \ {q.id} :
             /\ image'[j] \in ImageRows
             /\ image'[j].of = image[j].of /\ image'[j].born = image[j].born
             /\ j \in q.seen => image'[j].primary = FALSE
             /\ j \notin q.seen => image'[j] = image[j]
    BY <1>3, <1>4, <2>6 DEF ImageRows
  <2>8. image' \in [Images -> ImageRows]
    BY <2>5, <2>6, <2>7
  <2>9. \A j \in Images : image'[j].of = image[j].of /\ image'[j].born = image[j].born
    BY <2>3, <2>5, <2>7
  <2>10. \A j \in Images : j \in q.seen => image[j].of \in {q.of, NoPicture}
    BY <1>1, <1>2 DEF TouchFits
  <2>11. \A j \in Images : image'[j].of = NoPicture => image'[j] = NoImage
    <3> SUFFICES ASSUME NEW j \in Images, image'[j].of = NoPicture PROVE image'[j] = NoImage
      OBVIOUS
    <3>1. j # q.id /\ image[j] = NoImage
      BY <1>3, <2>3, <2>9 DEF GalleryOK
    <3>2. [image[j] EXCEPT !.primary = FALSE] = NoImage
      BY <1>4, <3>1, FlagOff
    <3> QED BY <2>6, <3>1, <3>2
  <2>12. BornApart'
    <3>1. There' = There
      BY <2>9 DEF There
    <3>2. \A j \in There : image'[j].born = image[j].born
      BY <2>9 DEF There
    <3> QED BY <3>1, <3>2 DEF GalleryOK, BornApart
  <2>13. ASSUME q.of \notin blurred', ImagesOf(q.of)' # {} PROVE HasMain(q.of)'
    <3>1. ImagesOf(q.of)' = ImagesOf(q.of) /\ q.id \in ImagesOf(q.of)
      BY <1>3, <2>3, <2>9 DEF ImagesOf
    <3>2. q.of \notin blurred /\ (q.asked = FALSE => ~image[q.id].primary)
      BY <2>2, <2>3, <2>13
    <3>3. PICK m \in ImagesOf(q.of) : \A j \in ImagesOf(q.of) : image[j].primary <=> j = m
      BY <1>3, <3>1, <3>2 DEF GalleryOK, HasMain
    <3>4. q.seen = IF q.asked = TRUE THEN ImagesOf(q.of) \ {q.id} ELSE {}
      BY <1>1, <1>2, <1>3, <3>2 DEF TouchFits
    <3>5. CASE q.asked = TRUE
      <4>1. row.primary = TRUE
        BY <2>5, <3>5
      <4>2. \A j \in ImagesOf(q.of) : image'[j].primary <=> j = q.id
        BY <2>7, <3>4, <3>5, <4>1 DEF ImagesOf
      <4> QED BY <3>1, <4>2 DEF HasMain
    <3>6. CASE q.asked # TRUE
      <4>1. row.primary <=> q.id = m
        <5>1. CASE q.asked = Unasked
          BY <2>5, <3>1, <3>3, <5>1
        <5>2. CASE q.asked = FALSE
          BY <2>5, <3>1, <3>2, <3>3, <5>2
        <5> QED BY <1>3, <3>6, <5>1, <5>2
      <4>2. \A j \in ImagesOf(q.of) : image'[j].primary <=> j = m
        BY <2>7, <3>3, <3>4, <3>6, <4>1 DEF ImagesOf
      <4> QED BY <3>1, <3>3, <4>2 DEF HasMain
    <3> QED BY <3>5, <3>6
  <2>14. blurred \subseteq blurred' /\ blurred' \subseteq Pictured
    BY <1>3, <2>2, <2>3 DEF GalleryOK, GalleryTypeOK
  <2>15. \A j \in Images : image[j].of \notin {q.of, NoPicture} =>
           image'[j].primary = image[j].primary
    BY <2>3, <2>7, <2>10
  <2> QED BY <1>1, <1>3, <1>5, <2>8, <2>9, <2>11, <2>12, <2>13, <2>14, <2>15, EndingKeeps
<1> QED BY <1>6, <1>7

\* Of the images that are there one comes first, and one alone: the fewest come
\* before it.
LEMMA OneIsFirst ==
  ASSUME GalleryOK, NEW rest, rest \subseteq There, rest # {}
  PROVE  \E first \in rest :
           \A j \in rest : (\A k \in rest : Precedes(j, k)) <=> j = first
<1> USE GalleryAssumption DEF GalleryAssumption
<1>1. rest \subseteq Images /\ IsFiniteSet(rest)
  BY FS_Subset DEF There
<1>2. \A j \in rest : image[j].sort \in Nat /\ image[j].born \in Nat
  BY <1>1, FS_CardinalityType DEF GalleryOK, GalleryTypeOK, ImageRows
<1>3. \A j, k \in rest : image[j].born = image[k].born => j = k
  BY DEF GalleryOK, BornApart
<1>4. \A j, k \in rest : Precedes(j, k) \/ Precedes(k, j)
  BY <1>2 DEF Precedes
<1>5. \A j, k \in rest : Precedes(j, k) /\ Precedes(k, j) => j = k
  BY <1>2, <1>3 DEF Precedes
<1>6. \A j, k, l \in rest : Precedes(j, k) /\ Precedes(k, l) => Precedes(j, l)
  BY <1>2 DEF Precedes
<1> DEFINE Upto(j) == {k \in rest : Precedes(k, j)}
           All == {Upto(j) : j \in rest}
<1>7. PICK least \in All : \A other \in All : <<other, least>> \notin StrictSubsetOrdering(rest)
  <2>1. All \subseteq FiniteSubsetsOf(rest) /\ All # {}
    <3>1. FiniteSubsetsOf(rest) = SUBSET rest
      BY <1>1, FS_FiniteSubsetsOfFinite
    <3>2. All \subseteq SUBSET rest
      OBVIOUS
    <3>3. PICK j : j \in rest
      OBVIOUS
    <3>4. Upto(j) \in All
      BY <3>3
    <3> QED BY <3>1, <3>2, <3>4
  <2>2. IsWellFoundedOn(StrictSubsetOrdering(rest), FiniteSubsetsOf(rest))
    BY FS_StrictSubsetOrderingWellFounded
  <2> HIDE DEF All
  <2> QED BY <2>1, <2>2, WFMin
<1>8. PICK first \in rest : least = Upto(first)
  OBVIOUS
<1>9. ASSUME NEW k \in rest PROVE Precedes(first, k)
  <2> SUFFICES ASSUME ~Precedes(first, k) PROVE FALSE
    OBVIOUS
  <2>1. Precedes(k, first) /\ Precedes(first, first)
    BY <1>4
  <2>2. Upto(k) \subseteq Upto(first)
    BY <1>6, <2>1
  <2>3. first \in Upto(first) /\ first \notin Upto(k)
    BY <2>1
  <2>4. <<Upto(k), Upto(first)>> \in StrictSubsetOrdering(rest)
    <3> HIDE DEF Upto
    <3>1. Upto(k) \subseteq rest /\ Upto(first) \subseteq rest
      BY DEF Upto
    <3> QED BY <2>2, <2>3, <3>1 DEF StrictSubsetOrdering
  <2>5. Upto(k) \in All
    OBVIOUS
  <2> QED BY <1>7, <1>8, <2>4, <2>5
<1>10. \A j \in rest : (\A k \in rest : Precedes(j, k)) <=> j = first
  BY <1>5, <1>9
<1> QED BY <1>10

\* The transaction that removes an image and names the next main one.
LEMMA RemovingKeeps ==
  ASSUME GalleryOK, NEW e \in Artists, CommitRemove(e)
  PROVE  GalleryOK'
<1> USE GalleryAssumption DEF GalleryAssumption
<1>1. PICK q : q = touch[e]
  OBVIOUS
<1>2. q \in TouchRow /\ q.pc = "remove" /\ TouchFits(e)
  BY <1>1 DEF CommitRemove, TouchAt, GalleryOK, GalleryTypeOK, TouchRow
<1>3. q.of \in Pictured /\ q.id \in Images
  BY <1>1, <1>2 DEF TouchFits, TouchRow
<1>4. \A j \in Images : image[j] \in ImageRows
  BY DEF GalleryOK, GalleryTypeOK
<1>5. TouchGoes(e, NoTouch) /\ blurred' = blurred /\ blurred \subseteq Pictured
  BY DEF CommitRemove, GalleryOK, GalleryTypeOK
<1>6. CASE image[q.id] = NoImage
  <2>1. UNCHANGED <<image, blurred>>
    BY <1>1, <1>5, <1>6 DEF CommitRemove
  <2>2. image' \in [Images -> ImageRows]
    BY <2>1 DEF GalleryOK, GalleryTypeOK
  <2>3. BornApart' /\ \A i \in Images : image'[i].of = NoPicture => image'[i] = NoImage
    BY <2>1 DEF GalleryOK, BornApart, There
  <2>4. q.of \notin blurred' /\ ImagesOf(q.of)' # {} => HasMain(q.of)'
    BY <1>3, <2>1 DEF GalleryOK, HasMain, ImagesOf
  <2> QED BY <1>1, <1>3, <1>5, <2>1, <2>2, <2>3, <2>4, EndingKeeps
<1>7. CASE image[q.id] # NoImage
  <2> DEFINE rest == ImagesOf(q.of) \ {q.id}
             first == {j \in rest : image[q.id].primary /\ \A k \in rest : Precedes(j, k)}
  <2>1. image' = [j \in Images |-> IF j = q.id THEN NoImage
                   ELSE [image[j] EXCEPT
                     !.primary = @ \/ j \in first,
                     !.born = IF image[j].born > image[q.id].born THEN @ - 1 ELSE @]]
    BY <1>1, <1>7 DEF CommitRemove
  <2>2. image[q.id].of = q.of /\ q.id \in There
    BY <1>1, <1>2, <1>3, <1>7 DEF TouchFits, GalleryOK, There
  <2>3. \A j \in Images : image[j].born \in 0..Cardinality(Images) /\ image[j].primary \in BOOLEAN
    BY <1>4 DEF ImageRows
  <2>4. PICK firsts : firsts = first
    OBVIOUS
  <2>5. firsts \subseteq rest
    BY <2>4
  <2>6. image' = [j \in Images |-> IF j = q.id THEN NoImage
                   ELSE [image[j] EXCEPT
                     !.primary = @ \/ j \in firsts,
                     !.born = IF image[j].born > image[q.id].born THEN @ - 1 ELSE @]]
    BY <2>1, <2>4
  <2> HIDE DEF first
  <2>7. image'[q.id] = NoImage
    BY <1>3, <2>6
  <2>8. ASSUME NEW j \in Images \ {q.id}
        PROVE  /\ image'[j] \in ImageRows /\ image'[j].of = image[j].of
               /\ image'[j].primary = (image[j].primary \/ j \in firsts)
               /\ image'[j].born =
                    IF image[j].born > image[q.id].born THEN image[j].born - 1 ELSE image[j].born
    <3>1. PICK flag : flag = (image[j].primary \/ j \in firsts)
      OBVIOUS
    <3>2. PICK born : born = IF image[j].born > image[q.id].born THEN image[j].born - 1
                             ELSE image[j].born
      OBVIOUS
    <3>3. image'[j] = [image[j] EXCEPT !.primary = flag, !.born = born]
      BY <2>6, <3>1, <3>2
    <3>4. born \in 0..Cardinality(Images)
      BY <1>3, <2>3, <3>2, FS_CardinalityType
    <3>5. flag \in BOOLEAN
      BY <3>1
    <3>6. /\ image'[j] \in ImageRows /\ image'[j].of = image[j].of
          /\ image'[j].primary = flag /\ image'[j].born = born
      BY <1>4, <3>3, <3>4, <3>5 DEF ImageRows
    <3> QED BY <3>1, <3>2, <3>6
  <2>9. image' \in [Images -> ImageRows]
    <3>1. NoImage \in ImageRows
      BY FS_CardinalityType DEF NoImage, ImageRows
    <3> QED BY <2>6, <2>7, <2>8, <3>1
  <2>10. NoImage.of = NoPicture
    BY DEF NoImage
  <2>11. \A j \in Images : image'[j].of = NoPicture => image'[j] = NoImage
    <3> SUFFICES ASSUME NEW j \in Images \ {q.id}, image'[j].of = NoPicture PROVE image'[j] = NoImage
      BY <2>7
    <3>1. image[j].of = NoPicture
      BY <2>8
    <3>2. image[j] = NoImage /\ j \notin firsts
      BY <1>3, <2>5, <3>1 DEF GalleryOK, ImagesOf
    <3>3. ~image[j].primary /\ image[j].born = 0 /\ ~(0 > image[q.id].born)
      BY <1>3, <2>3, <3>2, FS_CardinalityType DEF NoImage
    <3>4. image'[j].primary = FALSE /\ image'[j].born = 0
      BY <2>8, <3>2, <3>3
    <3>5. image'[j] = [image[j] EXCEPT !.primary = image'[j].primary, !.born = image'[j].born]
      BY <2>6, <2>8
    <3>6. image'[j].sort = NoImage.sort
      BY <1>4, <2>8, <3>2, <3>5 DEF ImageRows
    <3> QED BY <2>8, <3>1, <3>4, <3>6, NoImageIsRow, SameRow
  <2>12. BornApart'
    <3>1. There' = There \ {q.id}
      BY <2>7, <2>8, <2>10 DEF There
    <3>2. IsFiniteSet(There) /\ Cardinality(There) \in Nat
      <4>1. There \in SUBSET Images
        BY DEF There
      <4> QED BY <4>1, FS_Subset, FS_CardinalityType
    <3>3. Cardinality(There') = Cardinality(There) - 1
      BY <2>2, <3>1, <3>2, FS_RemoveElement
    <3>4. /\ \A j \in There : image[j].born < Cardinality(There) /\ image[j].born \in Nat
          /\ \A j, k \in There : image[j].born = image[k].born => j = k
      BY <2>3, FS_CardinalityType DEF GalleryOK, BornApart, There
    <3>5. \A j \in There \ {q.id} :
            /\ image'[j].born = IF image[j].born > image[q.id].born THEN image[j].born - 1
                                ELSE image[j].born
            /\ image[j].born # image[q.id].born
      BY <2>2, <2>8, <3>4 DEF There
    <3>6. \A j \in There \ {q.id} : image'[j].born < Cardinality(There) - 1
      BY <2>2, <3>2, <3>4, <3>5
    <3>7. \A j, k \in There \ {q.id} : image'[j].born = image'[k].born => j = k
      BY <2>2, <3>4, <3>5
    <3> QED BY <3>1, <3>3, <3>6, <3>7 DEF BornApart
  <2>13. ASSUME q.of \notin blurred', ImagesOf(q.of)' # {} PROVE HasMain(q.of)'
    <3>1. ImagesOf(q.of)' = rest /\ rest # {}
      BY <1>3, <2>7, <2>8, <2>10, <2>13 DEF ImagesOf
    <3>2. q.id \in ImagesOf(q.of)
      BY <1>3, <2>2 DEF ImagesOf
    <3>3. PICK m \in ImagesOf(q.of) : \A j \in ImagesOf(q.of) : image[j].primary <=> j = m
      BY <1>3, <1>5, <2>13, <3>2 DEF GalleryOK, HasMain
    <3>4. \A j \in rest : image'[j].primary = (image[j].primary \/ j \in firsts)
      BY <2>8 DEF ImagesOf
    <3>5. CASE m = q.id
      <4>1. rest \subseteq There
        BY <1>3 DEF ImagesOf, There
      <4>2. PICK new \in rest : \A j \in rest : (\A k \in rest : Precedes(j, k)) <=> j = new
        <5> HIDE DEF rest
        <5> QED BY <3>1, <4>1, OneIsFirst
      <4>3. firsts = {new}
        BY <2>4, <3>2, <3>3, <3>5, <4>2 DEF first
      <4>4. \A j \in rest : image'[j].primary <=> j = new
        BY <3>3, <3>4, <3>5, <4>3
      <4> QED BY <3>1, <4>2, <4>4 DEF HasMain
    <3>6. CASE m # q.id
      <4>1. firsts = {}
        BY <2>4, <3>2, <3>3, <3>6 DEF first
      <4>2. \A j \in rest : image'[j].primary <=> j = m
        BY <3>3, <3>4, <4>1
      <4> QED BY <3>1, <3>3, <3>6, <4>2 DEF HasMain
    <3> QED BY <3>5, <3>6
  <2>14. \A j \in Images : image[j].of \notin {q.of, NoPicture} =>
           image'[j].of = image[j].of /\ image'[j].primary = image[j].primary
    <3> SUFFICES ASSUME NEW j \in Images, image[j].of \notin {q.of, NoPicture}
                 PROVE  image'[j].of = image[j].of /\ image'[j].primary = image[j].primary
      OBVIOUS
    <3>1. j # q.id /\ j \notin firsts
      BY <2>2, <2>5 DEF ImagesOf
    <3> QED BY <2>3, <2>8, <3>1
  <2>15. \A j \in Images : image[j].of = q.of => image'[j].of \in {q.of, NoPicture}
    BY <2>7, <2>8, <2>10
  <2>16. \A j \in Images : image[j].of = NoPicture => image'[j].of = NoPicture
    BY <2>7, <2>8, <2>10
  <2> QED BY <1>1, <1>3, <1>5, <2>9, <2>11, <2>12, <2>13, <2>14, <2>15, <2>16, EndingKeeps
<1> QED BY <1>6, <1>7

\* For any images and overlapping requests, a product with images has one main image.
LEMMA GalleryAlways == GallerySpec => [](GalleryTypeOK /\ OneMainImage)
<1>1. GalleryInit => GalleryOK
  BY GalleryStarts
<1>2. GalleryOK /\ [GalleryNext]_galleryVars => GalleryOK'
  <2> SUFFICES ASSUME GalleryOK, [GalleryNext]_galleryVars PROVE GalleryOK'
    OBVIOUS
  <2>1. CASE GalleryNext
    BY <2>1, BeginningUploadKeeps, BeginningInsertKeeps, BeginningAlterKeeps,
       BeginningRemoveKeeps, InsertingKeeps, AlteringKeeps, RemovingKeeps DEF GalleryNext
  <2>2. CASE UNCHANGED galleryVars
    <3>1. image' = image /\ touch' = touch /\ blurred' = blurred
      BY <2>2 DEF galleryVars
    <3>2. GalleryTypeOK' /\ BornApart'
      BY <3>1 DEF GalleryOK, GalleryTypeOK, BornApart, There
    <3>3. \A p \in Pictured \ blurred' : ImagesOf(p)' # {} => HasMain(p)'
      BY <3>1 DEF GalleryOK, HasMain, ImagesOf
    <3>4. \A x \in Artists : TouchFits(x)'
      BY <3>1 DEF GalleryOK, TouchFits, ImagesOf
    <3> QED BY <3>1, <3>2, <3>3, <3>4 DEF GalleryOK
  <2> QED BY <2>1, <2>2
<1>3. GalleryOK => GalleryTypeOK /\ OneMainImage
  <2> SUFFICES ASSUME GalleryOK, NEW p \in Pictured \ blurred, ImagesOf(p) # {}
               PROVE  Cardinality({i \in ImagesOf(p) : image[i].primary}) = 1
    BY DEF GalleryOK, OneMainImage
  <2>1. PICK m \in ImagesOf(p) : \A j \in ImagesOf(p) : image[j].primary <=> j = m
    BY DEF GalleryOK, HasMain
  <2>2. {i \in ImagesOf(p) : image[i].primary} = {m}
    BY <2>1
  <2> QED BY <2>2, FS_Singleton
<1> QED BY <1>1, <1>2, <1>3, PTL DEF GallerySpec

-------------------------------------------------------------------------------
(* The catalog: any number of editors, products and sizes of a page.       *)

\* A body that leaves nothing out.
WholeBody ==
  [slug : STRING, sku : STRING, price : Nat, compareAt : Nat, stock : Nat,
   status : Statuses, category : Categories \cup {"none"}]

\* A new product is its creator's alone; an update that nobody wrote past still
\* leaves the comparison price above the price.
EditFits(e) ==
  LET q == edit[e] IN
  /\ q.pc = "idle" => q.of = NoProduct
  /\ q.pc # "idle" => q.of \in Products /\ q.fields \in ProductBody
  /\ q.pc = "create" =>
       /\ product[q.of] = NoRow /\ q.fields \in WholeBody
       /\ CompareAtIsValid(q.fields.price, q.fields.compareAt)
       /\ \A o \in Editors : edit[o].of = q.of => o = e
  /\ q.pc = "update" =>
       /\ product[q.of] # NoRow
       /\ q.of \notin mixed =>
            CompareAtIsValid(Given(q.fields.price, product[q.of].price),
                             Given(q.fields.compareAt, product[q.of].compareAt))

\* Products are told apart by their age, and the next one is newer than all.
NewestLast ==
  /\ \A p \in Listed : product[p].born < Cardinality(Listed)
  /\ \A p, q \in Listed : product[p].born = product[q].born => p = q

CatalogOK ==
  /\ CatalogTypeOK
  /\ \A e \in Editors : EditFits(e)
  /\ NewestLast
  /\ PromotionIsLower

\* The invariant holds of an empty catalog.
LEMMA CatalogStarts == CatalogInit => CatalogOK
<1> SUFFICES ASSUME CatalogInit PROVE CatalogOK
  OBVIOUS
<1> USE CatalogAssumption DEF CatalogAssumption
<1>1. CatalogTypeOK
  BY DEF CatalogInit, CatalogTypeOK, NoCategory, NoEdit
<1>2. Listed = {}
  BY DEF CatalogInit, Listed
<1>3. \A e \in Editors : EditFits(e)
  BY DEF CatalogInit, EditFits, NoEdit
<1> QED BY <1>1, <1>2, <1>3 DEF CatalogOK, NewestLast, PromotionIsLower

\* Categories change no product, so no price.
LEMMA CategoriesKeep ==
  ASSUME CatalogOK, NEW g \in Categories, NEW row,
         row \in [slug : CategorySlugs \cup {"none"}, status : {"none", "ACTIVE", "INACTIVE"}],
         WriteCategory(g, row)
  PROVE  CatalogOK'
<1>1. UNCHANGED <<product, edit, mixed>> /\ category' = [category EXCEPT ![g] = row]
  BY DEF WriteCategory
<1>2. CatalogTypeOK'
  BY <1>1 DEF CatalogOK, CatalogTypeOK
<1>3. Listed' = Listed
  BY <1>1 DEF Listed
<1>4. \A e \in Editors : EditFits(e)'
  BY <1>1 DEF CatalogOK, EditFits
<1> QED BY <1>1, <1>2, <1>3, <1>4 DEF CatalogOK, NewestLast, PromotionIsLower

\* A request that begins fits what it has read.
LEMMA EditingKeeps ==
  ASSUME CatalogOK, NEW e \in Editors, NEW p \in Products, NEW pc \in {"create", "update"},
         NEW fields \in ProductBody,
         EditAt(e, "idle"), UNCHANGED <<product, category, mixed>>,
         EditGoes(e, [pc |-> pc, of |-> p, fields |-> fields]),
         pc = "create" =>
           /\ product[p] = NoRow /\ fields \in WholeBody
           /\ CompareAtIsValid(fields.price, fields.compareAt)
           /\ \A o \in Editors : edit[o].of # p,
         pc = "update" =>
           /\ product[p] # NoRow
           /\ p \notin mixed =>
                CompareAtIsValid(Given(fields.price, product[p].price),
                                 Given(fields.compareAt, product[p].compareAt))
  PROVE  CatalogOK'
<1> USE CatalogAssumption DEF CatalogAssumption
<1>1. PICK next : next = [pc |-> pc, of |-> p, fields |-> fields]
  OBVIOUS
<1>2. edit' = [edit EXCEPT ![e] = next] /\ DOMAIN edit = Editors
  BY <1>1 DEF EditGoes, CatalogOK, CatalogTypeOK
<1>3. CatalogTypeOK'
  BY <1>1, <1>2 DEF CatalogOK, CatalogTypeOK
<1>4. Listed' = Listed
  BY DEF Listed
<1>5. edit'[e].pc = pc /\ edit'[e].of = p /\ edit'[e].fields = fields
  BY <1>1, <1>2
<1>6. \A o \in Editors \ {e} : edit'[o] = edit[o]
  BY <1>2
<1>7. EditFits(e)'
  <2>1. pc = "create" => \A o \in Editors : edit'[o].of = p => o = e
    BY <1>6
  <2> QED BY <1>5, <2>1 DEF EditFits
<1>8. ASSUME NEW x \in Editors \ {e} PROVE EditFits(x)'
  <2>1. EditFits(x) /\ edit'[x] = edit[x]
    BY <1>6 DEF CatalogOK
  <2>2. edit[x].pc = "create" => edit[x].of # p
    BY <2>1 DEF EditFits
  <2>3. edit[x].pc = "create" => \A o \in Editors : edit'[o].of = edit[x].of => o = x
    BY <1>5, <1>6, <2>1, <2>2 DEF EditFits
  <2> QED BY <2>1, <2>3 DEF EditFits
<1> QED BY <1>3, <1>4, <1>7, <1>8 DEF CatalogOK, NewestLast, PromotionIsLower

\* The stock turns a status into a status.
LEMMA NormalizedIsStatus ==
  ASSUME NEW status \in Statuses, NEW stock
  PROVE  NormalizedStatus(status, stock) \in Statuses
BY DEF NormalizedStatus, Statuses

\* An edit that begins, as one record.
LEMMA EditRecord ==
  ASSUME NEW pc, NEW p, NEW fields
  PROVE  [NoEdit EXCEPT !.pc = pc, !.of = p, !.fields = fields]
           = [pc |-> pc, of |-> p, fields |-> fields]
<1>1. PICK next : next = [NoEdit EXCEPT !.pc = pc, !.of = p, !.fields = fields]
  OBVIOUS
<1>2. next = [pc |-> pc, of |-> p, fields |-> fields]
  BY <1>1 DEF NoEdit
<1> QED BY <1>1, <1>2

\* A creation has its input checked.
LEMMA CreatingProductKeeps ==
  ASSUME CatalogOK, NEW e \in Editors, NEW p \in Products, NEW input \in ProductInputs,
         BeginCreateProduct(e, p, input)
  PROVE  CatalogOK'
<1> USE CatalogAssumption DEF CatalogAssumption
<1>1. input \in ProductBody /\ Keep \notin Statuses
  OBVIOUS
<1>2. input \in WholeBody
  <2>1. DOMAIN input = {"slug", "sku", "price", "compareAt", "stock", "status", "category"}
    BY <1>1 DEF ProductBody
  <2>2. \A f \in {"slug", "sku", "price", "compareAt", "stock", "status", "category"} :
          input[f] # Keep
    BY <2>1 DEF BeginCreateProduct
  <2>3. /\ input.slug # Keep /\ input.sku # Keep /\ input.price # Keep
        /\ input.compareAt # Keep /\ input.stock # Keep /\ input.status # Keep
        /\ input.category # Keep
    BY <2>2
  <2> QED BY <1>1, <2>3 DEF ProductBody, WholeBody
<1>3. PICK status : status = NormalizedStatus(input.status, input.stock)
  OBVIOUS
<1>4. status \in Statuses
  BY <1>2, <1>3, NormalizedIsStatus DEF WholeBody
<1>5. PICK fields : fields = [input EXCEPT !.status = status]
  OBVIOUS
<1>6. /\ fields \in WholeBody /\ fields \in ProductBody
      /\ fields.price = input.price /\ fields.compareAt = input.compareAt
  <2>1. WholeBody \subseteq ProductBody
    BY DEF WholeBody, ProductBody
  <2>2. /\ fields \in WholeBody
        /\ fields.price = input.price /\ fields.compareAt = input.compareAt
    BY <1>2, <1>4, <1>5 DEF WholeBody
  <2> QED BY <2>1, <2>2
<1>7. EditGoes(e, [pc |-> "create", of |-> p, fields |-> fields])
  <2>1. EditGoes(e, [NoEdit EXCEPT !.pc = "create", !.of = p, !.fields = fields])
    BY <1>3, <1>5 DEF BeginCreateProduct
  <2>2. [NoEdit EXCEPT !.pc = "create", !.of = p, !.fields = fields]
          = [pc |-> "create", of |-> p, fields |-> fields]
    BY EditRecord
  <2> QED BY <2>1, <2>2
<1>8. /\ EditAt(e, "idle") /\ UNCHANGED <<product, category, mixed>>
      /\ product[p] = NoRow /\ \A o \in Editors : edit[o].of # p
      /\ CompareAtIsValid(input.price, input.compareAt)
  BY DEF BeginCreateProduct
<1> QED BY <1>6, <1>7, <1>8, EditingKeeps

\* An update has its input checked against the row it read.
LEMMA UpdatingProductKeeps ==
  ASSUME CatalogOK, NEW e \in Editors, NEW p \in Products, NEW input \in ProductInputs,
         BeginUpdateProduct(e, p, input)
  PROVE  CatalogOK'
<1> USE CatalogAssumption DEF CatalogAssumption
<1>1. PICK row : row = product[p]
  OBVIOUS
<1>2. input \in ProductBody /\ row \in ProductRow /\ Keep \notin Statuses
  <2>1. product[p] \in ProductRow \cup {NoRow} /\ product[p] # NoRow
    BY DEF BeginUpdateProduct, CatalogOK, CatalogTypeOK
  <2> QED BY <1>1, <2>1
<1>3. PICK compareAt : compareAt = Given(input.compareAt, row.compareAt)
  OBVIOUS
<1>4. PICK status : status = NormalizedStatus(Given(input.status, row.status),
                                              Given(input.stock, row.stock))
  OBVIOUS
<1>5. status \in Statuses /\ compareAt \in Nat
  <2>1. Given(input.status, row.status) \in Statuses
    BY <1>2 DEF Given, ProductBody, ProductRow
  <2> QED BY <1>2, <1>3, <1>4, <2>1, NormalizedIsStatus DEF Given, ProductBody, ProductRow
<1>6. PICK fields : fields = [input EXCEPT !.compareAt = compareAt, !.status = status]
  OBVIOUS
<1>7. fields \in ProductBody /\ fields.price = input.price /\ fields.compareAt = compareAt
  BY <1>2, <1>5, <1>6 DEF ProductBody
<1>8. EditGoes(e, [pc |-> "update", of |-> p, fields |-> fields])
  <2>1. EditGoes(e, [NoEdit EXCEPT !.pc = "update", !.of = p, !.fields = fields])
    BY <1>1, <1>3, <1>4, <1>6 DEF BeginUpdateProduct
  <2>2. [NoEdit EXCEPT !.pc = "update", !.of = p, !.fields = fields]
          = [pc |-> "update", of |-> p, fields |-> fields]
    BY EditRecord
  <2> QED BY <2>1, <2>2
<1>9. /\ EditAt(e, "idle") /\ UNCHANGED <<product, category, mixed>> /\ product[p] # NoRow
      /\ CompareAtIsValid(Given(input.price, row.price), compareAt)
  BY <1>1, <1>3 DEF BeginUpdateProduct
<1>10. CompareAtIsValid(Given(fields.price, product[p].price),
                        Given(fields.compareAt, product[p].compareAt))
  <2>1. Given(fields.compareAt, product[p].compareAt) = compareAt
    BY <1>5, <1>7 DEF Given
  <2> QED BY <1>1, <1>7, <1>9, <2>1
<1> QED BY <1>7, <1>8, <1>9, <1>10, EditingKeeps

\* A change of status writes the status alone.
LEMMA SettingProductStatusKeeps ==
  ASSUME CatalogOK, NEW e \in Editors, NEW p \in Products,
         NEW status \in {"ACTIVE", "INACTIVE", "ARCHIVED"}, BeginSetStatus(e, p, status)
  PROVE  CatalogOK'
<1> USE CatalogAssumption DEF CatalogAssumption
<1>1. PICK new : new = NormalizedStatus(status, product[p].stock)
  OBVIOUS
<1>2. new \in Statuses
  BY <1>1, NormalizedIsStatus DEF Statuses
<1>3. PICK fields : fields = [slug |-> Keep, sku |-> Keep, price |-> Keep, compareAt |-> Keep,
                              stock |-> Keep, category |-> Keep, status |-> new]
  OBVIOUS
<1>4. fields \in ProductBody /\ fields.price = Keep /\ fields.compareAt = Keep
  BY <1>2, <1>3 DEF ProductBody
<1>5. EditGoes(e, [pc |-> "update", of |-> p, fields |-> fields])
  <2>1. EditGoes(e, [NoEdit EXCEPT !.pc = "update", !.of = p, !.fields = fields])
    BY <1>1, <1>3 DEF BeginSetStatus
  <2>2. [NoEdit EXCEPT !.pc = "update", !.of = p, !.fields = fields]
          = [pc |-> "update", of |-> p, fields |-> fields]
    BY EditRecord
  <2> QED BY <2>1, <2>2
<1>6. EditAt(e, "idle") /\ UNCHANGED <<product, category, mixed>> /\ product[p] # NoRow
  BY DEF BeginSetStatus
<1>7. p \notin mixed => CompareAtIsValid(Given(fields.price, product[p].price),
                                         Given(fields.compareAt, product[p].compareAt))
  BY <1>4, <1>6 DEF CatalogOK, PromotionIsLower, Listed, Given
<1> QED BY <1>4, <1>5, <1>6, <1>7, EditingKeeps

\* The write of what was checked; the row may have changed since (mixed).
LEMMA WritingProductKeeps ==
  ASSUME CatalogOK, NEW e \in Editors, WriteProduct(e)
  PROVE  CatalogOK'
<1> USE CatalogAssumption DEF CatalogAssumption
<1>1. PICK q : q = edit[e]
  OBVIOUS
<1>2. PICK p, fields : p = q.of /\ fields = q.fields
  OBVIOUS
<1>3. PICK born : born = Cardinality(Listed)
  OBVIOUS
<1>4. /\ EditFits(e) /\ q.pc \in {"create", "update"}
      /\ p \in Products /\ fields \in ProductBody
  BY <1>1, <1>2 DEF WriteProduct, CatalogOK, EditFits
<1>5. edit' = [edit EXCEPT ![e] = NoEdit] /\ category' = category /\ DOMAIN edit = Editors
  BY DEF WriteProduct, EditGoes, CatalogOK, CatalogTypeOK
<1>6. /\ edit'[e] = NoEdit
      /\ \A o \in Editors \ {e} : edit'[o] = edit[o]
  BY <1>5
<1>7. NoEdit.pc = "idle" /\ NoEdit.of = NoProduct
      /\ edit' \in [Editors -> [pc : {"idle", "create", "update"}, of : Products \cup {NoProduct},
                                fields : ProductBody \cup {NoRow}]]
  BY <1>5 DEF NoEdit, CatalogOK, CatalogTypeOK
<1>8. EditFits(e)'
  BY <1>4, <1>6, <1>7 DEF EditFits
<1>9. CASE UNCHANGED <<product, mixed>>
  <2>1. CatalogTypeOK'
    BY <1>5, <1>7, <1>9 DEF CatalogOK, CatalogTypeOK
  <2>2. Listed' = Listed
    BY <1>9 DEF Listed
  <2>3. ASSUME NEW x \in Editors \ {e} PROVE EditFits(x)'
    <3>1. EditFits(x) /\ edit'[x] = edit[x]
      BY <1>6 DEF CatalogOK
    <3>2. edit[x].pc = "create" => \A o \in Editors : edit'[o].of = edit[x].of => o = x
      BY <1>6, <1>7, <3>1 DEF EditFits
    <3> QED BY <1>9, <3>1, <3>2 DEF EditFits
  <2> QED BY <1>8, <1>9, <2>1, <2>2, <2>3 DEF CatalogOK, NewestLast, PromotionIsLower
<1>10. CASE ~UNCHANGED <<product, mixed>>
  <2> DEFINE new == [f \in DOMAIN fields \cup {"born"} |-> IF f = "born" THEN born ELSE fields[f]]
             others == {o \in Editors \ {e} : edit[o].of = p /\ EditAt(o, "update")}
  <2>1. PICK row : row = IF q.pc = "create" THEN new ELSE Merged(product[p], fields)
    OBVIOUS
  <2>2. /\ product' = [product EXCEPT ![p] = row]
        /\ mixed' = IF others # {} THEN mixed \cup {p} ELSE mixed
    BY <1>1, <1>2, <1>3, <1>10, <2>1 DEF WriteProduct, EditAt
  <2>3. born \in Nat /\ IsFiniteSet(Listed)
    <3>1. Listed \in SUBSET Products
      BY DEF Listed
    <3> QED BY <1>3, <3>1, FS_Subset, FS_CardinalityType
  <2>4. CASE q.pc = "create"
    <3>1. /\ product[p] = NoRow /\ fields \in WholeBody
          /\ CompareAtIsValid(fields.price, fields.compareAt)
          /\ \A o \in Editors : edit[o].of = p => o = e
      BY <1>1, <1>2, <1>4, <2>4 DEF EditFits
    <3>2. row = new
      BY <2>1, <2>4
    <3>3. /\ row \in ProductRow /\ row.price = fields.price /\ row.compareAt = fields.compareAt
          /\ row.born = born
      BY <2>3, <3>1, <3>2 DEF WholeBody, ProductRow
    <3>4. mixed' = mixed
      BY <2>2, <3>1
    <3>5. /\ product'[p] = row
          /\ \A r \in Products \ {p} : product'[r] = product[r]
          /\ product' \in [Products -> ProductRow \cup {NoRow}]
      BY <1>4, <2>2, <3>3 DEF CatalogOK, CatalogTypeOK
    <3>6. Listed' = Listed \cup {p} /\ p \notin Listed
      BY <1>4, <3>1, <3>3, <3>5 DEF Listed
    <3>7. Cardinality(Listed') = born + 1
      BY <1>3, <2>3, <3>6, FS_AddElement
    <3>8. \A r \in Listed : product[r].born \in Nat /\ product'[r] = product[r]
      BY <3>5, <3>6 DEF Listed, CatalogOK, CatalogTypeOK, ProductRow
    <3>9. NewestLast'
      <4>1. /\ \A r \in Listed : product[r].born < born
            /\ \A r, s \in Listed : product[r].born = product[s].born => r = s
        BY <1>3 DEF CatalogOK, NewestLast
      <4>2. \A r \in Listed \cup {p} : product'[r].born < born + 1
        BY <2>3, <3>3, <3>5, <3>8, <4>1
      <4>3. \A r, s \in Listed \cup {p} : product'[r].born = product'[s].born => r = s
        BY <2>3, <3>3, <3>5, <3>8, <4>1
      <4> QED BY <3>6, <3>7, <4>2, <4>3 DEF NewestLast
    <3>10. PromotionIsLower'
      BY <3>1, <3>3, <3>4, <3>5, <3>6, <3>8 DEF CatalogOK, PromotionIsLower
    <3>11. ASSUME NEW x \in Editors \ {e} PROVE EditFits(x)'
      <4>1. EditFits(x) /\ edit'[x] = edit[x] /\ edit[x].of # p
        BY <1>6, <3>1 DEF CatalogOK
      <4>2. edit[x].pc = "create" => \A o \in Editors : edit'[o].of = edit[x].of => o = x
        BY <1>6, <1>7, <4>1 DEF EditFits
      <4>3. edit[x].pc # "idle" => product'[edit[x].of] = product[edit[x].of]
        BY <3>5, <4>1 DEF EditFits
      <4>4. edit[x].pc \in {"idle", "create", "update"}
        BY DEF CatalogOK, CatalogTypeOK
      <4> QED BY <3>4, <4>1, <4>2, <4>3, <4>4 DEF EditFits
    <3>12. CatalogTypeOK'
      BY <1>5, <1>7, <3>4, <3>5 DEF CatalogOK, CatalogTypeOK
    <3> QED BY <1>8, <3>9, <3>10, <3>11, <3>12 DEF CatalogOK
  <2>5. CASE q.pc = "update"
    <3>1. PICK old : old = product[p]
      OBVIOUS
    <3>2. /\ old \in ProductRow /\ p \in Listed
          /\ p \notin mixed => CompareAtIsValid(Given(fields.price, old.price),
                                                Given(fields.compareAt, old.compareAt))
      BY <1>1, <1>2, <1>4, <2>5, <3>1 DEF EditFits, Listed, CatalogOK, CatalogTypeOK
    <3>3. row = [f \in DOMAIN old |-> IF f = "born" THEN old.born ELSE Given(fields[f], old[f])]
      BY <2>1, <2>5, <3>1 DEF Merged
    <3>4. row = [slug |-> Given(fields.slug, old.slug), sku |-> Given(fields.sku, old.sku),
                 price |-> Given(fields.price, old.price),
                 compareAt |-> Given(fields.compareAt, old.compareAt),
                 stock |-> Given(fields.stock, old.stock),
                 status |-> Given(fields.status, old.status),
                 category |-> Given(fields.category, old.category), born |-> old.born]
      BY <3>2, <3>3 DEF ProductRow
    <3>5. row \in ProductRow
      <4>1. /\ Given(fields.slug, old.slug) \in STRING /\ Given(fields.sku, old.sku) \in STRING
            /\ Given(fields.price, old.price) \in Nat
            /\ Given(fields.compareAt, old.compareAt) \in Nat
            /\ Given(fields.stock, old.stock) \in Nat
            /\ Given(fields.status, old.status) \in Statuses
            /\ Given(fields.category, old.category) \in Categories \cup {"none"}
            /\ old.born \in Nat
        BY <1>4, <3>2 DEF Given, ProductBody, ProductRow
      <4> QED BY <3>4, <4>1 DEF ProductRow
    <3>6. /\ row.price = Given(fields.price, old.price)
          /\ row.compareAt = Given(fields.compareAt, old.compareAt)
          /\ row.born = old.born
      BY <3>4
    <3>7. /\ product'[p] = row
          /\ \A r \in Products \ {p} : product'[r] = product[r]
          /\ product' \in [Products -> ProductRow \cup {NoRow}]
      BY <1>4, <2>2, <3>5 DEF CatalogOK, CatalogTypeOK
    <3>8. Listed' = Listed
      BY <1>4, <3>2, <3>5, <3>7 DEF Listed
    <3>9. NewestLast'
      <4>1. \A r \in Listed : product'[r].born = product[r].born
        BY <3>1, <3>6, <3>7 DEF Listed
      <4> QED BY <3>8, <4>1 DEF CatalogOK, NewestLast
    <3>10. mixed \subseteq mixed' /\ mixed' \subseteq Products
      BY <1>4, <2>2 DEF CatalogOK, CatalogTypeOK
    <3>11. PromotionIsLower'
      <4> SUFFICES ASSUME NEW r \in Listed \ mixed'
                   PROVE  CompareAtIsValid(product'[r].price, product'[r].compareAt)
        BY <3>8 DEF PromotionIsLower
      <4>1. CASE r = p
        BY <3>2, <3>6, <3>7, <3>10, <4>1
      <4>2. CASE r # p
        BY <3>7, <3>10, <4>2 DEF CatalogOK, PromotionIsLower, Listed
      <4> QED BY <4>1, <4>2
    <3>12. ASSUME NEW x \in Editors \ {e} PROVE EditFits(x)'
      <4>1. EditFits(x) /\ edit'[x] = edit[x] /\ edit[x].pc \in {"idle", "create", "update"}
        BY <1>6 DEF CatalogOK, CatalogTypeOK
      <4>2. edit[x].pc = "create" => edit[x].of # p
        BY <1>1, <1>2, <4>1 DEF EditFits
      <4>3. edit[x].pc = "create" => \A o \in Editors : edit'[o].of = edit[x].of => o = x
        BY <1>6, <1>7, <4>1 DEF EditFits
      <4>4. edit[x].pc = "update" /\ edit[x].of = p => p \in mixed'
        BY <2>2 DEF EditAt
      <4>5. edit[x].pc # "idle" /\ edit[x].of # p =>
              product'[edit[x].of] = product[edit[x].of]
        BY <3>7, <4>1 DEF EditFits
      <4>6. row # NoRow
        BY <3>5
      <4> QED BY <3>7, <3>10, <4>1, <4>2, <4>3, <4>4, <4>5, <4>6 DEF EditFits
    <3>13. CatalogTypeOK'
      BY <1>5, <1>7, <3>7, <3>10 DEF CatalogOK, CatalogTypeOK
    <3> QED BY <1>8, <3>9, <3>11, <3>12, <3>13 DEF CatalogOK
  <2> QED BY <1>4, <2>4, <2>5
<1> QED BY <1>9, <1>10

-------------------------------------------------------------------------------
(* The pages of a listing, for every size of a page. *)

\* Dividing, as the numbers of pages do.
LEMMA Dividing ==
  ASSUME NEW a \in Nat, NEW d \in Nat \ {0}
  PROVE  /\ a \div d \in Nat
         /\ (a \div d) * d <= a /\ a < (a \div d) * d + d
OBVIOUS

\* Multiples of a page are a page apart.
LEMMA Times ==
  ASSUME NEW a \in Nat, NEW b \in Nat, NEW d \in Nat \ {0}, a < b
  PROVE  a * d + d <= b * d
OBVIOUS

\* A quotient by its two bounds.
LEMMA QuotientIs ==
  ASSUME NEW a \in Nat, NEW d \in Nat \ {0}, NEW n \in Nat, n * d <= a, a < n * d + d
  PROVE  a \div d = n
OBVIOUS

\* The last place of a listing is on its last page, and no page is empty.
LEMMA LastPage ==
  ASSUME NEW items \in Nat
  PROVE  /\ TotalPages(items) \in Nat
         /\ \A place \in Nat : place < items => place \div PageSize < TotalPages(items)
         /\ \A n \in 1..TotalPages(items) : (n - 1) * PageSize < items
<1> USE CatalogAssumption DEF CatalogAssumption
<1>1. PICK d \in Nat \ {0} : d = PageSize
  OBVIOUS
<1>2. PICK pages : pages = TotalPages(items)
  OBVIOUS
<1>3. items + d - 1 \in Nat /\ pages = (items + d - 1) \div d
  BY <1>1, <1>2 DEF TotalPages
<1>4. pages \in Nat /\ pages * d <= items + d - 1 /\ items + d - 1 < pages * d + d
  BY <1>3, Dividing
<1>5. ASSUME NEW place \in Nat, place < items PROVE place \div d < pages
  <2>1. PICK n \in Nat : n = place \div d /\ n * d <= place /\ place < n * d + d
    BY Dividing
  <2>2. n * d \in Nat /\ pages * d \in Nat
    BY <1>4, <2>1
  <2>3. ~(pages < n) /\ pages # n
    <3>1. CASE pages = n
      BY <1>4, <1>5, <2>1, <2>2, <3>1
    <3>2. CASE pages < n
      <4>1. pages * d + d <= n * d
        BY <1>4, <2>1, <3>2, Times
      <4> QED BY <1>4, <1>5, <2>1, <2>2, <4>1
    <3> QED BY <1>4, <1>5, <2>1, <2>2, <3>1, <3>2
  <2> QED BY <1>4, <2>1, <2>3
<1>6. ASSUME NEW n \in 1..pages PROVE (n - 1) * d < items
  <2>1. n - 1 \in Nat /\ n - 1 < pages
    BY <1>4
  <2>2. (n - 1) * d + d <= pages * d
    BY <1>4, <2>1, Times
  <2>3. (n - 1) * d \in Nat /\ pages * d \in Nat
    BY <1>4, <2>1
  <2> QED BY <1>4, <2>2, <2>3
<1> QED BY <1>1, <1>2, <1>4, <1>5, <1>6

\* The order of a listing leaves no two products at one place.
LEMMA OrderIsTotal ==
  ASSUME CatalogOK, NEW sort
  PROVE  /\ \A p \in Listed : ~Before(sort, p, p)
         /\ \A p, q \in Listed : p = q \/ Before(sort, p, q) \/ Before(sort, q, p)
         /\ \A p, q, r \in Listed : Before(sort, p, q) /\ Before(sort, q, r) => Before(sort, p, r)
<1>1. \A p \in Listed : product[p].price \in Nat /\ product[p].born \in Nat
  BY DEF CatalogOK, CatalogTypeOK, ProductRow, Listed
<1>2. \A p, q \in Listed : product[p].born = product[q].born => p = q
  BY DEF CatalogOK, NewestLast
<1>3. CASE sort = "menor"
  BY <1>1, <1>2, <1>3 DEF Before
<1>4. CASE sort = "maior"
  BY <1>1, <1>2, <1>4 DEF Before
<1>5. CASE sort \notin {"menor", "maior"}
  BY <1>1, <1>2, <1>5 DEF Before
<1> QED BY <1>3, <1>4, <1>5

\* A product's place in a listing: how many come before it.
Place(sort, found) == [p \in found |-> Cardinality({q \in found : Before(sort, q, p)})]

\* Each place below the number of products is one product's.
LEMMA PlacesAreFilled ==
  ASSUME CatalogOK, NEW sort, NEW found, found \subseteq Listed
  PROVE  /\ IsFiniteSet(found) /\ Cardinality(found) \in Nat
         /\ Place(sort, found) \in Bijection(found, 0..Cardinality(found) - 1)
<1> USE CatalogAssumption DEF CatalogAssumption
<1>1. IsFiniteSet(found) /\ Cardinality(found) \in Nat
  <2>1. found \in SUBSET Products
    BY DEF Listed
  <2> QED BY <2>1, FS_Subset, FS_CardinalityType
<1>2. PICK n \in Nat : n = Cardinality(found)
  BY <1>1
<1> DEFINE Earlier(p) == {q \in found : Before(sort, q, p)}
<1>3. \A p \in found : Earlier(p) \in SUBSET (found \ {p})
  BY OrderIsTotal
<1>4. \A p \in found : IsFiniteSet(Earlier(p)) /\ Cardinality(Earlier(p)) \in 0..n - 1
  <2> SUFFICES ASSUME NEW p \in found
               PROVE  IsFiniteSet(Earlier(p)) /\ Cardinality(Earlier(p)) \in 0..n - 1
    OBVIOUS
  <2>1. IsFiniteSet(found \ {p}) /\ Cardinality(found \ {p}) = n - 1
    BY <1>1, <1>2, FS_RemoveElement
  <2>2. Earlier(p) \in SUBSET (found \ {p})
    BY <1>3
  <2> HIDE DEF Earlier
  <2>3. IsFiniteSet(Earlier(p)) /\ Cardinality(Earlier(p)) <= n - 1
    BY <2>1, <2>2, FS_Subset
  <2> QED BY <2>3, FS_CardinalityType
<1>5. ASSUME NEW p \in found, NEW q \in found, Before(sort, p, q)
      PROVE  Cardinality(Earlier(p)) # Cardinality(Earlier(q))
  <2>1. Earlier(p) \in SUBSET Earlier(q)
    BY <1>5, OrderIsTotal
  <2>2. p \in Earlier(q) /\ p \notin Earlier(p)
    BY <1>5, OrderIsTotal
  <2>3. IsFiniteSet(Earlier(q))
    BY <1>4
  <2> HIDE DEF Earlier
  <2> QED BY <2>1, <2>2, <2>3, FS_Subset
<1>6. PICK f : f = [p \in found |-> Cardinality(Earlier(p))]
  OBVIOUS
<1>7. f = Place(sort, found)
  BY <1>6 DEF Place
<1>8. f \in Injection(found, 0..n - 1)
  <2>1. f \in [found -> 0..n - 1]
    BY <1>4, <1>6
  <2>2. \A p, q \in found : p # q => f[p] # f[q]
    <3> HIDE DEF Earlier
    <3>1. \A p, q \in found : p = q \/ Before(sort, p, q) \/ Before(sort, q, p)
      BY OrderIsTotal
    <3> QED BY <1>5, <1>6, <3>1
  <2> QED BY <2>1, <2>2 DEF Injection, IsInjective
<1>9. IsFiniteSet(0..n - 1) /\ Cardinality(0..n - 1) = n
  <2>1. 0 \in Int /\ n - 1 \in Int
    OBVIOUS
  <2>2. IsFiniteSet(0..n - 1) /\ Cardinality(0..n - 1) = IF 0 > n - 1 THEN 0 ELSE n - 1 - 0 + 1
    BY <2>1, FS_Interval
  <2> QED BY <2>2
<1>10. f \in Surjection(found, 0..n - 1)
  BY <1>2, <1>8, <1>9, FS_Injection
<1> QED BY <1>1, <1>2, <1>7, <1>8, <1>10 DEF Bijection

\* The pages of any listing hold all of it, and no product twice.
LEMMA PagesCover == CatalogOK => PagesCoverTheListing
<1> SUFFICES ASSUME CatalogOK, NEW sort \in {"relevancia", "menor", "maior"},
                    NEW g \in PublicCategories \cup {"none"}, NEW collection \in {"none", "sale"},
                    NEW found, found = PublicProducts(g, collection),
                    NEW pages, pages = TotalPages(Cardinality(found))
             PROVE  /\ found = UNION {PageOf(sort, found, n) : n \in 1..pages}
                    /\ \A n \in 1..pages :
                         /\ Cardinality(PageOf(sort, found, n)) \in 1..PageSize
                         /\ \A m \in 1..(n - 1) :
                              PageOf(sort, found, n) \cap PageOf(sort, found, m) = {}
                    /\ PageOf(sort, found, pages + 1) = PageOf(sort, found, pages)
                    /\ \A n \in 1..pages :
                         /\ NextPage(n, pages) = ClampedPage(n + 1, pages)
                         /\ n > 1 => NextPage(PreviousPage(n), pages) = n
                    /\ \A p \in found : ProductPage(p).shown /\ ProductPage(p).canAdd
  BY DEF PagesCoverTheListing
<1> USE CatalogAssumption DEF CatalogAssumption
<1>1. found \subseteq Listed
  BY DEF PublicProducts
<1>2. PICK items \in Nat : items = Cardinality(found)
  BY <1>1, PlacesAreFilled
<1>3. PICK place : place = Place(sort, found)
  OBVIOUS
<1>4. place \in Bijection(found, 0..items - 1)
  BY <1>1, <1>2, <1>3, PlacesAreFilled
<1>5. /\ place \in [found -> 0..items - 1]
      /\ \A p, q \in found : place[p] = place[q] => p = q
      /\ \A k \in 0..items - 1 : \E p \in found : place[p] = k
  BY <1>4 DEF Bijection, Injection, IsInjective, Surjection
<1>6. /\ pages \in Nat
      /\ \A k \in Nat : k < items => k \div PageSize < pages
      /\ \A n \in 1..pages : (n - 1) * PageSize < items
  BY <1>2, LastPage
<1>7. PICK d \in Nat \ {0} : d = PageSize
  OBVIOUS
<1>8. \A n \in 1..pages : PageOf(sort, found, n) = {p \in found : place[p] \div d = n - 1}
  <2> SUFFICES ASSUME NEW n \in 1..pages
               PROVE  PageOf(sort, found, n) = {p \in found : place[p] \div d = n - 1}
    OBVIOUS
  <2>1. ClampedPage(n, pages) = n
    BY <1>6 DEF ClampedPage
  <2>2. \A p \in found : place[p] = Cardinality({q \in found : Before(sort, q, p)})
    BY <1>3 DEF Place
  <2> QED BY <1>7, <2>1, <2>2 DEF PageOf
<1>9. \A p \in found : place[p] \in Nat /\ place[p] < items
                       /\ place[p] \div d \in Nat /\ place[p] \div d < pages
  <2> SUFFICES ASSUME NEW p \in found
               PROVE  place[p] \in Nat /\ place[p] < items
                      /\ place[p] \div d \in Nat /\ place[p] \div d < pages
    OBVIOUS
  <2>1. place[p] \in Nat /\ place[p] < items
    BY <1>5
  <2> QED BY <1>6, <1>7, <2>1, Dividing
<1>10. found = UNION {PageOf(sort, found, n) : n \in 1..pages}
  <2>1. ASSUME NEW p \in found PROVE \E n \in 1..pages : p \in PageOf(sort, found, n)
    <3>1. PICK n : n = place[p] \div d + 1
      OBVIOUS
    <3>2. n \in 1..pages /\ place[p] \div d = n - 1
      BY <1>6, <1>9, <3>1
    <3> QED BY <1>8, <3>2
  <2>2. \A n \in 1..pages : PageOf(sort, found, n) \subseteq found
    BY DEF PageOf
  <2> QED BY <2>1, <2>2
<1>11. ASSUME NEW n \in 1..pages PROVE Cardinality(PageOf(sort, found, n)) \in 1..d
  <2>1. PICK page : page = PageOf(sort, found, n)
    OBVIOUS
  <2>2. page = {p \in found : place[p] \div d = n - 1}
    BY <1>8, <2>1
  <2>3. PICK first \in Nat : first = (n - 1) * d
    BY <1>6
  <2>4. first < items
    BY <1>6, <1>7, <2>3
  <2>5. page # {}
    <3>1. first \div d = n - 1
      BY <1>6, <2>3, QuotientIs
    <3>2. PICK p \in found : place[p] = first
      BY <1>5, <2>3, <2>4
    <3> QED BY <2>2, <3>1, <3>2
  <2>6. IsFiniteSet(page)
    BY <1>1, <2>2, PlacesAreFilled, FS_Subset
  <2>7. PICK f : f = [p \in page |-> place[p]]
    OBVIOUS
  <2>8. f \in Injection(page, first..first + d - 1)
    <3>1. ASSUME NEW p \in page PROVE place[p] \in first..first + d - 1
      <4>1. place[p] \in Nat /\ place[p] \div d = n - 1
        BY <1>9, <2>2
      <4>2. (n - 1) * d <= place[p] /\ place[p] < (n - 1) * d + d
        BY <4>1, Dividing
      <4> QED BY <2>3, <4>1, <4>2
    <3>2. \A p, q \in page : place[p] = place[q] => p = q
      BY <1>5, <2>2
    <3> QED BY <2>7, <3>1, <3>2 DEF Injection, IsInjective
  <2>9. IsFiniteSet(first..first + d - 1) /\ Cardinality(first..first + d - 1) = d
    BY <2>3, FS_Interval
  <2>10. Cardinality(page) <= d
    BY <2>8, <2>9, FS_Injection
  <2>11. Cardinality(page) \in Nat /\ Cardinality(page) # 0
    BY <2>5, <2>6, FS_CardinalityType, FS_EmptySet
  <2> QED BY <2>1, <2>10, <2>11
<1>12. ASSUME NEW n \in 1..pages, NEW m \in 1..(n - 1)
       PROVE  PageOf(sort, found, n) \cap PageOf(sort, found, m) = {}
  <2>1. m \in 1..pages /\ m - 1 # n - 1
    BY <1>6
  <2> QED BY <1>8, <2>1
<1>13. PageOf(sort, found, pages + 1) = PageOf(sort, found, pages)
  <2>1. ClampedPage(pages + 1, pages) = ClampedPage(pages, pages)
    BY <1>6 DEF ClampedPage
  <2> QED BY <2>1 DEF PageOf
<1>14. ASSUME NEW n \in 1..pages
       PROVE  /\ NextPage(n, pages) = ClampedPage(n + 1, pages)
              /\ n > 1 => NextPage(PreviousPage(n), pages) = n
  BY <1>6 DEF NextPage, ClampedPage, PreviousPage, AskedPage
<1>15. \A p \in found : ProductPage(p).shown /\ ProductPage(p).canAdd
  BY <1>1 DEF PublicProducts, ProductPage
<1> QED BY <1>7, <1>10, <1>11, <1>12, <1>13, <1>14, <1>15

\* For any products, sizes of a page and overlapping edits.
LEMMA CatalogAlways == CatalogSpec => [](CatalogTypeOK /\ PromotionIsLower /\ PagesCoverTheListing)
<1>1. CatalogInit => CatalogOK
  BY CatalogStarts
<1>2. CatalogOK /\ [CatalogNext]_catalogVars => CatalogOK'
  <2> SUFFICES ASSUME CatalogOK, [CatalogNext]_catalogVars PROVE CatalogOK'
    OBVIOUS
  <2>1. ASSUME NEW g \in Categories, NEW slug \in CategorySlugs, CreateCategory(g, slug)
        PROVE  CatalogOK'
    BY <2>1, CategoriesKeep DEF CreateCategory
  <2>2. ASSUME NEW g \in Categories, NEW slug \in CategorySlugs,
               NEW status \in {"ACTIVE", "INACTIVE"}, UpdateCategory(g, slug, status)
        PROVE  CatalogOK'
    BY <2>2, CategoriesKeep DEF UpdateCategory
  <2>3. ASSUME NEW g \in Categories, DeactivateCategory(g) PROVE CatalogOK'
    <3>1. PICK row : row = [category[g] EXCEPT !.status = "INACTIVE"]
      OBVIOUS
    <3>2. row \in [slug : CategorySlugs \cup {"none"}, status : {"none", "ACTIVE", "INACTIVE"}]
      BY <3>1 DEF CatalogOK, CatalogTypeOK
    <3> QED BY <2>3, <3>1, <3>2, CategoriesKeep DEF DeactivateCategory
  <2>4. CASE UNCHANGED catalogVars
    <3>1. product' = product /\ category' = category /\ edit' = edit /\ mixed' = mixed
      BY <2>4 DEF catalogVars
    <3>2. Listed' = Listed /\ CatalogTypeOK'
      BY <3>1 DEF Listed, CatalogOK, CatalogTypeOK
    <3>3. \A e \in Editors : EditFits(e)'
      BY <3>1 DEF CatalogOK, EditFits
    <3> QED BY <3>1, <3>2, <3>3 DEF CatalogOK, NewestLast, PromotionIsLower
  <2>5. CASE CatalogNext
    BY <2>1, <2>2, <2>3, <2>5, CreatingProductKeeps, UpdatingProductKeeps,
       SettingProductStatusKeeps, WritingProductKeeps DEF CatalogNext
  <2> QED BY <2>4, <2>5
<1>3. CatalogOK => CatalogTypeOK /\ PromotionIsLower /\ PagesCoverTheListing
  BY PagesCover DEF CatalogOK
<1> QED BY <1>1, <1>2, <1>3, PTL DEF CatalogSpec

-------------------------------------------------------------------------------
(* What the shop promises. *)

\* Whatever merchants set and however their requests overlap, a shipping method's
\* row is well formed and its limits are in order.
THEOREM LimitsSafe == ShippingSpec => [](ShippingTypeOK /\ LimitsInOrder)
<1>1. ShippingOK => ShippingTypeOK /\ LimitsInOrder
  BY DEF ShippingOK
<1> QED BY <1>1, ShippingAlways, PTL

\* For any number of tabs, answers and merchants, whatever is lost or comes late,
\* an order is charged the total its shopper was shown, unless another tab, the
\* merchant, or a failed or crossed answer had changed it behind the page.
THEOREM ChargedSafe == StorefrontSpec => [](StorefrontTypeOK /\ ChargedAsShown)
<1> QED BY StorefrontAlways, PTL

\* However answers are lost or overtake one another, the success page shows an
\* order that exists, and its payment intent is of that order.
THEOREM IntentSafe == StorefrontSpec => []SuccessHasIntent
<1> QED BY StorefrontAlways, PTL

\* For any sessions, logins and requests, a shopper finds again the cart filled
\* before, and a page whose requests have ended shows the cart as it is, unless
\* another page or a failed or crossed answer changed it behind the page; a page that
\* has made its order shows the cart it sold.
THEOREM CartsStay == CartSessionsSpec /\ StorefrontSpec => []CartStays
<1> QED BY CartSessionsAlways, StorefrontAlways, PTL DEF CartStays

\* For any products, images, methods and overlapping requests, what merchants write
\* is sound: promotions are below the price they are compared with, the pages of
\* every size cover their listing, products have one main image and limits are in
\* order, but for what two requests wrote at once.
THEOREM OffersSafe == CatalogSpec /\ GallerySpec /\ ShippingSpec => []OffersHold
<1> QED BY CatalogAlways, GalleryAlways, ShippingAlways, LimitsSafe, PTL DEF OffersHold

\* For any products, images, sessions and tabs, and methods the merchant writes
\* meanwhile, what is stored and what the pages hold keeps its type.
THEOREM ShopTypes ==
  CatalogSpec /\ GallerySpec /\ StorefrontSpec /\ CartSessionsSpec => []ShopTypeOK
<1> QED
  BY CatalogAlways, GalleryAlways, StorefrontAlways, CartSessionsAlways, PTL DEF ShopTypeOK
===============================================================================
