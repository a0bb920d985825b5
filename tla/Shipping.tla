-------------------------------- MODULE Shipping --------------------------------
(***************************************************************************)
(* A store's shipping methods as its merchant writes them, the options a   *)
(* cart of some subtotal is offered, and the shipments written by hand.    *)
(***************************************************************************)
EXTENDS Naturals, FiniteSets

CONSTANTS
  Methods,
  MethodInputs,  \* bodies of createShippingMethod and updateShippingMethod
  LeftOut,       \* a field a body leaves out
  NoLimit,       \* a limit that is null
  Merchants,     \* merchants' requests under way at the same time
  Parcels,       \* orders a shipment can be written for
  NoMethod, NoParcel

Limit == Nat \cup {NoLimit}

MethodRow ==
  [status : {"ACTIVE", "INACTIVE"}, price : Nat, daysMin : Limit, daysMax : Limit,
   orderMin : Limit, orderMax : Limit, isDefault : BOOLEAN]

\* What the schemas of the two requests let through.
MethodBody ==
  [status : {"ACTIVE", "INACTIVE", LeftOut}, price : Nat \cup {LeftOut},
   daysMin : Limit \cup {LeftOut}, daysMax : Limit \cup {LeftOut},
   orderMin : Limit \cup {LeftOut}, orderMax : Limit \cup {LeftOut},
   isDefault : BOOLEAN \cup {LeftOut}]

ASSUME ShippingAssumption ==
  /\ NoMethod \notin Methods \cup MethodRow /\ NoParcel \notin Parcels
  /\ MethodInputs \subseteq MethodBody

VARIABLES
  method,    \* ShippingMethod rows, or NoMethod
  parcel,    \* the Shipment row of each order: none, or its method, if any
  desk,      \* per merchant, the request under way
  twisted    \* history: methods written while another request held what it read of them

shippingVars == <<method, parcel, desk, twisted>>

IdleDesk == [pc |-> "idle", of |-> NoMethod, fields |-> NoMethod, parcel |-> NoParcel]
Offered == {m \in Methods : method[m] # NoMethod}

\* Limits in order: both given, the upper is not below the lower.
InOrder(lower, upper) == NoLimit \notin {lower, upper} => lower <= upper

ShippingTypeOK ==
  /\ method \in [Methods -> MethodRow \cup {NoMethod}]
  /\ parcel \in [Parcels -> {"none"} \cup Methods \cup {NoMethod}]
  /\ desk \in [Merchants ->
       [pc : {"idle", "create", "update", "ship"}, of : Methods \cup {NoMethod},
        fields : MethodInputs \cup {NoMethod}, parcel : Parcels \cup {NoParcel}]]
  /\ twisted \subseteq Methods

ShippingInit ==
  /\ method = [m \in Methods |-> NoMethod]
  /\ parcel = [o \in Parcels |-> "none"]
  /\ desk = [c \in Merchants |-> IdleDesk]
  /\ twisted = {}

DeskAt(c, pc) == desk[c].pc = pc
DeskGoes(c, next) == desk' = [desk EXCEPT ![c] = next]

-------------------------------------------------------------------------------
\* assertShippingMethodWindow and assertOrderBand.
LimitsHold(row) == InOrder(row.daysMin, row.daysMax) /\ InOrder(row.orderMin, row.orderMax)

BeginCreateMethod(c, m, input) ==
  /\ DeskAt(c, "idle")
  /\ method[m] = NoMethod /\ \A d \in Merchants : desk[d].of # m
  /\ LeftOut \notin {input[f] : f \in DOMAIN input}
  /\ LimitsHold(input)
  /\ DeskGoes(c, [IdleDesk EXCEPT !.pc = "create", !.of = m, !.fields = input])
  /\ UNCHANGED <<method, parcel, twisted>>

\* A row with the fields a body brings.
Overlaid(row, fields) == [f \in DOMAIN row |-> IF fields[f] = LeftOut THEN row[f] ELSE fields[f]]

\* updateShippingMethod judges the row it read with the body's fields over it,
\* and will write the body's fields only.
BeginUpdateMethod(c, m, input) ==
  /\ DeskAt(c, "idle")
  /\ method[m] # NoMethod
  /\ LimitsHold(Overlaid(method[m], input))
  /\ DeskGoes(c, [IdleDesk EXCEPT !.pc = "update", !.of = m, !.fields = input])
  /\ UNCHANGED <<method, parcel, twisted>>

WriteMethod(c) ==
  LET m == desk[c].of IN
  /\ desk[c].pc \in {"create", "update"}
  /\ method' = [method EXCEPT ![m] =
       IF DeskAt(c, "create") THEN desk[c].fields ELSE Overlaid(@, desk[c].fields)]
  /\ twisted' = IF \E d \in Merchants \ {c} : desk[d].of = m THEN twisted \cup {m} ELSE twisted
  /\ DeskGoes(c, IdleDesk)
  /\ UNCHANGED parcel

\* createShipment finds the order and the method, when one is named, and writes
\* the row; an order has one, by the unique index.
BeginShipment(c, o, m) ==
  /\ DeskAt(c, "idle")
  /\ m \in Offered \cup {NoMethod}
  /\ DeskGoes(c, [IdleDesk EXCEPT !.pc = "ship", !.of = m, !.parcel = o])
  /\ UNCHANGED <<method, parcel, twisted>>

WriteShipment(c) ==
  LET o == desk[c].parcel IN
  /\ DeskAt(c, "ship")
  /\ parcel' = IF parcel[o] = "none" THEN [parcel EXCEPT ![o] = desk[c].of] ELSE parcel
  /\ DeskGoes(c, IdleDesk)
  /\ UNCHANGED <<method, twisted>>

\* resolveShippingOptions: the active methods whose band the subtotal is in.
ShippingOptions(subtotal) ==
  {m \in Offered :
     /\ method[m].status = "ACTIVE"
     /\ method[m].orderMin = NoLimit \/ subtotal >= method[m].orderMin
     /\ method[m].orderMax = NoLimit \/ subtotal <= method[m].orderMax}

ShippingNext ==
  \E c \in Merchants :
    \/ WriteMethod(c) \/ WriteShipment(c)
    \/ \E m \in Methods, input \in MethodInputs :
         BeginCreateMethod(c, m, input) \/ BeginUpdateMethod(c, m, input)
    \/ \E o \in Parcels, m \in Methods \cup {NoMethod} : BeginShipment(c, o, m)

ShippingSpec == ShippingInit /\ [][ShippingNext]_shippingVars

-------------------------------------------------------------------------------
\* A method's limits are in order, unless two requests wrote it at once: each is
\* judged with what the other had not written yet.
LimitsInOrder == \A m \in Offered \ twisted : LimitsHold(method[m])
===============================================================================
