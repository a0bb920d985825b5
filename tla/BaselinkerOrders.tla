---------------------------- MODULE BaselinkerOrders ----------------------------
(***************************************************************************)
(* Orders of one store and Baselinker's: a run, started by the poll or by  *)
(* hand, exports the store's orders or imports Baselinker's, each order by *)
(* a call and then a record of it.  Several runs may be under way, and a   *)
(* shipping label is made of calls of its own.                             *)
(***************************************************************************)
EXTENDS Naturals, FiniteSets

CONSTANTS
  Orders,       \* the store's orders
  RemoteOrders, \* orders at Baselinker, numbered as they are made there
  NoOrder,
  Runs,         \* runs and label requests under way at the same time
  ExportBatch,  \* orders an export takes, 50 in the code
  FirstReach,   \* how far an import reaches back that follows none, 7 days in the code
  LastMoment,   \* bound of the clock
  MostFailures  \* bound of the calls and statements of runs that fail

ASSUME BaselinkerOrdersAssumption ==
  /\ NoOrder \notin Orders
  /\ ExportBatch \in Nat \ {0}
  /\ {FirstReach, LastMoment} \subseteq Nat
  /\ MostFailures \in Nat

VARIABLES
  moment,
  link,      \* the store's configuration
  placed,    \* when each order was placed, if it was
  remote,    \* external: Baselinker's orders
  syncRow,   \* BaselinkerOrderSync, by Baselinker's number
  label,     \* the Baselinker order the shipment's label was made for, if any
  run,
  doubtful,  \* history: orders whose push and record another run or a failure came between
  overlooked, \* history: Baselinker's orders that came, or failed, during an import
  bygone,    \* history: those too old for an import that followed none
  failures   \* history: the calls and statements that failed

baselinkerVars ==
  <<moment, link, placed, remote, syncRow, label, run, doubtful, overlooked,
    bygone, failures>>

Moments == 0..LastMoment

Nowhen == LastMoment + 1

RunRow ==
  [pc : {"idle", "push", "record", "ask", "lookup", "import", "package", "label", "ship"},
   todo : SUBSET (Orders \cup RemoteOrders), order : Orders \cup {NoOrder},
   item : SUBSET RemoteOrders, since : Moments]

NoRun == [pc |-> "idle", todo |-> {}, order |-> NoOrder, item |-> {}, since |-> 0]

Absent == [made |-> FALSE, from |-> NoOrder, at |-> 0]

BaselinkerOrdersTypeOK ==
  /\ moment \in Moments
  /\ link \in [enabled : BOOLEAN, exists : BOOLEAN, importedAt : 0..Nowhen]
  /\ placed \in [Orders -> 0..Nowhen]
  /\ remote \in [RemoteOrders ->
       [made : BOOLEAN, from : Orders \cup {NoOrder}, at : Moments]]
  /\ syncRow \in [RemoteOrders ->
       [direction : {"none", "EXPORT", "IMPORT"}, order : Orders \cup {NoOrder}]]
  /\ label \in [Orders -> SUBSET RemoteOrders]
  /\ run \in [Runs -> RunRow]
  /\ doubtful \subseteq Orders
  /\ overlooked \subseteq RemoteOrders
  /\ bygone \subseteq RemoteOrders
  /\ failures \in 0..MostFailures

NoLink == [enabled |-> FALSE, exists |-> FALSE, importedAt |-> Nowhen]

BaselinkerOrdersInit ==
  /\ moment = 0
  /\ link = NoLink
  /\ placed = [o \in Orders |-> Nowhen]
  /\ remote = [k \in RemoteOrders |-> Absent]
  /\ syncRow = [k \in RemoteOrders |-> [direction |-> "none", order |-> NoOrder]]
  /\ label = [o \in Orders |-> {}]
  /\ run = [r \in Runs |-> NoRun]
  /\ doubtful = {}
  /\ overlooked = {}
  /\ bygone = {}
  /\ failures = 0

RunAt(r, pc) == run[r].pc = pc
RunEnds(r) == run' = [run EXCEPT ![r] = NoRun]

CallFails == failures < MostFailures /\ failures' = failures + 1
CallWorks == UNCHANGED failures

Enabled == link.exists /\ link.enabled

Exported(o) ==
  {k \in RemoteOrders : syncRow[k].direction = "EXPORT" /\ syncRow[k].order = o}

\* Runs that have asked and are still to write.
Importing == {r \in Runs : run[r].pc \in {"lookup", "import"}}

-------------------------------------------------------------------------------
(* Around the runs *)

MomentPasses ==
  /\ moment < LastMoment
  /\ moment' = moment + 1
  /\ UNCHANGED <<link, placed, remote, syncRow, label, run, doubtful, overlooked, bygone, failures>>

PlaceOrder(o) ==
  /\ placed[o] = Nowhen
  /\ placed' = [placed EXCEPT ![o] = moment]
  /\ UNCHANGED <<moment, link, remote, syncRow, label, run, doubtful, overlooked, bygone, failures>>

\* An order of another sales channel arrives at Baselinker.
ArriveAtBaselinker(k) ==
  /\ ~remote[k].made
  /\ remote' = [remote EXCEPT ![k] = [made |-> TRUE, from |-> NoOrder, at |-> moment]]
  /\ overlooked' = IF Importing # {} THEN overlooked \cup {k} ELSE overlooked
  /\ UNCHANGED <<moment, link, placed, syncRow, label, run, doubtful, bygone, failures>>

\* saveConfig keeps the time of the last import, deleteConfig loses it.
SaveConfig(enabled) ==
  /\ link' = [link EXCEPT !.exists = TRUE, !.enabled = enabled]
  /\ link' # link
  /\ UNCHANGED <<moment, placed, remote, syncRow, label, run, doubtful, overlooked, bygone, failures>>

DeleteConfig ==
  /\ link.exists
  /\ link' = NoLink
  /\ UNCHANGED <<moment, placed, remote, syncRow, label, run, doubtful, overlooked, bygone, failures>>

-------------------------------------------------------------------------------
(* exportUnsyncedOrders *)

\* findUnsyncedOrders: placed, and no row of direction EXPORT.
UnsyncedOrders == {o \in Orders : placed[o] # Nowhen /\ Exported(o) = {}}

\* The oldest, as many as a batch has.
OldestBatches(orders) ==
  {batch \in SUBSET orders :
     /\ Cardinality(batch) <= ExportBatch
     /\ Cardinality(batch) < ExportBatch => batch = orders
     /\ \A o \in batch, p \in orders \ batch : placed[o] <= placed[p]}

\* Another run has the order in hand: nothing tells the runs apart.
ExportedByRun(o) ==
  \E s \in Runs : run[s].pc \in {"push", "record"} /\ o \in run[s].todo \cup {run[s].order}

BeginExport(r) ==
  /\ RunAt(r, "idle") /\ Enabled
  /\ \E batch \in OldestBatches(UnsyncedOrders) :
       /\ batch # {}
       /\ run' = [run EXCEPT ![r] = [NoRun EXCEPT !.pc = "push", !.todo = batch]]
       /\ doubtful' = doubtful \cup {o \in batch : ExportedByRun(o)}
  /\ UNCHANGED <<moment, link, placed, remote, syncRow, label, overlooked, bygone, failures>>

\* The export goes on with the next order, or ends.
Onward(r, pc, x) ==
  IF run[r].todo = {x} THEN NoRun
  ELSE [NoRun EXCEPT !.pc = pc, !.todo = run[r].todo \ {x}]

\* pushOrderToBaselinker: Baselinker makes an order and answers its number; the
\* call may fail before or after that.  Baselinker dates it when it was placed.
PushOrder(r) ==
  /\ RunAt(r, "push")
  /\ \E o \in run[r].todo :
       /\ \A p \in run[r].todo : placed[o] <= placed[p]
       /\ \/ \E k \in RemoteOrders :
               /\ CallWorks
               /\ ~remote[k].made
               /\ remote' = [remote EXCEPT ![k] =
                    [made |-> TRUE, from |-> o, at |-> placed[o]]]
               /\ UNCHANGED doubtful
               /\ run' = [run EXCEPT ![r] =
                    [@ EXCEPT !.pc = "record", !.order = o, !.item = {k}]]
          \/ /\ CallFails
             /\ run' = [run EXCEPT ![r] = Onward(r, "push", o)]
             /\ doubtful' = doubtful \cup {o}
             /\ \/ \E k \in RemoteOrders :
                     /\ ~remote[k].made
                     /\ remote' = [remote EXCEPT ![k] =
                          [made |-> TRUE, from |-> o, at |-> placed[o]]]
                \/ UNCHANGED remote
  /\ UNCHANGED <<moment, link, placed, syncRow, label, overlooked, bygone>>

\* upsertOrderSync; a failure is counted and the export goes on.
RecordExport(r) ==
  LET o == run[r].order IN
  /\ RunAt(r, "record")
  /\ \/ /\ CallWorks
        /\ syncRow' = [k \in RemoteOrders |->
             IF k \in run[r].item THEN [direction |-> "EXPORT", order |-> o]
             ELSE syncRow[k]]
        /\ UNCHANGED doubtful
     \/ /\ CallFails
        /\ doubtful' = doubtful \cup {o}
        /\ UNCHANGED syncRow
  /\ run' = [run EXCEPT ![r] = Onward(r, "push", o)]
  /\ UNCHANGED <<moment, link, placed, remote, label, overlooked, bygone>>

-------------------------------------------------------------------------------
(* importOrdersFromBaselinker *)

\* The mutant of DateFrom: the time of the last import is not looked at.
WeekAgo == IF moment > FirstReach THEN moment - FirstReach ELSE 0

\* dateFrom: the time of the last import, or without one a week ago.
DateFrom == IF link.importedAt # Nowhen THEN link.importedAt ELSE WeekAgo

\* Orders of other channels that the store does not know.
Strangers ==
  {k \in RemoteOrders :
     remote[k].made /\ remote[k].from = NoOrder /\ syncRow[k].direction = "none"}

\* With a week ago, what is older will not be asked for any more.
BeginImport(r) ==
  /\ RunAt(r, "idle") /\ Enabled
  /\ run' = [run EXCEPT ![r] = [NoRun EXCEPT !.pc = "ask", !.since = DateFrom]]
  /\ bygone' = IF link.importedAt # Nowhen THEN bygone
               ELSE bygone \cup {k \in Strangers : remote[k].at < WeekAgo}
  /\ UNCHANGED <<moment, link, placed, remote, syncRow, label, doubtful, overlooked, failures>>

\* A call that fails ends the import and leaves the time as it was.
AskOrders(r) ==
  /\ RunAt(r, "ask")
  /\ \/ /\ CallWorks
        /\ run' = [run EXCEPT ![r] = [NoRun EXCEPT !.pc = "lookup",
             !.todo = {k \in RemoteOrders : remote[k].made /\ remote[k].at >= run[r].since}]]
     \/ CallFails /\ RunEnds(r)
  /\ UNCHANGED <<moment, link, placed, remote, syncRow, label, doubtful, overlooked, bygone>>

FindOrderSync(r) ==
  /\ RunAt(r, "lookup")
  /\ \E k \in run[r].todo :
       run' = [run EXCEPT ![r] =
         IF syncRow[k].direction # "none" THEN [@ EXCEPT !.todo = run[r].todo \ {k}]
         ELSE [@ EXCEPT !.pc = "import", !.item = {k}]]
  /\ UNCHANGED <<moment, link, placed, remote, syncRow, label, doubtful, overlooked, bygone, failures>>

\* upsertOrderSync again: a row an export has written since is overwritten, and
\* its order counts as not exported.
RecordImport(r) ==
  LET items == run[r].item IN
  /\ RunAt(r, "import")
  /\ \/ /\ CallWorks
        /\ syncRow' = [k \in RemoteOrders |->
             IF k \in items THEN [direction |-> "IMPORT", order |-> NoOrder]
             ELSE syncRow[k]]
        /\ doubtful' = doubtful \cup ({syncRow[k].order : k \in items} \ {NoOrder})
        /\ UNCHANGED overlooked
     \/ /\ CallFails
        /\ overlooked' = overlooked \cup items
        /\ UNCHANGED <<syncRow, doubtful>>
  /\ run' = [run EXCEPT ![r] =
       [@ EXCEPT !.pc = "lookup", !.todo = run[r].todo \ items, !.item = {}]]
  /\ UNCHANGED <<moment, link, placed, remote, label, bygone>>

\* The time is that of the end; without a configuration the update fails.
EndImport(r) ==
  /\ RunAt(r, "lookup") /\ run[r].todo = {}
  /\ link' = IF link.exists THEN [link EXCEPT !.importedAt = moment] ELSE link
  /\ RunEnds(r)
  /\ UNCHANGED <<moment, placed, remote, syncRow, label, doubtful, overlooked, bygone, failures>>

-------------------------------------------------------------------------------
(* generateShippingLabel *)

\* Any row of the order's exports: an order not yet exported is not found.
BeginLabel(r, o) ==
  /\ RunAt(r, "idle") /\ Enabled
  /\ \E k \in Exported(o) :
       run' = [run EXCEPT ![r] =
         [NoRun EXCEPT !.pc = "package", !.order = o, !.item = {k}]]
  /\ UNCHANGED <<moment, link, placed, remote, syncRow, label, doubtful, overlooked, bygone, failures>>

\* createPackage and getLabel: a package whose label cannot be had stays behind.
CallForLabel(r) ==
  /\ run[r].pc \in {"package", "label"}
  /\ \/ /\ CallWorks
        /\ run' = [run EXCEPT ![r].pc = IF RunAt(r, "package") THEN "label" ELSE "ship"]
     \/ CallFails /\ RunEnds(r)
  /\ UNCHANGED <<moment, link, placed, remote, syncRow, label, doubtful, overlooked, bygone>>

\* The shipment's tracking code and label are overwritten.
WriteLabel(r) ==
  /\ RunAt(r, "ship")
  /\ label' = [label EXCEPT ![run[r].order] = run[r].item]
  /\ RunEnds(r)
  /\ UNCHANGED <<moment, link, placed, remote, syncRow, doubtful, overlooked, bygone, failures>>

\* The process ends in the middle of a run.
RunDies(r) ==
  /\ CallFails
  /\ ~RunAt(r, "idle")
  /\ doubtful' = IF RunAt(r, "record") THEN doubtful \cup {run[r].order} ELSE doubtful
  /\ RunEnds(r)
  /\ UNCHANGED <<moment, link, placed, remote, syncRow, label, overlooked, bygone>>

-------------------------------------------------------------------------------
BaselinkerOrdersNext ==
  \/ MomentPasses
  \/ DeleteConfig
  \/ \E enabled \in BOOLEAN : SaveConfig(enabled)
  \/ \E k \in RemoteOrders : ArriveAtBaselinker(k)
  \/ \E o \in Orders : PlaceOrder(o)
  \/ \E r \in Runs :
       \/ BeginExport(r) \/ PushOrder(r) \/ RecordExport(r)
       \/ BeginImport(r) \/ AskOrders(r) \/ FindOrderSync(r) \/ RecordImport(r)
       \/ EndImport(r)
       \/ CallForLabel(r) \/ WriteLabel(r) \/ RunDies(r)
       \/ \E o \in Orders : BeginLabel(r, o)

BaselinkerOrdersSpec == BaselinkerOrdersInit /\ [][BaselinkerOrdersNext]_baselinkerVars

-------------------------------------------------------------------------------
\* Baselinker has an order of the store once, unless another run held it too, an
\* import overwrote its row, or its push or record failed.
PushedOnce ==
  \A o \in Orders \ doubtful :
    Cardinality({k \in RemoteOrders : remote[k].made /\ remote[k].from = o}) <= 1

\* What came to Baselinker before the last import is known to the store, unless
\* it came, or failed, while an import ran, or was more than FirstReach old when
\* an import began that had no earlier one to go on from.
ImportMissesNone ==
  \A k \in RemoteOrders \ (overlooked \cup bygone) :
    /\ remote[k].made /\ remote[k].from = NoOrder
    /\ link.importedAt # Nowhen /\ remote[k].at < link.importedAt
    => syncRow[k].direction # "none"

\* A label on an order's shipment was made for the Baselinker order that was
\* made from that order, and so were the rows that say it was exported.
LabelIsOfOrder ==
  /\ \A o \in Orders : \A k \in label[o] \cup Exported(o) : remote[k].from = o
  /\ \A r \in Runs : run[r].pc = "ship" =>
       \A k \in run[r].item : remote[k].from = run[r].order

\* What the store and Baselinker know of each other's orders agrees.
BaselinkerAgrees == PushedOnce /\ ImportMissesNone /\ LabelIsOfOrder
===============================================================================
