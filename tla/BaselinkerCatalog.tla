---------------------------- MODULE BaselinkerCatalog ----------------------------
(***************************************************************************)
(* A store's products sent to its Baselinker inventory: each run takes the *)
(* products changed since the end of the last run, a batch of the oldest,  *)
(* and sends what it read, one call per product.  The poll and the panel's *)
(* button start runs of their own.                                         *)
(***************************************************************************)
EXTENDS Naturals, FiniteSets

CONSTANTS
  Goods, Inventories,
  NoInventory,
  SyncRuns,
  GoodsBatch,     \* 100: `take` of findProducts
  LastMinute,     \* bound of the clock
  LastVersion     \* bound of the edits of a product

ASSUME BaselinkerCatalogAssumption ==
  /\ NoInventory \notin Inventories
  /\ GoodsBatch \in Nat \ {0} /\ LastMinute \in Nat \ {0} /\ LastVersion \in Nat \ {0}

VARIABLES
  minute,
  goods,       \* per product, its version and updatedAt
  inventory,   \* per inventory and product, the version Baselinker holds (0: none)
  config,      \* StoreBaselinkerConfig: the inventory, lastCatalogSyncAt (0: null)
  sync,        \* the runs of syncCatalog
  passedBy   \* history: products a run passed by, or passed on an old version of

baselinkerCatalogVars == <<minute, goods, inventory, config, sync, passedBy>>

NoSync == [on |-> FALSE, into |-> NoInventory, todo |-> {}, left |-> {}]
NoConfig == [exists |-> FALSE, into |-> NoInventory, syncedAt |-> 0]
ReadRow == [good : Goods, version : 1..LastVersion, at : 1..LastMinute]

BaselinkerCatalogTypeOK ==
  /\ minute \in 1..LastMinute
  /\ goods \in [Goods -> [version : 1..LastVersion, at : 1..LastMinute]]
  /\ inventory \in [Inventories -> [Goods -> 0..LastVersion]]
  /\ config \in [exists : BOOLEAN, into : Inventories \cup {NoInventory}, syncedAt : 0..LastMinute]
  /\ sync \in [SyncRuns -> [on : BOOLEAN, into : Inventories \cup {NoInventory},
                            todo : SUBSET ReadRow, left : SUBSET Goods]]
  /\ passedBy \subseteq Goods

BaselinkerCatalogInit ==
  /\ minute = 1
  /\ goods = [g \in Goods |-> [version |-> 1, at |-> 1]]
  /\ inventory = [i \in Inventories |-> [g \in Goods |-> 0]]
  /\ config = NoConfig
  /\ sync = [s \in SyncRuns |-> NoSync]
  /\ passedBy = {}

-------------------------------------------------------------------------------
MinutePasses ==
  /\ minute < LastMinute
  /\ minute' = minute + 1
  /\ UNCHANGED <<goods, inventory, config, sync, passedBy>>

\* A product is edited (Prisma sets updatedAt).  A run under way has read the
\* old version, and a change in the very instant lastCatalogSyncAt names is not
\* later than it.
EditGood(g) ==
  /\ goods[g].version < LastVersion
  /\ goods' = [goods EXCEPT ![g] = [version |-> @.version + 1, at |-> minute]]
  /\ passedBy' = IF config.syncedAt = minute \/ \E s \in SyncRuns : sync[s].on
                     THEN passedBy \cup {g} ELSE passedBy
  /\ UNCHANGED <<minute, inventory, config, sync>>

\* saveConfig; disabling is saving no inventory, the sync tells them not apart.
\* lastCatalogSyncAt stays: another inventory gets only what changes from now.
SaveInventory(into) ==
  /\ config' = [config EXCEPT !.exists = TRUE, !.into = into]
  /\ passedBy' = IF config.into # into /\ (config.exists \/ \E s \in SyncRuns : sync[s].on)
                     THEN Goods ELSE passedBy
  /\ UNCHANGED <<minute, goods, inventory, sync>>

\* deleteConfig: lastCatalogSyncAt goes with the row.
DropConfig ==
  /\ config.exists
  /\ config' = NoConfig
  /\ UNCHANGED <<minute, goods, inventory, sync, passedBy>>

-------------------------------------------------------------------------------
\* Mutant: lastCatalogSyncAt rounded up.
ChangedLongSince == {g \in Goods : config.syncedAt = 0 \/ goods[g].at > config.syncedAt + 1}

ChangedSince == {g \in Goods : config.syncedAt = 0 \/ goods[g].at > config.syncedAt}

\* findProducts: a batch of the products changed longest ago.
OldestOf(changed) ==
  {batch \in SUBSET changed :
     /\ Cardinality(batch) = IF Cardinality(changed) < GoodsBatch THEN Cardinality(changed)
                                                                   ELSE GoodsBatch
     /\ \A g \in batch, h \in changed \ batch : goods[g].at <= goods[h].at}

BeginSync(s) ==
  /\ ~ sync[s].on
  /\ config.into # NoInventory
  /\ \E batch \in OldestOf(ChangedSince) :
       sync' = [sync EXCEPT ![s] =
         [on |-> TRUE, into |-> config.into,
          todo |-> {[good |-> g, version |-> goods[g].version, at |-> goods[g].at] : g \in batch},
          left |-> ChangedSince \ batch]]
  /\ UNCHANGED <<minute, goods, inventory, config, passedBy>>

\* addInventoryProduct with the values read; a call that fails is counted and
\* the run goes on.
SendGood(s, works) ==
  /\ sync[s].on
  /\ \E r \in sync[s].todo :
       /\ \A q \in sync[s].todo : r.at <= q.at
       /\ sync' = [sync EXCEPT ![s].todo = @ \ {r},
                               ![s].left = IF works THEN @ ELSE @ \cup {r.good}]
       /\ IF works
            THEN /\ inventory' = [inventory EXCEPT ![sync[s].into][r.good] = r.version]
                 /\ passedBy' = IF r.version = goods[r.good].version /\ sync[s].into = config.into
                                    THEN passedBy \ {r.good} ELSE passedBy \cup {r.good}
            ELSE UNCHANGED <<inventory, passedBy>>
  /\ UNCHANGED <<minute, goods, config>>

\* updateLastCatalogSyncAt with the time the run ends; without the row the
\* update fails, and only the run's result is lost.
EndSync(s) ==
  /\ sync[s].on /\ sync[s].todo = {}
  /\ sync' = [sync EXCEPT ![s] = NoSync]
  /\ IF config.exists
       THEN /\ config' = [config EXCEPT !.syncedAt = minute]
            /\ passedBy' = passedBy \cup sync[s].left
       ELSE UNCHANGED <<config, passedBy>>
  /\ UNCHANGED <<minute, goods, inventory>>

\* The worker or the API process stops: nothing records how far the run was.
SyncDies(s) ==
  /\ sync[s].on
  /\ sync' = [sync EXCEPT ![s] = NoSync]
  /\ UNCHANGED <<minute, goods, inventory, config, passedBy>>

BaselinkerCatalogNext ==
  \/ MinutePasses
  \/ \E g \in Goods : EditGood(g)
  \/ \E into \in Inventories \cup {NoInventory} : SaveInventory(into)
  \/ DropConfig
  \/ \E s \in SyncRuns :
       BeginSync(s) \/ EndSync(s) \/ SyncDies(s) \/ \E works \in BOOLEAN : SendGood(s, works)

BaselinkerCatalogSpec ==
  BaselinkerCatalogInit /\ [][BaselinkerCatalogNext]_baselinkerCatalogVars

-------------------------------------------------------------------------------
\* A product changed up to lastCatalogSyncAt is in Baselinker as it stands,
\* unless it was passed by: a call for it failed, the batch was full, it was
\* changed while a run was under way, or the inventory was exchanged (or set up
\* again under a run).
\* Overlapping and interrupted runs lose nothing else.  A product is its row: its first
\* image is sent with it, but a change of images leaves the row's updatedAt alone.
CatalogUpToDate ==
  config.into # NoInventory =>
    \A g \in Goods \ passedBy :
      goods[g].at <= config.syncedAt => inventory[config.into][g] = goods[g].version
===============================================================================
