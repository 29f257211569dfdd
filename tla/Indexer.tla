------------------------------ MODULE Indexer ------------------------------
(***************************************************************************)
(* The event indexer, backend/internal/v2/indexer/indexer.go: a process    *)
(* that polls an EVM node, copies events into ClickHouse and keeps the     *)
(* reserves of every pool, in memory and in the table pairs, by adding up  *)
(* the changes the events tell.                                            *)
(*                                                                         *)
(* The chain is external: blocks of events and the factory's list of       *)
(* pools.  The indexer is one goroutine, so its steps are its calls to the *)
(* node and to the database, with the chain growing and crashes between    *)
(* them.  Prices, TVL and the other columns of a row are left out.         *)
(***************************************************************************)
EXTENDS Integers, Sequences, FiniteSets, SequencesExt

CONSTANTS
  Pools,          \* addresses of pools
  BlockContents,  \* the sequences of events a block may hold
  DevMode,        \* cfg.IsDev(): with an empty database, index from block 0
  Faults,         \* the faults that happen, a subset of FaultKinds
  MaxFaults,      \* bound on their number
  MaxBlock        \* bound on the length of the chain

FaultKinds == {"crash", "start", "rpc", "insert"}

(* The events of one FilterLogs call, in the order the poll asks for them. *)
Tables == <<"liquidity", "swap", "staking", "governance", "delegate">>

\* The tables getLatestIndexedBlock looks at.
Resumable == {"liquidity", "swap", "staking"}
Trades == {"liquidity", "swap"}

Event == [kind : Range(Tables), pool : Pools, change : Int \X Int]

ASSUME IndexerAssumption ==
  /\ IsFiniteSet(Pools) /\ BlockContents \subseteq Seq(Event)
  /\ DevMode \in BOOLEAN /\ Faults \subseteq FaultKinds
  /\ MaxFaults \in Nat /\ MaxBlock \in Nat

VARIABLES
  chain,      \* blocks 1, 2, ... of events
  allPairs,   \* the factory's pools
  reserves,   \* reserves[b + 1]: the pools' reserves after block b
  rows,       \* event -> rows of it in the database
  pairs,      \* the table pairs: pool -> reserves
  knownPairs, \* the same in memory
  pc,         \* what the indexer is about to do
  lastProcessedBlock, toBlock,
  table,      \* index of the FilterLogs call under way
  logs,       \* events it returned that are still to be handled
  faults,     \* history: faults so far
  startedAt,  \* history: the block the first start left behind it
  blind,      \* history: a restart could not find out where to resume
  clamped     \* history: a negative reserve was set to zero

chainVars == <<chain, allPairs, reserves>>
dbVars == <<rows, pairs>>
pollVars == <<lastProcessedBlock, toBlock, table, logs>>
history == <<startedAt, blind, clamped>>
vars == <<chainVars, dbVars, knownPairs, pc, pollVars, faults, history>>

EventIds == UNION {{b} \X DOMAIN chain[b] : b \in DOMAIN chain}
EventOf(id) == chain[id[1]][id[2]]

Nothing == <<0, 0>>
Changed(r, c) == <<r[1] + c[1], r[2] + c[2]>>
NonNegative(r) == r[1] >= 0 /\ r[2] >= 0
\* Mutant: a reserve may go below zero.
NoClamp(r) == r

Clamp(r) == <<IF r[1] < 0 THEN 0 ELSE r[1], IF r[2] < 0 THEN 0 ELSE r[2]>>

Fault(kind) ==
  /\ kind \in Faults /\ faults < MaxFaults
  /\ faults' = faults + 1
NoFault == UNCHANGED faults

Init ==
  /\ chain = <<>> /\ allPairs = {} /\ reserves = <<[p \in Pools |-> Nothing]>>
  /\ rows = [id \in {} |-> 0] /\ pairs = [p \in {} |-> Nothing]
  /\ knownPairs = [p \in {} |-> Nothing] /\ pc = "down"
  /\ lastProcessedBlock = 0 /\ toBlock = 0 /\ table = 1 /\ logs = {}
  /\ faults = 0 /\ startedAt = -1 /\ blind = FALSE /\ clamped = FALSE

-----------------------------------------------------------------------------
(* The chain, external.                                                    *)
ReservesAfter(p, r, events) ==
  FoldLeft(LAMBDA sum, e : IF e.kind \in Trades /\ e.pool = p
                           THEN Changed(sum, e.change) ELSE sum,
           r, events)

Mine(events, newPools) ==
  LET old == Last(reserves)
  IN  /\ Len(chain) < MaxBlock
      /\ \A i \in DOMAIN events :
           /\ events[i].kind \in Trades => events[i].pool \in allPairs \cup newPools
           /\ \A p \in Pools : NonNegative(ReservesAfter(p, old[p], SubSeq(events, 1, i)))
      /\ chain' = Append(chain, events)
      /\ allPairs' = allPairs \cup newPools
      /\ reserves' = Append(reserves, [p \in Pools |-> ReservesAfter(p, old[p], events)])
      /\ rows' = [id \in DOMAIN rows \cup {Len(chain) + 1} \X DOMAIN events |->
                    IF id \in DOMAIN rows THEN rows[id] ELSE 0]
      /\ UNCHANGED <<pairs, knownPairs, pc, pollVars, faults, history>>

-----------------------------------------------------------------------------
(* Starting.  The pools read from the database are written back unchanged. *)
LatestIndexedBlock ==
  Max({0} \cup {id[1] : id \in {i \in EventIds :
                                  EventOf(i).kind \in Resumable /\ rows[i] > 0}})

\* Mutant: the newest block is taken to be unfinished and read again.
ResumeOneBefore ==
  IF LatestIndexedBlock > 0 THEN LatestIndexedBlock - 1
  ELSE IF DevMode THEN 0 ELSE Len(chain)

ResumeBlock ==
  IF LatestIndexedBlock > 0 THEN LatestIndexedBlock
  ELSE IF DevMode THEN 0 ELSE Len(chain)

Start ==
  /\ pc = "down"
  /\ \/ /\ knownPairs' = pairs
        /\ lastProcessedBlock' = ResumeBlock
        /\ NoFault /\ UNCHANGED blind
     \/ /\ Fault("start")                    \* loadPairsFromDB failed
        /\ knownPairs' = [p \in {} |-> Nothing]
        /\ lastProcessedBlock' = ResumeBlock
        /\ UNCHANGED blind
     \/ /\ Fault("start")                    \* getLatestIndexedBlock failed
        /\ knownPairs' = pairs
        /\ lastProcessedBlock' = IF DevMode THEN 0 ELSE Len(chain)
        /\ blind' = TRUE
     \/ /\ Fault("start")                    \* BlockNumber failed
        /\ knownPairs' = pairs
        /\ lastProcessedBlock' = 0
        /\ blind' = TRUE
  /\ toBlock' = lastProcessedBlock'
  /\ startedAt' = IF startedAt = -1 THEN lastProcessedBlock' ELSE startedAt
  /\ pc' = "discover"
  /\ UNCHANGED <<chainVars, dbVars, table, logs, clamped>>

(* A crash, or a signal that cancels the calls in flight.                  *)
Crash ==
  /\ pc # "down"
  /\ Fault("crash")
  /\ pc' = "down"
  /\ knownPairs' = [p \in {} |-> Nothing]
  /\ lastProcessedBlock' = 0 /\ toBlock' = 0 /\ table' = 1 /\ logs' = {}
  /\ UNCHANGED <<chainVars, dbVars, history>>

-----------------------------------------------------------------------------
(* discoverPairsFromFactory, at the start and at the head of every poll.   *)
\* Mutant: the poll returns when there is nothing to discover.
IdleAfterDiscovery == pc' = "idle"

AfterDiscovery == pc' = IF toBlock > lastProcessedBlock THEN "fetch" ELSE "idle"

With(f, p, value) ==
  [q \in DOMAIN f \cup {p} |-> IF q = p THEN value ELSE f[q]]

(* A pool is entered with the reserves it had at the last processed block, *)
(* so that the events to come add up; the table gets zeros first.          *)
\* Mutant: the reserves of now, to which the events to come are added again.
ReservesNow(p) == Last(reserves)[p]

ReservesAtStart(p) == reserves[lastProcessedBlock + 1][p]

DiscoverPair(p) ==
  /\ pc = "discover"
  /\ p \in allPairs \ DOMAIN knownPairs
  /\ \E found \in {ReservesAtStart(p), Nothing} :
       /\ knownPairs' = With(knownPairs, p, found)
       /\ \/ /\ found = ReservesAtStart(p) /\ NoFault
             /\ pairs' = With(pairs, p, Nothing)
          \/ /\ found = Nothing /\ Fault("rpc")
             /\ pairs' = With(pairs, p, Nothing)
          \/ /\ found = ReservesAtStart(p) /\ Fault("insert")
             /\ UNCHANGED pairs
       /\ pc' = IF found # Nothing THEN "save" ELSE "discover"
  /\ UNCHANGED <<chainVars, rows, pollVars, history>>

DiscoveryFails ==
  /\ pc = "discover"
  /\ Fault("rpc")
  /\ AfterDiscovery
  /\ UNCHANGED <<chainVars, dbVars, knownPairs, pollVars, history>>

DiscoveryEnds ==
  /\ pc = "discover"
  /\ allPairs \subseteq DOMAIN knownPairs
  /\ NoFault
  /\ AfterDiscovery
  /\ UNCHANGED <<chainVars, dbVars, knownPairs, pollVars, history>>

-----------------------------------------------------------------------------
(* One poll: FilterLogs and its events, table after table.                 *)
Poll ==
  /\ pc = "idle"
  /\ Len(chain) > lastProcessedBlock
  /\ toBlock' = Len(chain)
  /\ pc' = "discover"
  /\ UNCHANGED <<chainVars, dbVars, knownPairs, lastProcessedBlock, table, logs,
                 faults, history>>

(* Trades of a pool that could not be discovered are not asked for or are  *)
(* skipped.                                                                *)
FilterLogs(kind) ==
  {id \in EventIds :
     /\ id[1] \in (lastProcessedBlock + 1)..toBlock
     /\ EventOf(id).kind = kind
     /\ kind \in Trades => EventOf(id).pool \in DOMAIN knownPairs}

(* They are handled in the order of the chain.                             *)
Before(i, j) == i[1] < j[1] \/ (i[1] = j[1] /\ i[2] < j[2])
NextLog == CHOOSE id \in logs : \A other \in logs : other = id \/ Before(id, other)

(* On to the next table; after the last one the range counts as processed, *)
(* whatever failed in it.                                                  *)
\* Mutant: the range is not marked as processed.
NextTableUnmarked ==
  /\ pc' = IF table = Len(Tables) THEN "idle" ELSE "fetch"
  /\ table' = IF table = Len(Tables) THEN 1 ELSE table + 1
  /\ UNCHANGED lastProcessedBlock

NextTable ==
  /\ pc' = IF table = Len(Tables) THEN "idle" ELSE "fetch"
  /\ table' = IF table = Len(Tables) THEN 1 ELSE table + 1
  /\ lastProcessedBlock' = IF table = Len(Tables) THEN toBlock ELSE lastProcessedBlock

Fetch ==
  /\ pc = "fetch"
  /\ \/ /\ FilterLogs(Tables[table]) # {} /\ NoFault
        /\ logs' = FilterLogs(Tables[table])
        /\ pc' = "insert"
        /\ UNCHANGED <<lastProcessedBlock, table>>
     \/ /\ FilterLogs(Tables[table]) = {} /\ NoFault
        /\ NextTable /\ UNCHANGED logs
     \/ /\ Fault("rpc")
        /\ NextTable /\ UNCHANGED logs
  /\ UNCHANGED <<chainVars, dbVars, knownPairs, toBlock, history>>

(* The handler of one event: the insertion of its row, which may fail, and *)
(* for a trade the reserves in memory, which only this goroutine reads.    *)
Handling(kind) == pc = "insert" /\ EventOf(NextLog).kind = kind

Record ==
  \/ NoFault /\ rows' = [rows EXCEPT ![NextLog] = @ + 1]
  \/ Fault("insert") /\ UNCHANGED rows

ApplyChange ==
  LET e   == EventOf(NextLog)
      sum == Changed(knownPairs[e.pool], e.change)
  IN  /\ knownPairs' = [knownPairs EXCEPT ![e.pool] = Clamp(sum)]
      /\ clamped' = (clamped \/ ~NonNegative(sum))

\* Mutant: the frontend is told before updateReserves.
BroadcastBeforeSave == pc' = "broadcast"

SaveBeforeBroadcast == pc' = "save"

IndexTradeEvent(kind) ==
  /\ Handling(kind)
  /\ Record /\ ApplyChange /\ SaveBeforeBroadcast
  /\ UNCHANGED <<chainVars, pairs, pollVars, startedAt, blind>>

IndexOtherEvent(kind) ==
  /\ Handling(kind)
  /\ Record
  /\ pc' = "broadcast"
  /\ UNCHANGED <<chainVars, pairs, knownPairs, pollVars, history>>

IndexLiquidityEvent == IndexTradeEvent("liquidity")
IndexSwapEvent == IndexTradeEvent("swap")
IndexStakingEvent == IndexOtherEvent("staking")
IndexGovernorEvent == IndexOtherEvent("governance")
IndexDelegateEvent == IndexOtherEvent("delegate")

(* updateReserves writes a row for every known pool, not only for the one  *)
(* that changed.                                                           *)
Save ==
  /\ pc = "save"
  /\ \/ NoFault /\ pairs' = [p \in DOMAIN pairs \cup DOMAIN knownPairs |->
                               IF p \in DOMAIN knownPairs THEN knownPairs[p] ELSE pairs[p]]
     \/ Fault("insert")
        /\ \E failed \in DOMAIN knownPairs :
             pairs' = [p \in DOMAIN pairs \cup (DOMAIN knownPairs \ {failed}) |->
                         IF p \in DOMAIN knownPairs \ {failed}
                         THEN knownPairs[p] ELSE pairs[p]]
  /\ pc' = IF logs = {} THEN "discover" ELSE "broadcast"
  /\ UNCHANGED <<chainVars, rows, knownPairs, pollVars, history>>

Broadcast ==
  /\ pc = "broadcast"
  /\ logs' = logs \ {NextLog}
  /\ IF logs' # {}
     THEN pc' = "insert" /\ UNCHANGED <<lastProcessedBlock, table>>
     ELSE NextTable
  /\ UNCHANGED <<chainVars, dbVars, knownPairs, toBlock, faults, history>>

-----------------------------------------------------------------------------
Step ==
  \/ Start \/ (\E p \in Pools : DiscoverPair(p)) \/ DiscoveryFails \/ DiscoveryEnds
  \/ Poll \/ Fetch
  \/ IndexLiquidityEvent \/ IndexSwapEvent \/ IndexStakingEvent
  \/ IndexGovernorEvent \/ IndexDelegateEvent
  \/ Save \/ Broadcast

Next ==
  \/ \E events \in BlockContents, newPools \in SUBSET Pools : Mine(events, newPools)
  \/ Step
  \/ Crash

(* The process is restarted when it dies (restart: unless-stopped in the   *)
(* compose files) and its ticker goes on ticking.                          *)
Spec == Init /\ [][Next]_vars /\ WF_vars(Step)

-----------------------------------------------------------------------------
Reserves == Nat \X Nat

(* Types; a poll covers blocks that exist; logs are left to handle only    *)
(* while a table is under way.                                             *)
TypeOK ==
  /\ chain \in Seq(BlockContents) /\ allPairs \subseteq Pools
  /\ reserves \in Seq([Pools -> Reserves]) /\ Len(reserves) = Len(chain) + 1
  /\ DOMAIN rows = EventIds /\ \A id \in EventIds : rows[id] \in Nat
  /\ \A table_ \in {pairs, knownPairs} :
       DOMAIN table_ \subseteq allPairs /\ \A p \in DOMAIN table_ : table_[p] \in Reserves
  /\ pc \in {"down", "discover", "idle", "fetch", "insert", "save", "broadcast"}
  /\ lastProcessedBlock <= toBlock /\ toBlock \in 0..Len(chain)
  /\ table \in DOMAIN Tables
  /\ logs \subseteq EventIds
  /\ pc \in {"insert", "broadcast"} => logs # {}

(* Without faults the database holds exactly one row of every event of the *)
(* blocks processed since the first start, however the polls fall.         *)
RowsMatchChain ==
  (faults = 0 /\ pc = "idle") =>
    \A id \in EventIds :
      rows[id] = IF id[1] \in (startedAt + 1)..lastProcessedBlock THEN 1 ELSE 0

(* Without faults, and unless a reserve had to be clamped, the reserves    *)
(* added up from events are the chain's as of the last processed block,    *)
(* whatever blocks a poll spans and wherever a pool was discovered.        *)
ReservesMatchUnlessClamped ==
  (faults = 0 /\ pc = "idle" /\ ~clamped) =>
    \A p \in DOMAIN pairs : pairs[p] = reserves[lastProcessedBlock + 1][p]

(* No trade or stake is recorded twice, across crashes and failed calls,   *)
(* as long as every restart finds out where to resume.                     *)
NeverRecordedTwice ==
  ~blind => \A id \in EventIds : EventOf(id).kind \in Resumable => rows[id] <= 1

(* "Broadcast AFTER reserves/TVL are written to DB so frontend gets fresh  *)
(* data": when a trade is announced, the table has its reserves.           *)
BroadcastsAreFresh ==
  (pc = "broadcast" /\ EventOf(NextLog).kind \in Trades
     /\ faults = 0) =>
    LET p == EventOf(NextLog).pool IN pairs[p] = knownPairs[p]

(* After the last fault the indexer catches up with the chain and stays    *)
(* with it.                                                                *)
CatchesUp ==
  \A b \in 1..MaxBlock : (Len(chain) >= b) ~> (lastProcessedBlock >= b)

(* The claim that indexing resumes where it left off: what the range       *)
(* processed holds is in the database.  Refuted: a crash in a poll resumes *)
(* after the newest block of any table.                                    *)
NothingLostByCrash ==
  pc = "idle" => \A id \in EventIds : id[1] \in 1..lastProcessedBlock => rows[id] >= 1

(* The claim that pairs holds the pools' reserves.  Refuted: liquidity is  *)
(* applied before swaps, so a reserve may be clamped on the way.           *)
ReservesMatchChain ==
  (faults = 0 /\ pc = "idle") =>
    \A p \in DOMAIN pairs : pairs[p] = reserves[lastProcessedBlock + 1][p]
=============================================================================
