---------------------------- MODULE IndexerProofs ----------------------------
(***************************************************************************)
(* Rows, broadcasts and reserves of the indexer, for any pools, any chain, *)
(* and any number of crashes and failing calls.  The properties look at    *)
(* what a poll leaves behind or a restart finds; the invariant says in the *)
(* midst of a poll which events have been reached.  The reserves, of the   *)
(* chain and of the indexer, are then sums over sets of events.            *)
(***************************************************************************)
EXTENDS Indexer, Groundwork, WellFoundedInduction, TLAPS

(* Types, as far as rows and broadcasts depend on them.                    *)
Typed ==
  /\ chain \in Seq(Seq(Event))
  /\ rows \in [EventIds -> Nat]
  /\ pc \in {"down", "discover", "idle", "fetch", "insert", "save", "broadcast"}
  /\ lastProcessedBlock \in Nat /\ toBlock \in Nat /\ startedAt \in Int
  /\ lastProcessedBlock <= toBlock /\ toBlock <= Len(chain)
  /\ table \in 1..5
  /\ faults \in Nat

(* Trades are of pools the factory knows.                                  *)
TradesHavePools ==
  \A id \in EventIds : EventOf(id).kind \in Trades => EventOf(id).pool \in allPairs

InPoll(id) == lastProcessedBlock < id[1] /\ id[1] <= toBlock

(* What is left to handle is of the table and the range under way.         *)
LogsOfPoll ==
  /\ \A id \in logs : /\ id \in EventIds /\ InPoll(id)
                      /\ EventOf(id).kind = Tables[table]
                      /\ Tables[table] \in Trades => EventOf(id).pool \in DOMAIN knownPairs
  /\ logs # {} => pc \in {"insert", "save", "broadcast"}
  /\ pc \in {"insert", "broadcast"} => logs # {}
  /\ table # 1 => pc = "fetch" \/ logs # {}

(* The event being announced has been handled.                             *)
Pending == IF pc \in {"save", "broadcast"} THEN logs \ {NextLog} ELSE logs
EarlierTables(t) == {Tables[i] : i \in 1..(t - 1)}

(* The events that were handled or given up, in this poll or before.       *)
Reached(id) ==
  \/ id[1] <= lastProcessedBlock
  \/ /\ id[1] <= toBlock
     /\ \/ EventOf(id).kind \in EarlierTables(table)
        \/ EventOf(id).kind = Tables[table] /\ logs # {} /\ id \notin Pending

(* A row is only of an event that the indexer will not come back to.       *)
RowsAreBehind ==
  ~blind => \A id \in EventIds : EventOf(id).kind \in Resumable =>
    /\ rows[id] <= 1
    /\ rows[id] = 1 /\ pc # "down" => Reached(id)

(* Without faults the rows are those of the events reached.                *)
RowsAreReached ==
  faults = 0 =>
    /\ pc = "down" => startedAt = -1 /\ \A id \in EventIds : rows[id] = 0
    /\ pc # "down" =>
         /\ 0 <= startedAt /\ startedAt <= lastProcessedBlock
         /\ \A id \in EventIds :
              rows[id] = IF startedAt < id[1] /\ Reached(id) THEN 1 ELSE 0

(* Without faults a poll knows the pools of all trades in its range.       *)
PoolsDiscovered ==
  (faults = 0 /\ (pc = "fetch" \/ logs # {})) =>
    \A id \in EventIds : InPoll(id) /\ EventOf(id).kind \in Trades
                           => EventOf(id).pool \in DOMAIN knownPairs

IInv ==
  /\ Typed /\ TradesHavePools /\ LogsOfPoll
  /\ RowsAreBehind /\ RowsAreReached /\ PoolsDiscovered /\ BroadcastsAreFresh

-----------------------------------------------------------------------------
(* Events and their tables. *)
LEMMA EventIdsAre ==
  ASSUME chain \in Seq(Seq(Event)), NEW id
  PROVE  id \in EventIds <=> /\ id = <<id[1], id[2]>>
                             /\ id[1] \in 1..Len(chain)
                             /\ id[2] \in 1..Len(chain[id[1]])
<1>1. DOMAIN chain = 1..Len(chain) /\ \A b \in 1..Len(chain) : DOMAIN chain[b] = 1..Len(chain[b])
  OBVIOUS
<1>2. QED
  BY <1>1 DEF EventIds

LEMMA EventsAreTyped ==
  ASSUME chain \in Seq(Seq(Event)), NEW id \in EventIds
  PROVE  /\ EventOf(id) \in Event /\ EventOf(id).kind \in {Tables[i] : i \in 1..5}
         /\ id[1] \in Nat /\ id[2] \in Nat /\ id = <<id[1], id[2]>>
         /\ id[1] >= 1 /\ id[1] <= Len(chain)
<1>1. /\ id = <<id[1], id[2]>> /\ id[1] \in 1..Len(chain) /\ id[2] \in 1..Len(chain[id[1]])
  BY EventIdsAre
<1>2. chain[id[1]] \in Seq(Event)
  BY <1>1
<1>3. EventOf(id) \in Event
  BY <1>1, <1>2 DEF EventOf
<1>4. Range(Tables) = {Tables[i] : i \in 1..5}
  BY DEF Range, Tables
<1>5. EventOf(id).kind \in Range(Tables)
  BY <1>3 DEF Event
<1>6. QED
  BY <1>1, <1>3, <1>4, <1>5

LEMMA TablesDiffer ==
  /\ \A t \in 1..5 : Tables[t] \notin EarlierTables(t)
  /\ \A t \in 1..5 : EarlierTables(t + 1) = EarlierTables(t) \cup {Tables[t]}
  /\ EarlierTables(1) = {} /\ EarlierTables(6) = {Tables[i] : i \in 1..5}
  /\ Len(Tables) = 5
<1>1. \A t, i \in 1..5 : t # i => Tables[t] # Tables[i]
  BY DEF Tables
<1>2. Len(Tables) = 5
  BY DEF Tables
<1>3. \A t \in 1..5 : Tables[t] \notin EarlierTables(t)
  BY <1>1 DEF EarlierTables
<1>4. \A t \in 1..5 : EarlierTables(t + 1) = EarlierTables(t) \cup {Tables[t]}
  <2>1. \A t \in 1..5 : 1..t = (1..(t - 1)) \cup {t} /\ (t + 1) - 1 = t
    OBVIOUS
  <2>2. QED
    BY <2>1 DEF EarlierTables
<1>5. EarlierTables(1) = {} /\ EarlierTables(6) = {Tables[i] : i \in 1..5}
  BY DEF EarlierTables
<1>6. QED
  BY <1>2, <1>3, <1>4, <1>5

-----------------------------------------------------------------------------
(* The order of the chain has a first among any events.                    *)
LEMMA LeastNat ==
  ASSUME NEW S \in SUBSET Nat, S # {}
  PROVE  \E m \in S : \A n \in S : m <= n
<1>1. PICK m \in S : \A n \in S : <<n, m>> \notin OpToRel(<, Nat)
  BY NatLessThanWellFounded, WFMin
<1>2. \A n \in S : ~(n < m)
  BY <1>1 DEF OpToRel
<1>3. QED
  BY <1>2

LEMMA GreatestNat ==
  ASSUME NEW S \in SUBSET Nat, S # {}, NEW bound \in Nat, \A n \in S : n <= bound
  PROVE  /\ Max(S) \in S
         /\ \A n \in S : n <= Max(S)
<1> DEFINE U == {b \in Nat : \A n \in S : n <= b}
<1>1. PICK m \in U : \A b \in U : m <= b
  <2>1. U \in SUBSET Nat /\ U # {}
    OBVIOUS
  <2> HIDE DEF U
  <2>2. QED
    BY <2>1, LeastNat
<1>2. m \in S
  <2>1. SUFFICES ASSUME m \notin S PROVE FALSE
    OBVIOUS
  <2>2. PICK n \in S : TRUE
    OBVIOUS
  <2>3. \A k \in S : k <= m - 1
    BY <1>1, <2>1
  <2>4. m - 1 \in Nat
    BY <1>1, <2>2, <2>3
  <2>5. m - 1 \in U
    BY <2>3, <2>4
  <2>6. QED
    BY <1>1, <2>5
<1>3. \E x \in S : \A y \in S : x >= y
  BY <1>1, <1>2
<1>4. Max(S) \in S /\ \A y \in S : Max(S) >= y
  BY <1>3 DEF Max
<1>5. QED
  BY <1>4

LEMMA NextLogIsFirst ==
  ASSUME Typed, LogsOfPoll, logs # {}
  PROVE  NextLog \in logs
<1> DEFINE Blocks == {id[1] : id \in logs}
<1>1. \A id \in logs : id = <<id[1], id[2]>> /\ id[1] \in Nat /\ id[2] \in Nat
  BY EventsAreTyped DEF Typed, LogsOfPoll
<1>2. PICK b \in Blocks : \A c \in Blocks : b <= c
  <2>1. Blocks \in SUBSET Nat /\ Blocks # {}
    BY <1>1
  <2> HIDE DEF Blocks
  <2>2. QED
    BY <2>1, LeastNat
<1> DEFINE Places == {id[2] : id \in {j \in logs : j[1] = b}}
<1>3. PICK i \in Places : \A j \in Places : i <= j
  <2>1. Places \in SUBSET Nat /\ Places # {}
    BY <1>1, <1>2
  <2> HIDE DEF Places
  <2>2. QED
    BY <2>1, LeastNat
<1>4. PICK id \in logs : id[1] = b /\ id[2] = i
  BY <1>3
<1>5. ASSUME NEW other \in logs PROVE other = id \/ Before(id, other)
  <2>1. id[1] <= other[1] /\ (other[1] = id[1] => id[2] <= other[2])
    BY <1>2, <1>3, <1>4
  <2>2. QED
    BY <1>1, <2>1 DEF Before
<1>6. QED
  BY <1>4, <1>5 DEF NextLog

(* A restart resumes behind every row it may find. *)
LEMMA ResumesBehindRows ==
  ASSUME Typed
  PROVE  /\ ResumeBlock \in Nat /\ ResumeBlock <= Len(chain)
         /\ \A id \in EventIds :
              EventOf(id).kind \in Resumable /\ rows[id] > 0 => id[1] <= ResumeBlock
<1> DEFINE Found == {0} \cup {id[1] : id \in {i \in EventIds :
                                   EventOf(i).kind \in Resumable /\ rows[i] > 0}}
<1>1. Len(chain) \in Nat
  BY DEF Typed
<1>2. Found \in SUBSET Nat /\ Found # {} /\ \A n \in Found : n <= Len(chain)
  BY <1>1, EventsAreTyped DEF Typed
<1>3. LatestIndexedBlock = Max(Found)
  BY DEF LatestIndexedBlock
<1>4. \A id \in EventIds :
        EventOf(id).kind \in Resumable /\ rows[id] > 0 => id[1] \in Found /\ id[1] > 0
  BY EventsAreTyped DEF Typed
<1>5. LatestIndexedBlock \in Found /\ \A n \in Found : n <= LatestIndexedBlock
  <2> HIDE DEF Found
  <2>1. QED
    BY <1>1, <1>2, <1>3, GreatestNat
<1>6. LatestIndexedBlock \in Nat /\ LatestIndexedBlock <= Len(chain)
  BY <1>2, <1>5
<1>7. \A id \in EventIds :
        EventOf(id).kind \in Resumable /\ rows[id] > 0
          => id[1] <= LatestIndexedBlock /\ LatestIndexedBlock > 0
  <2>1. SUFFICES ASSUME NEW id \in EventIds, EventOf(id).kind \in Resumable, rows[id] > 0
                 PROVE  id[1] <= LatestIndexedBlock /\ LatestIndexedBlock > 0
    OBVIOUS
  <2>2. id[1] \in Found /\ id[1] > 0
    BY <1>4, <2>1
  <2> HIDE DEF Found
  <2>3. id[1] <= LatestIndexedBlock /\ id[1] \in Nat
    BY <1>2, <1>5, <2>2
  <2>4. QED
    BY <1>6, <2>2, <2>3
<1>8. ResumeBlock \in Nat /\ ResumeBlock <= Len(chain)
  BY <1>1, <1>6 DEF ResumeBlock
<1>9. LatestIndexedBlock > 0 => ResumeBlock = LatestIndexedBlock
  BY DEF ResumeBlock
<1>10. QED
  BY <1>7, <1>8, <1>9

-----------------------------------------------------------------------------
LEMMA InitHolds == Init => IInv
<1>1. SUFFICES ASSUME Init PROVE IInv
  OBVIOUS
<1> USE <1>1 DEF Init
<1>2. chain \in Seq(Seq(Event)) /\ Len(chain) = 0
  OBVIOUS
<1>3. EventIds = {}
  BY <1>2, EventIdsAre
<1>4. Typed
  <2>1. rows \in [EventIds -> Nat]
    BY <1>3
  <2>2. QED
    BY <1>2, <2>1 DEF Typed
<1>5. TradesHavePools /\ LogsOfPoll /\ PoolsDiscovered
  BY <1>3 DEF TradesHavePools, LogsOfPoll, PoolsDiscovered
<1>6. RowsAreBehind /\ RowsAreReached /\ BroadcastsAreFresh
  BY <1>3 DEF RowsAreBehind, RowsAreReached, BroadcastsAreFresh
<1>7. QED
  BY <1>4, <1>5, <1>6 DEF IInv

-----------------------------------------------------------------------------
(* A new block is beyond every poll, and has no rows. *)
LEMMA BlockIsNew ==
  ASSUME IInv, NEW events \in BlockContents, NEW newPools \in SUBSET Pools,
         Mine(events, newPools)
  PROVE  /\ chain' \in Seq(Seq(Event)) /\ Len(chain') = Len(chain) + 1
         /\ \A id \in EventIds : id \in EventIds' /\ EventOf(id)' = EventOf(id)
         /\ \A id \in EventIds' : id \in EventIds \/ id[1] = Len(chain) + 1
         /\ rows' \in [EventIds' -> Nat]
         /\ \A id \in EventIds' : rows'[id] = IF id \in EventIds THEN rows[id] ELSE 0
         /\ TradesHavePools'
         /\ EventIds' = EventIds \cup {Len(chain) + 1} \X DOMAIN events
         /\ \A id \in {Len(chain) + 1} \X DOMAIN events : EventOf(id)' = events[id[2]]
<1>1. events \in Seq(Event)
  BY IndexerAssumption
<1>2. chain \in Seq(Seq(Event)) /\ rows \in [EventIds -> Nat]
  BY DEF IInv, Typed
<1>3. /\ chain' \in Seq(Seq(Event)) /\ Len(chain') = Len(chain) + 1
      /\ \A b \in 1..Len(chain) : chain'[b] = chain[b]
      /\ chain'[Len(chain) + 1] = events
  BY <1>1, <1>2 DEF Mine
<1>4. ASSUME NEW id
      PROVE  id \in EventIds' <=> /\ id = <<id[1], id[2]>>
                                  /\ id[1] \in 1..(Len(chain) + 1)
                                  /\ id[2] \in 1..Len(chain'[id[1]])
  <2>1. /\ DOMAIN chain' = 1..(Len(chain) + 1)
        /\ \A b \in 1..(Len(chain) + 1) : DOMAIN chain'[b] = 1..Len(chain'[b])
    BY <1>2, <1>3
  <2>2. QED
    BY <2>1 DEF EventIds
<1>5. ASSUME NEW id \in EventIds PROVE id \in EventIds' /\ EventOf(id)' = EventOf(id)
  <2>1. id = <<id[1], id[2]>> /\ id[1] \in 1..Len(chain) /\ id[2] \in 1..Len(chain[id[1]])
    BY <1>2, EventIdsAre
  <2>2. chain'[id[1]] = chain[id[1]] /\ id[1] \in 1..(Len(chain) + 1)
    BY <1>2, <1>3, <2>1
  <2>3. QED
    BY <1>4, <2>1, <2>2 DEF EventOf
<1>6. ASSUME NEW id \in EventIds', id \notin EventIds
      PROVE  /\ id = <<Len(chain) + 1, id[2]>> /\ id[1] = Len(chain) + 1
             /\ id[2] \in DOMAIN events /\ EventOf(id)' = events[id[2]]
  <2>1. id = <<id[1], id[2]>> /\ id[1] \in 1..(Len(chain) + 1) /\ id[2] \in 1..Len(chain'[id[1]])
    BY <1>4, <1>6
  <2>2. id[1] \notin 1..Len(chain)
    BY <1>2, <1>3, <1>6, <2>1, EventIdsAre
  <2>3. id[1] = Len(chain) + 1
    BY <1>2, <2>1, <2>2
  <2>4. id[2] \in DOMAIN events
    BY <1>1, <1>3, <2>1, <2>3
  <2>5. QED
    BY <1>3, <2>1, <2>3, <2>4 DEF EventOf
<1>7. EventIds' = DOMAIN rows \cup {Len(chain) + 1} \X DOMAIN events
  <2>1. ASSUME NEW id \in {Len(chain) + 1} \X DOMAIN events PROVE id \in EventIds'
    <3>1. PICK i \in 1..Len(events) : id = <<Len(chain) + 1, i>>
      BY <1>1
    <3>2. Len(chain) \in Nat
      BY <1>2
    <3>3. chain'[id[1]] = events /\ id[1] \in 1..(Len(chain) + 1) /\ id[2] = i
      BY <1>3, <3>1, <3>2
    <3>4. QED
      BY <1>4, <3>1, <3>3
  <2>2. \A id \in EventIds' : id \in EventIds \/ id \in {Len(chain) + 1} \X DOMAIN events
    BY <1>6
  <2>3. QED
    BY <1>2, <1>5, <2>1, <2>2
<1>8. rows' = [id \in EventIds' |-> IF id \in EventIds THEN rows[id] ELSE 0]
  BY <1>2, <1>7 DEF Mine
<1>9. TradesHavePools'
  <2>1. SUFFICES ASSUME NEW id \in EventIds', EventOf(id)'.kind \in Trades
                 PROVE  EventOf(id)'.pool \in allPairs'
    BY DEF TradesHavePools
  <2>2. CASE id \in EventIds
    BY <1>5, <2>1, <2>2 DEF IInv, TradesHavePools, Mine
  <2>3. CASE id \notin EventIds
    BY <1>6, <2>1, <2>3 DEF Mine
  <2>4. QED
    BY <2>2, <2>3
<1>10. \A id \in {Len(chain) + 1} \X DOMAIN events : EventOf(id)' = events[id[2]]
  BY <1>3 DEF EventOf
<1>11. EventIds' = EventIds \cup {Len(chain) + 1} \X DOMAIN events
  BY <1>2, <1>7
<1>12. QED
  BY <1>2, <1>3, <1>5, <1>6, <1>8, <1>9, <1>10, <1>11

LEMMA MineKeeps ==
  ASSUME IInv, NEW events \in BlockContents, NEW newPools \in SUBSET Pools,
         Mine(events, newPools)
  PROVE  IInv'
<1>1. UNCHANGED <<pairs, knownPairs, pc, lastProcessedBlock, toBlock, table, logs, faults,
                  startedAt, blind>>
  BY DEF Mine, pollVars, history
<1>2. /\ chain \in Seq(Seq(Event)) /\ Len(chain) \in Nat
      /\ lastProcessedBlock \in Nat /\ toBlock \in Nat
      /\ lastProcessedBlock <= toBlock /\ toBlock <= Len(chain)
  BY DEF IInv, Typed
<1>3. /\ chain' \in Seq(Seq(Event)) /\ Len(chain') = Len(chain) + 1
      /\ \A id \in EventIds : id \in EventIds' /\ EventOf(id)' = EventOf(id)
      /\ \A id \in EventIds' : id \in EventIds \/ id[1] = Len(chain) + 1
      /\ rows' \in [EventIds' -> Nat]
      /\ \A id \in EventIds' : rows'[id] = IF id \in EventIds THEN rows[id] ELSE 0
      /\ TradesHavePools'
  BY BlockIsNew
<1>4. \A id \in EventIds' : id \notin EventIds => ~(id[1] <= toBlock) /\ ~(id[1] <= lastProcessedBlock)
  BY <1>2, <1>3
<1>5. NextLog' = NextLog /\ Pending' = Pending
  BY <1>1 DEF NextLog, Pending
<1>6. \A id \in EventIds : Reached(id)' <=> Reached(id)
  BY <1>1, <1>3, <1>5 DEF Reached
<1>7. \A id \in EventIds' : id \notin EventIds => ~Reached(id)' /\ ~InPoll(id)'
  BY <1>1, <1>4 DEF Reached, InPoll
<1>8. \A id \in EventIds : InPoll(id)' <=> InPoll(id)
  BY <1>1 DEF InPoll
<1>9. Typed'
  BY <1>1, <1>2, <1>3 DEF IInv, Typed
<1>10. LogsOfPoll'
  BY <1>1, <1>3, <1>8 DEF IInv, LogsOfPoll
<1>11. RowsAreBehind'
  BY <1>1, <1>3, <1>6 DEF IInv, RowsAreBehind
<1>12. RowsAreReached'
  BY <1>1, <1>3, <1>6, <1>7 DEF IInv, RowsAreReached
<1>13. PoolsDiscovered'
  BY <1>1, <1>3, <1>7, <1>8 DEF IInv, PoolsDiscovered
<1>14. BroadcastsAreFresh'
  <2>1. SUFFICES ASSUME pc = "broadcast", faults = 0, EventOf(NextLog)'.kind \in Trades
                 PROVE  pairs'[EventOf(NextLog)'.pool] = knownPairs'[EventOf(NextLog)'.pool]
    BY <1>1 DEF BroadcastsAreFresh
  <2>2. NextLog \in EventIds
    BY <2>1, NextLogIsFirst DEF IInv, LogsOfPoll
  <2>3. EventOf(NextLog)' = EventOf(NextLog)
    BY <1>3, <1>5, <2>2
  <2>4. QED
    BY <1>1, <2>1, <2>3 DEF IInv, BroadcastsAreFresh
<1>15. QED
  BY <1>3, <1>9, <1>10, <1>11, <1>12, <1>13, <1>14 DEF IInv

-----------------------------------------------------------------------------
LEMMA ChainStays ==
  ASSUME UNCHANGED chain
  PROVE  /\ EventIds' = EventIds
         /\ \A id : EventOf(id)' = EventOf(id)
BY DEF EventIds, EventOf

(* Between two polls only the processed blocks have been reached. *)
LEMMA BetweenPolls ==
  ASSUME Typed, logs = {}, table = 1
  PROVE  \A id : Reached(id) <=> id[1] <= lastProcessedBlock
BY TablesDiffer DEF Typed, Reached

LEMMA StartKeeps == ASSUME IInv, Start PROVE IInv'
<1>1. /\ pc = "down" /\ pc' = "discover" /\ toBlock' = lastProcessedBlock'
      /\ startedAt' = IF startedAt = -1 THEN lastProcessedBlock' ELSE startedAt
      /\ UNCHANGED <<chain, allPairs, rows, table, logs>>
      /\ \/ UNCHANGED faults /\ UNCHANGED blind /\ lastProcessedBlock' = ResumeBlock
         \/ faults' = faults + 1 /\ UNCHANGED blind /\ lastProcessedBlock' = ResumeBlock
         \/ faults' = faults + 1 /\ blind'
            /\ lastProcessedBlock' \in {0, Len(chain)}
  BY DEF Start, NoFault, Fault, chainVars, dbVars
<1>2. Typed /\ logs = {} /\ table = 1 /\ Len(chain) \in Nat
  BY <1>1 DEF IInv, LogsOfPoll, Typed
<1>3. EventIds' = EventIds /\ \A id : EventOf(id)' = EventOf(id)
  BY <1>1, ChainStays
<1>4. /\ ResumeBlock \in Nat /\ ResumeBlock <= Len(chain)
      /\ \A id \in EventIds :
           EventOf(id).kind \in Resumable /\ rows[id] > 0 => id[1] <= ResumeBlock
  BY <1>2, ResumesBehindRows
<1>5. lastProcessedBlock' \in Nat /\ lastProcessedBlock' <= Len(chain)
  BY <1>1, <1>2, <1>4
<1>6. Typed'
  BY <1>1, <1>2, <1>3, <1>5 DEF Typed
<1>7. \A id \in EventIds : Reached(id)' <=> id[1] <= lastProcessedBlock'
  <2>1. EarlierTables(table)' = {}
    BY <1>1, <1>2, TablesDiffer
  <2>2. QED
    BY <1>1, <1>2, <2>1 DEF Reached
<1>8. TradesHavePools' /\ LogsOfPoll' /\ PoolsDiscovered' /\ BroadcastsAreFresh'
  BY <1>1, <1>2, <1>3
     DEF IInv, TradesHavePools, LogsOfPoll, PoolsDiscovered, BroadcastsAreFresh
<1>9. RowsAreBehind'
  <2>1. SUFFICES ASSUME ~blind', NEW id \in EventIds, EventOf(id).kind \in Resumable
                 PROVE  rows[id] <= 1 /\ (rows[id] = 1 => Reached(id)')
    BY <1>1, <1>3 DEF RowsAreBehind
  <2>2. ~blind /\ lastProcessedBlock' = ResumeBlock
    BY <1>1, <2>1
  <2>3. rows[id] <= 1
    BY <2>1, <2>2 DEF IInv, RowsAreBehind
  <2>4. QED
    BY <1>4, <1>7, <2>1, <2>2, <2>3
<1>10. RowsAreReached'
  <2>1. SUFFICES ASSUME faults' = 0
                 PROVE  /\ 0 <= startedAt' /\ startedAt' <= lastProcessedBlock'
                        /\ \A id \in EventIds :
                             rows[id] = IF startedAt' < id[1] /\ Reached(id)' THEN 1 ELSE 0
    BY <1>1, <1>3 DEF RowsAreReached
  <2>2. faults = 0
    BY <1>1, <1>2, <2>1 DEF Typed
  <2>3. startedAt = -1 /\ \A id \in EventIds : rows[id] = 0
    BY <1>1, <2>2 DEF IInv, RowsAreReached
  <2>4. startedAt' = lastProcessedBlock'
    BY <1>1, <2>3
  <2>5. \A id \in EventIds : ~(startedAt' < id[1] /\ Reached(id)')
    BY <1>2, <1>5, <1>7, <2>4, EventsAreTyped DEF Typed
  <2>6. QED
    BY <1>5, <2>3, <2>4, <2>5
<1>11. QED
  BY <1>6, <1>8, <1>9, <1>10 DEF IInv

LEMMA CrashKeeps == ASSUME IInv, Crash PROVE IInv'
<1>1. /\ pc' = "down" /\ faults' = faults + 1
      /\ lastProcessedBlock' = 0 /\ toBlock' = 0 /\ table' = 1 /\ logs' = {}
      /\ UNCHANGED <<chain, allPairs, rows, startedAt, blind>>
  BY DEF Crash, Fault, chainVars, dbVars, history
<1>2. EventIds' = EventIds /\ \A id : EventOf(id)' = EventOf(id)
  BY <1>1, ChainStays
<1>3. Typed' /\ faults' # 0
  BY <1>1, <1>2 DEF IInv, Typed
<1>4. TradesHavePools' /\ LogsOfPoll' /\ PoolsDiscovered' /\ BroadcastsAreFresh'
  BY <1>1, <1>2
     DEF IInv, TradesHavePools, LogsOfPoll, PoolsDiscovered, BroadcastsAreFresh
<1>5. RowsAreBehind' /\ RowsAreReached'
  BY <1>1, <1>2, <1>3 DEF IInv, RowsAreBehind, RowsAreReached
<1>6. QED
  BY <1>3, <1>4, <1>5 DEF IInv

(* What the steps of discovery have in common. *)
LEMMA DiscoveryKeeps ==
  ASSUME IInv, pc = "discover", pc' \in {"discover", "save", "fetch", "idle"},
         UNCHANGED <<chain, allPairs, rows, lastProcessedBlock, toBlock, table, logs,
                     startedAt, blind>>,
         faults' \in {faults, faults + 1},
         faults' = 0 /\ pc' = "fetch" => allPairs \subseteq DOMAIN knownPairs'
  PROVE  IInv'
<1>1. Typed /\ logs = {} /\ table = 1
  BY DEF IInv, LogsOfPoll
<1>2. EventIds' = EventIds /\ \A id : EventOf(id)' = EventOf(id)
  BY ChainStays
<1>3. Typed' /\ (faults' = 0 => faults = 0)
  BY <1>1, <1>2 DEF Typed
<1>4. \A id \in EventIds : Reached(id)' <=> Reached(id)
  BY <1>1, <1>2 DEF Reached
<1>5. TradesHavePools' /\ LogsOfPoll' /\ BroadcastsAreFresh'
  BY <1>1, <1>2 DEF IInv, TradesHavePools, LogsOfPoll, BroadcastsAreFresh
<1>6. RowsAreBehind' /\ RowsAreReached'
  BY <1>2, <1>3, <1>4 DEF IInv, RowsAreBehind, RowsAreReached
<1>7. PoolsDiscovered'
  BY <1>1, <1>2, <1>3, <1>5 DEF TradesHavePools, PoolsDiscovered
<1>8. QED
  BY <1>3, <1>5, <1>6, <1>7 DEF IInv

LEMMA DiscoverPairKeeps == ASSUME IInv, NEW p \in Pools, DiscoverPair(p) PROVE IInv'
<1>1. pc = "discover" /\ pc' \in {"save", "discover"} /\ faults' \in {faults, faults + 1}
  BY DEF DiscoverPair, NoFault, Fault
<1>2. UNCHANGED <<chain, allPairs, rows, lastProcessedBlock, toBlock, table, logs,
                  startedAt, blind>>
  BY DEF DiscoverPair, chainVars, pollVars, history
<1>3. QED
  BY <1>1, <1>2, DiscoveryKeeps

LEMMA DiscoveryOverKeeps == ASSUME IInv, DiscoveryFails \/ DiscoveryEnds PROVE IInv'
<1>1. UNCHANGED <<chain, allPairs, rows, lastProcessedBlock, toBlock, table, logs,
                  startedAt, blind>>
  BY DEF DiscoveryFails, DiscoveryEnds, chainVars, dbVars, pollVars, history
<1>2. /\ pc = "discover" /\ pc' \in {"fetch", "idle"}
      /\ faults' = faults + 1 \/ (faults' = faults /\ allPairs \subseteq DOMAIN knownPairs')
  BY DEF DiscoveryFails, DiscoveryEnds, AfterDiscovery, NoFault, Fault
<1>3. faults + 1 # 0
  BY DEF IInv, Typed
<1>4. QED
  BY <1>1, <1>2, <1>3, DiscoveryKeeps

LEMMA PollKeeps == ASSUME IInv, Poll PROVE IInv'
<1>1. /\ pc = "idle" /\ pc' = "discover" /\ toBlock' = Len(chain)
      /\ Len(chain) > lastProcessedBlock
      /\ UNCHANGED <<chain, allPairs, rows, lastProcessedBlock, table, logs, faults,
                     startedAt, blind>>
  BY DEF Poll, chainVars, dbVars, history
<1>2. Typed /\ logs = {} /\ table = 1 /\ Len(chain) \in Nat
  BY <1>1 DEF IInv, LogsOfPoll, Typed
<1>3. EventIds' = EventIds /\ \A id : EventOf(id)' = EventOf(id)
  BY <1>1, ChainStays
<1>4. Typed'
  BY <1>1, <1>2, <1>3 DEF Typed
<1>5. \A id \in EventIds : Reached(id)' <=> Reached(id)
  <2>1. EarlierTables(table) = {} /\ EarlierTables(table)' = {}
    BY <1>1, <1>2, TablesDiffer
  <2>2. QED
    BY <1>1, <1>2, <2>1 DEF Reached
<1>6. TradesHavePools' /\ LogsOfPoll' /\ PoolsDiscovered' /\ BroadcastsAreFresh'
  BY <1>1, <1>2, <1>3
     DEF IInv, TradesHavePools, LogsOfPoll, PoolsDiscovered, BroadcastsAreFresh
<1>7. RowsAreBehind' /\ RowsAreReached'
  BY <1>1, <1>3, <1>5 DEF IInv, RowsAreBehind, RowsAreReached
<1>8. QED
  BY <1>4, <1>6, <1>7 DEF IInv

-----------------------------------------------------------------------------
(* Going on to the next table gives up what is left of this one.           *)
LEMMA NextTableReaches ==
  ASSUME Typed, NextTable, UNCHANGED <<chain, toBlock>>, logs' = {}
  PROVE  /\ pc' \in {"idle", "fetch"} /\ (table' # 1 => pc' = "fetch")
         /\ lastProcessedBlock' \in {lastProcessedBlock, toBlock}
         /\ lastProcessedBlock' = lastProcessedBlock \/ pc' = "idle"
         /\ table' \in 1..5
         /\ \A id \in EventIds :
              Reached(id)' <=> \/ Reached(id)
                               \/ id[1] <= toBlock /\ EventOf(id).kind = Tables[table]
<1>1. /\ Len(Tables) = 5 /\ table \in 1..5
      /\ EarlierTables(table + 1) = EarlierTables(table) \cup {Tables[table]}
      /\ EarlierTables(1) = {} /\ EarlierTables(6) = {Tables[i] : i \in 1..5}
  BY TablesDiffer DEF Typed
<1>2. \A id : EventOf(id)' = EventOf(id)
  BY ChainStays
<1>3. \A id \in EventIds : EventOf(id).kind \in EarlierTables(6) /\ id[1] \in Nat
  BY <1>1, EventsAreTyped DEF Typed
<1>4. lastProcessedBlock \in Nat /\ toBlock \in Nat /\ lastProcessedBlock <= toBlock
  BY DEF Typed
<1>5. CASE table = 5
  <2>1. pc' = "idle" /\ table' = 1 /\ lastProcessedBlock' = toBlock
    BY <1>1, <1>5 DEF NextTable
  <2>2. \A id \in EventIds : Reached(id)' <=> id[1] <= toBlock
    BY <1>1, <1>2, <2>1 DEF Reached
  <2>3. \A id \in EventIds : \/ EventOf(id).kind \in EarlierTables(table)
                             \/ EventOf(id).kind = Tables[table]
    BY <1>1, <1>3, <1>5
  <2>4. QED
    BY <1>3, <1>4, <2>1, <2>2, <2>3 DEF Reached
<1>6. CASE table # 5
  <2>1. pc' = "fetch" /\ table' = table + 1 /\ lastProcessedBlock' = lastProcessedBlock
    BY <1>1, <1>6 DEF NextTable
  <2>2. EarlierTables(table)' = EarlierTables(table) \cup {Tables[table]}
    BY <1>1, <2>1 DEF EarlierTables
  <2>3. \A id \in EventIds :
          Reached(id)' <=> \/ id[1] <= lastProcessedBlock
                           \/ id[1] <= toBlock /\ \/ EventOf(id).kind \in EarlierTables(table)
                                                  \/ EventOf(id).kind = Tables[table]
    BY <1>2, <2>1, <2>2 DEF Reached
  <2>4. QED
    BY <1>1, <1>6, <2>1, <2>3 DEF Reached
<1>7. QED
  BY <1>5, <1>6

(* The end of a table, which lost no event unless there was a fault.       *)
LEMMA TableEndKeeps ==
  ASSUME IInv, pc \in {"fetch", "broadcast"}, NextTable, logs' = {},
         UNCHANGED <<chain, allPairs, rows, knownPairs, toBlock, startedAt, blind>>,
         faults' \in {faults, faults + 1},
         faults' = 0 =>
           \A id \in EventIds : id[1] <= toBlock /\ EventOf(id).kind = Tables[table]
                                => Reached(id)
  PROVE  IInv'
<1>1. Typed /\ (pc = "fetch" \/ logs # {})
  BY DEF IInv, LogsOfPoll
<1>2. /\ pc' \in {"idle", "fetch"} /\ (table' # 1 => pc' = "fetch")
      /\ lastProcessedBlock' \in {lastProcessedBlock, toBlock}
      /\ lastProcessedBlock' = lastProcessedBlock \/ pc' = "idle"
      /\ table' \in 1..5
      /\ \A id \in EventIds :
           Reached(id)' <=> \/ Reached(id)
                            \/ id[1] <= toBlock /\ EventOf(id).kind = Tables[table]
  BY <1>1, NextTableReaches
<1>3. EventIds' = EventIds /\ \A id : EventOf(id)' = EventOf(id)
  BY ChainStays
<1>4. Typed' /\ (faults' = 0 => faults = 0)
  BY <1>1, <1>2, <1>3 DEF Typed
<1>5. TradesHavePools' /\ LogsOfPoll' /\ BroadcastsAreFresh'
  BY <1>2, <1>3 DEF IInv, TradesHavePools, LogsOfPoll, BroadcastsAreFresh
<1>6. RowsAreBehind'
  BY <1>1, <1>2, <1>3 DEF IInv, RowsAreBehind
<1>7. RowsAreReached'
  <2>1. SUFFICES ASSUME faults' = 0 PROVE RowsAreReached'
    BY DEF RowsAreReached
  <2>2. \A id \in EventIds : Reached(id)' <=> Reached(id)
    BY <1>2, <2>1
  <2>3. 0 <= startedAt /\ startedAt <= lastProcessedBlock'
    BY <1>1, <1>2, <1>4, <2>1 DEF IInv, Typed, RowsAreReached
  <2>4. \A id \in EventIds :
          rows[id] = IF startedAt < id[1] /\ Reached(id)' THEN 1 ELSE 0
    BY <1>1, <1>4, <2>1, <2>2 DEF IInv, RowsAreReached
  <2>5. QED
    BY <1>2, <1>3, <2>3, <2>4 DEF RowsAreReached
<1>8. PoolsDiscovered'
  BY <1>1, <1>2, <1>3, <1>4 DEF IInv, PoolsDiscovered, InPoll
<1>9. QED
  BY <1>4, <1>5, <1>6, <1>7, <1>8 DEF IInv

(* Without faults FilterLogs returns all events of its table and range.    *)
LEMMA FetchesAll ==
  ASSUME IInv, pc = "fetch", faults = 0, NEW id \in EventIds,
         id[1] <= toBlock, EventOf(id).kind = Tables[table]
  PROVE  Reached(id) \/ id \in FilterLogs(Tables[table])
<1>1. SUFFICES ASSUME ~(id[1] <= lastProcessedBlock) PROVE id \in FilterLogs(Tables[table])
  BY DEF Reached
<1>2. lastProcessedBlock \in Nat /\ toBlock \in Nat /\ id[1] \in Nat
  BY EventsAreTyped DEF IInv, Typed
<1>3. InPoll(id) /\ id[1] \in (lastProcessedBlock + 1)..toBlock
  BY <1>1, <1>2 DEF InPoll
<1>4. QED
  BY <1>3 DEF IInv, PoolsDiscovered, FilterLogs

LEMMA FetchKeeps == ASSUME IInv, Fetch PROVE IInv'
<1>1. /\ pc = "fetch"
      /\ UNCHANGED <<chain, allPairs, rows, knownPairs, toBlock, startedAt, blind>>
  BY DEF Fetch, chainVars, dbVars, history
<1>2. Typed /\ logs = {}
  BY <1>1 DEF IInv, LogsOfPoll
<1>3. CASE /\ FilterLogs(Tables[table]) # {} /\ NoFault
           /\ logs' = FilterLogs(Tables[table]) /\ pc' = "insert"
           /\ UNCHANGED <<lastProcessedBlock, table>>
  <2>1. EventIds' = EventIds /\ (\A id : EventOf(id)' = EventOf(id)) /\ faults' = faults
    BY <1>1, <1>3, ChainStays DEF NoFault
  <2>2. Typed'
    BY <1>1, <1>2, <1>3, <2>1 DEF Typed
  <2>3. \A id \in logs' : /\ id \in EventIds /\ InPoll(id)
                          /\ EventOf(id).kind = Tables[table]
                          /\ Tables[table] \in Trades => EventOf(id).pool \in DOMAIN knownPairs
    BY <1>2, <1>3 DEF FilterLogs, InPoll, Typed
  <2>4. \A id : InPoll(id)' <=> InPoll(id)
    BY <1>1, <1>3 DEF InPoll
  <2>5. TradesHavePools' /\ LogsOfPoll' /\ BroadcastsAreFresh'
    BY <1>1, <1>3, <2>1, <2>3, <2>4
       DEF IInv, TradesHavePools, LogsOfPoll, BroadcastsAreFresh
  <2>6. Pending' = logs' /\ logs' # {}
    BY <1>3 DEF Pending
  <2>7. EarlierTables(table)' = EarlierTables(table)
    BY <1>3
  <2>8. \A id \in EventIds : Reached(id) => Reached(id)'
    BY <1>1, <1>2, <1>3, <2>1, <2>7 DEF Reached
  <2>9. ASSUME faults = 0, NEW id \in EventIds, Reached(id)' PROVE Reached(id)
    BY <1>1, <1>3, <2>1, <2>6, <2>7, <2>9, FetchesAll DEF Reached
  <2>10. RowsAreBehind'
    BY <1>1, <1>3, <2>1, <2>8 DEF IInv, RowsAreBehind
  <2>11. RowsAreReached'
    BY <1>1, <1>3, <2>1, <2>8, <2>9 DEF IInv, RowsAreReached
  <2>12. PoolsDiscovered'
    BY <1>1, <2>1, <2>4 DEF IInv, PoolsDiscovered
  <2>13. QED
    BY <2>2, <2>5, <2>10, <2>11, <2>12 DEF IInv
<1>4. CASE FilterLogs(Tables[table]) = {} /\ NoFault /\ NextTable /\ UNCHANGED logs
  <2>1. logs' = {} /\ faults' = faults
    BY <1>2, <1>4 DEF NoFault
  <2>2. faults' = 0 =>
          \A id \in EventIds : id[1] <= toBlock /\ EventOf(id).kind = Tables[table]
                               => Reached(id)
    BY <1>1, <1>4, <2>1, FetchesAll
  <2>3. QED
    BY <1>1, <1>4, <2>1, <2>2, TableEndKeeps
<1>5. CASE Fault("rpc") /\ NextTable /\ UNCHANGED logs
  <2>1. logs' = {} /\ faults' = faults + 1 /\ faults' # 0
    BY <1>2, <1>5 DEF Fault, Typed
  <2>2. QED
    BY <1>1, <1>5, <2>1, TableEndKeeps
<1>6. QED
  BY <1>3, <1>4, <1>5 DEF Fetch

-----------------------------------------------------------------------------
(* The handler of an event: it is reached now, and was not before.         *)
LEMMA HandlerKeeps ==
  ASSUME IInv, pc = "insert", Record,
         pc' = "save" \/ (pc' = "broadcast" /\ EventOf(NextLog).kind \notin Trades),
         UNCHANGED <<chain, allPairs, lastProcessedBlock, toBlock, table, logs,
                     startedAt, blind>>,
         DOMAIN knownPairs' = DOMAIN knownPairs
  PROVE  IInv'
<1>1. Typed /\ LogsOfPoll /\ logs # {}
  BY DEF IInv, LogsOfPoll
<1>2. NextLog \in logs /\ NextLog \in EventIds
  BY <1>1, NextLogIsFirst DEF LogsOfPoll
<1>3. EventOf(NextLog).kind = Tables[table] /\ InPoll(NextLog)
  BY <1>1, <1>2 DEF LogsOfPoll
<1>4. EventIds' = EventIds /\ (\A id : EventOf(id)' = EventOf(id)) /\ NextLog' = NextLog
  BY ChainStays DEF NextLog
<1>5. faults' = faults \/ (faults' = faults + 1 /\ UNCHANGED rows)
  BY DEF Record, NoFault, Fault
<1>6. rows' = [rows EXCEPT ![NextLog] = @ + 1] \/ (faults' = faults + 1 /\ UNCHANGED rows)
  BY DEF Record, Fault
<1>7. rows' \in [EventIds -> Nat] /\ \A id \in EventIds : id # NextLog => rows'[id] = rows[id]
  BY <1>1, <1>2, <1>6 DEF Typed
<1>8. Typed' /\ (faults' = 0 => faults = 0 /\ rows'[NextLog] = rows[NextLog] + 1)
  <2>1. faults' = 0 => faults = 0 /\ rows'[NextLog] = rows[NextLog] + 1
    BY <1>1, <1>2, <1>5, <1>6 DEF Typed
  <2>2. QED
    BY <1>1, <1>4, <1>5, <1>7, <2>1 DEF Typed
<1>9. TradesHavePools' /\ LogsOfPoll' /\ PoolsDiscovered'
  <2>1. \A id : InPoll(id)' <=> InPoll(id)
    BY DEF InPoll
  <2>2. TradesHavePools'
    BY <1>4 DEF IInv, TradesHavePools
  <2>3. LogsOfPoll'
    BY <1>1, <1>4, <2>1 DEF LogsOfPoll
  <2>4. PoolsDiscovered'
    BY <1>1, <1>4, <1>8, <2>1 DEF IInv, PoolsDiscovered
  <2>5. QED
    BY <2>2, <2>3, <2>4
<1>10. BroadcastsAreFresh'
  BY <1>4 DEF BroadcastsAreFresh
<1>11. ~Reached(NextLog)
  <2>1. ~(NextLog[1] <= lastProcessedBlock)
    BY <1>1, <1>2, <1>3, EventsAreTyped DEF InPoll, Typed
  <2>2. EventOf(NextLog).kind \notin EarlierTables(table)
    BY <1>1, <1>3, TablesDiffer DEF Typed
  <2>3. NextLog \in Pending
    BY <1>2 DEF Pending
  <2>4. QED
    BY <2>1, <2>2, <2>3 DEF Reached
<1>12. \A id \in EventIds : Reached(id)' <=> (Reached(id) \/ id = NextLog)
  <2>1. Pending = logs /\ Pending' = logs \ {NextLog}
    BY <1>4 DEF Pending
  <2>2. EarlierTables(table)' = EarlierTables(table)
    OBVIOUS
  <2>3. \A id \in EventIds : id = NextLog => Reached(id)'
    BY <1>1, <1>3, <1>4, <2>1 DEF Reached, InPoll
  <2>4. \A id \in EventIds : id # NextLog => (Reached(id)' <=> Reached(id))
    BY <1>1, <1>4, <2>1, <2>2 DEF Reached
  <2>5. QED
    BY <1>11, <2>3, <2>4
<1>13. RowsAreBehind'
  <2>1. SUFFICES ASSUME ~blind, NEW id \in EventIds, EventOf(id).kind \in Resumable
                 PROVE  rows'[id] <= 1 /\ (rows'[id] = 1 => Reached(id)')
    BY <1>4 DEF RowsAreBehind
  <2>2. rows[id] \in Nat /\ rows[id] <= 1 /\ (rows[id] = 1 => Reached(id))
    BY <1>1, <2>1 DEF IInv, RowsAreBehind, Typed
  <2>3. CASE id = NextLog
    <3>1. rows[id] = 0
      BY <1>11, <2>2, <2>3
    <3>2. QED
      BY <1>1, <1>2, <1>6, <1>12, <2>3, <3>1 DEF Typed
  <2>4. CASE id # NextLog
    BY <1>7, <1>12, <2>2, <2>4
  <2>5. QED
    BY <2>3, <2>4
<1>14. RowsAreReached'
  <2>1. SUFFICES ASSUME faults' = 0, NEW id \in EventIds
                 PROVE  /\ 0 <= startedAt /\ startedAt <= lastProcessedBlock
                        /\ rows'[id] = IF startedAt < id[1] /\ Reached(id)' THEN 1 ELSE 0
    <3>1. EventIds # {}
      BY <1>2
    <3>2. QED
      BY <1>4, <3>1 DEF RowsAreReached
  <2>2. /\ 0 <= startedAt /\ startedAt <= lastProcessedBlock
        /\ rows[id] = IF startedAt < id[1] /\ Reached(id) THEN 1 ELSE 0
    BY <1>8, <2>1 DEF IInv, RowsAreReached
  <2>3. CASE id = NextLog
    <3>1. startedAt < id[1]
      BY <1>1, <1>2, <1>3, <2>2, <2>3, EventsAreTyped DEF InPoll, Typed
    <3>2. rows'[id] = 1
      BY <1>8, <1>11, <2>1, <2>2, <2>3
    <3>3. QED
      BY <1>12, <2>2, <2>3, <3>1, <3>2
  <2>4. CASE id # NextLog
    BY <1>7, <1>12, <2>2, <2>4
  <2>5. QED
    BY <2>3, <2>4
<1>15. QED
  BY <1>8, <1>9, <1>10, <1>13, <1>14 DEF IInv

LEMMA IndexTradeKeeps == ASSUME IInv, NEW kind, IndexTradeEvent(kind) PROVE IInv'
<1>1. /\ pc = "insert" /\ Record /\ pc' = "save"
      /\ UNCHANGED <<chain, allPairs, lastProcessedBlock, toBlock, table, logs,
                     startedAt, blind>>
  BY DEF IndexTradeEvent, Handling, SaveBeforeBroadcast, chainVars, pollVars
<1>2. DOMAIN knownPairs' = DOMAIN knownPairs
  BY DEF IndexTradeEvent, ApplyChange
<1>3. QED
  BY <1>1, <1>2, HandlerKeeps

LEMMA IndexOtherKeeps ==
  ASSUME IInv, NEW kind, kind \notin Trades, IndexOtherEvent(kind) PROVE IInv'
<1>1. /\ pc = "insert" /\ Record /\ pc' = "broadcast" /\ EventOf(NextLog).kind \notin Trades
      /\ UNCHANGED <<chain, allPairs, lastProcessedBlock, toBlock, table, logs,
                     startedAt, blind, knownPairs>>
  BY DEF IndexOtherEvent, Handling, chainVars, pollVars, history
<1>2. QED
  BY <1>1, HandlerKeeps

(* What is announced after Save was saved by it.                           *)
LEMMA SaveKeeps == ASSUME IInv, Save PROVE IInv'
<1>1. /\ pc = "save" /\ pc' = IF logs = {} THEN "discover" ELSE "broadcast"
      /\ UNCHANGED <<chain, allPairs, rows, knownPairs, lastProcessedBlock, toBlock, table,
                     logs, startedAt, blind>>
      /\ faults' \in {faults, faults + 1}
  BY DEF Save, NoFault, Fault, chainVars, pollVars, history
<1>2. Typed /\ LogsOfPoll
  BY DEF IInv
<1>3. EventIds' = EventIds /\ (\A id : EventOf(id)' = EventOf(id)) /\ NextLog' = NextLog
  BY <1>1, ChainStays DEF NextLog
<1>4. Typed' /\ (faults' = 0 => faults = 0 /\ NoFault)
  BY <1>1, <1>2, <1>3 DEF Typed, NoFault
<1>5. \A id : Reached(id)' <=> Reached(id)
  <2>1. logs # {} => Pending' = Pending
    BY <1>1, <1>3 DEF Pending
  <2>2. EarlierTables(table)' = EarlierTables(table)
    BY <1>1
  <2>3. QED
    BY <1>1, <1>3, <2>1, <2>2 DEF Reached
<1>6. TradesHavePools' /\ LogsOfPoll' /\ PoolsDiscovered'
  BY <1>1, <1>2, <1>3, <1>4
     DEF IInv, TradesHavePools, LogsOfPoll, PoolsDiscovered, InPoll
<1>7. RowsAreBehind' /\ RowsAreReached'
  BY <1>1, <1>3, <1>4, <1>5 DEF IInv, RowsAreBehind, RowsAreReached
<1>8. BroadcastsAreFresh'
  <2>1. SUFFICES ASSUME pc' = "broadcast", EventOf(NextLog).kind \in Trades, faults' = 0
                 PROVE  pairs'[EventOf(NextLog).pool] = knownPairs'[EventOf(NextLog).pool]
    BY <1>3 DEF BroadcastsAreFresh
  <2>2. logs # {} /\ NextLog \in logs
    BY <1>1, <1>2, <2>1, NextLogIsFirst
  <2>3. EventOf(NextLog).pool \in DOMAIN knownPairs
    BY <1>2, <2>1, <2>2 DEF LogsOfPoll
  <2>4. pairs' = [p \in DOMAIN pairs \cup DOMAIN knownPairs |->
                    IF p \in DOMAIN knownPairs THEN knownPairs[p] ELSE pairs[p]]
    <3>1. ~Fault("insert")
      BY <1>2, <1>4, <2>1 DEF Fault, Typed
    <3>2. QED
      BY <3>1 DEF Save
  <2>5. QED
    BY <1>1, <2>3, <2>4
<1>9. QED
  BY <1>4, <1>6, <1>7, <1>8 DEF IInv

LEMMA BroadcastKeeps == ASSUME IInv, Broadcast PROVE IInv'
<1>1. /\ pc = "broadcast" /\ logs' = logs \ {NextLog}
      /\ UNCHANGED <<chain, allPairs, rows, knownPairs, toBlock, faults, startedAt, blind>>
      /\ IF logs' # {} THEN pc' = "insert" /\ UNCHANGED <<lastProcessedBlock, table>>
         ELSE NextTable
  BY DEF Broadcast, chainVars, dbVars, history
<1>2. Typed /\ LogsOfPoll /\ logs # {}
  BY <1>1 DEF IInv, LogsOfPoll
<1>3. Pending = logs'
  BY <1>1 DEF Pending
<1>4. CASE logs' = {}
  <2>1. \A id \in EventIds : id[1] <= toBlock /\ EventOf(id).kind = Tables[table] => Reached(id)
    BY <1>2, <1>3, <1>4 DEF Reached
  <2>2. QED
    BY <1>1, <1>4, <2>1, TableEndKeeps
<1>5. CASE logs' # {}
  <2>1. pc' = "insert" /\ UNCHANGED <<lastProcessedBlock, table>>
    BY <1>1, <1>5
  <2>2. EventIds' = EventIds /\ \A id : EventOf(id)' = EventOf(id)
    BY <1>1, ChainStays
  <2>3. Typed'
    BY <1>1, <1>2, <2>1, <2>2 DEF Typed
  <2>4. Pending' = logs'
    BY <2>1 DEF Pending
  <2>5. EarlierTables(table)' = EarlierTables(table)
    BY <2>1
  <2>6. \A id : Reached(id)' <=> Reached(id)
    BY <1>1, <1>2, <1>3, <1>5, <2>1, <2>2, <2>4, <2>5 DEF Reached
  <2>7. TradesHavePools' /\ LogsOfPoll' /\ PoolsDiscovered' /\ BroadcastsAreFresh'
    BY <1>1, <1>2, <1>5, <2>1, <2>2
       DEF IInv, TradesHavePools, LogsOfPoll, PoolsDiscovered, InPoll, BroadcastsAreFresh
  <2>8. RowsAreBehind' /\ RowsAreReached'
    BY <1>1, <2>1, <2>2, <2>6 DEF IInv, RowsAreBehind, RowsAreReached
  <2>9. QED
    BY <2>3, <2>7, <2>8 DEF IInv
<1>6. QED
  BY <1>4, <1>5

-----------------------------------------------------------------------------
LEMMA StutterKeeps == ASSUME IInv, UNCHANGED vars PROVE IInv'
<1>1. UNCHANGED <<chain, allPairs, rows, pairs, knownPairs, pc, lastProcessedBlock, toBlock,
                  table, logs, faults, startedAt, blind>>
  BY DEF vars, chainVars, dbVars, pollVars, history
<1>2. /\ EventIds' = EventIds /\ (\A id : EventOf(id)' = EventOf(id))
      /\ NextLog' = NextLog /\ Pending' = Pending
  BY <1>1, ChainStays DEF NextLog, Pending
<1>3. \A id : (Reached(id)' <=> Reached(id)) /\ (InPoll(id)' <=> InPoll(id))
  BY <1>1, <1>2 DEF Reached, InPoll
<1>4. Typed' /\ TradesHavePools' /\ BroadcastsAreFresh'
  BY <1>1, <1>2 DEF IInv, Typed, TradesHavePools, BroadcastsAreFresh
<1>5. LogsOfPoll' /\ PoolsDiscovered'
  BY <1>1, <1>2, <1>3 DEF IInv, LogsOfPoll, PoolsDiscovered
<1>6. RowsAreBehind' /\ RowsAreReached'
  BY <1>1, <1>2, <1>3 DEF IInv, RowsAreBehind, RowsAreReached
<1>7. QED
  BY <1>4, <1>5, <1>6 DEF IInv

(* The invariant holds of every state, with any faults in any order.       *)
THEOREM Inductive == Spec => []IInv
<1>1. ASSUME IInv, Next PROVE IInv'
  <2>1. CASE \E events \in BlockContents, newPools \in SUBSET Pools : Mine(events, newPools)
    BY <1>1, <2>1, MineKeeps
  <2>2. CASE Start
    BY <1>1, <2>2, StartKeeps
  <2>3. CASE \E p \in Pools : DiscoverPair(p)
    BY <1>1, <2>3, DiscoverPairKeeps
  <2>4. CASE DiscoveryFails \/ DiscoveryEnds
    BY <1>1, <2>4, DiscoveryOverKeeps
  <2>5. CASE Poll
    BY <1>1, <2>5, PollKeeps
  <2>6. CASE Fetch
    BY <1>1, <2>6, FetchKeeps
  <2>7. CASE IndexLiquidityEvent \/ IndexSwapEvent
    BY <1>1, <2>7, IndexTradeKeeps DEF IndexLiquidityEvent, IndexSwapEvent
  <2>8. CASE IndexStakingEvent \/ IndexGovernorEvent \/ IndexDelegateEvent
    <3>1. "staking" \notin Trades /\ "governance" \notin Trades /\ "delegate" \notin Trades
      BY DEF Trades
    <3>2. QED
      BY <1>1, <2>8, <3>1, IndexOtherKeeps
         DEF IndexStakingEvent, IndexGovernorEvent, IndexDelegateEvent
  <2>9. CASE Save
    BY <1>1, <2>9, SaveKeeps
  <2>10. CASE Broadcast
    BY <1>1, <2>10, BroadcastKeeps
  <2>11. CASE Crash
    BY <1>1, <2>11, CrashKeeps
  <2>12. QED
    BY <1>1, <2>1, <2>2, <2>3, <2>4, <2>5, <2>6, <2>7, <2>8, <2>9, <2>10, <2>11
       DEF Next, Step
<1>2. IInv /\ [Next]_vars => IInv'
  BY <1>1, StutterKeeps
<1>3. QED
  BY <1>2, InitHolds, PTL DEF Spec

(* No trade or stake is recorded twice, however often the indexer crashes, *)
(* calls fail and blocks arrive, if each restart finds out where to resume.*)
THEOREM RecordedOnce == Spec => []NeverRecordedTwice
<1>1. IInv => NeverRecordedTwice
  BY DEF IInv, RowsAreBehind, NeverRecordedTwice
<1>2. QED
  BY <1>1, Inductive, PTL

(* Without faults the rows are those of the processed blocks, one of each  *)
(* event, for any number of pools and however blocks fall into polls.      *)
THEOREM RowsMatch == Spec => []RowsMatchChain
<1>1. ASSUME IInv PROVE RowsMatchChain
  <2>1. SUFFICES ASSUME faults = 0, pc = "idle", NEW id \in EventIds
                 PROVE  rows[id] = IF id[1] \in (startedAt + 1)..lastProcessedBlock THEN 1 ELSE 0
    BY DEF RowsMatchChain
  <2>2. Typed /\ logs = {} /\ table = 1
    BY <1>1, <2>1 DEF IInv, LogsOfPoll
  <2>3. Reached(id) <=> id[1] <= lastProcessedBlock
    BY <2>2, BetweenPolls
  <2>4. rows[id] = IF startedAt < id[1] /\ Reached(id) THEN 1 ELSE 0
    BY <1>1, <2>1 DEF IInv, RowsAreReached
  <2>5. id[1] \in (startedAt + 1)..lastProcessedBlock <=> (startedAt < id[1] /\ Reached(id))
    BY <2>2, <2>3, EventsAreTyped DEF Typed
  <2>6. QED
    BY <2>4, <2>5
<1>2. QED
  BY <1>1, Inductive, PTL

(* When a trade is announced the table has the reserves it led to.         *)
THEOREM BroadcastsFresh == Spec => []BroadcastsAreFresh
<1>1. IInv => BroadcastsAreFresh
  BY DEF IInv
<1>2. QED
  BY <1>1, Inductive, PTL

-----------------------------------------------------------------------------
(* Reserves.  The chain and the indexer add up the same changes in another *)
(* order; both are sums over sets of events, which have none.              *)
Share(p, k, e) == IF e.kind \in Trades /\ e.pool = p THEN e.change[k] ELSE 0
Shares(p, k, events) == [i \in DOMAIN events |-> Share(p, k, events[i])]
Delta(p, k) == [id \in EventIds |-> Share(p, k, EventOf(id))]
Total(p, k, S) == SumFunctionOnSet(Delta(p, k), S)

LEMMA ShareIsInt ==
  ASSUME NEW e \in Event, NEW p, NEW k \in {1, 2}
  PROVE  Share(p, k, e) \in Int
BY DEF Share, Event

LEMMA MaxOfIndices ==
  ASSUME NEW n \in Nat, NEW s \in SUBSET (1..n), s # {}
  PROVE  Max(s) \in s
BY GreatestNat

(* The chain's fold over the events of a block is a sum. *)
Follows(g, p, r, events) ==
  g = [s \in SUBSET DOMAIN events |->
         IF s = {} THEN r
         ELSE IF events[Max(s)].kind \in Trades /\ events[Max(s)].pool = p
              THEN Changed(g[s \ {Max(s)}], events[Max(s)].change)
              ELSE g[s \ {Max(s)}]]

LEMMA FoldFollows ==
  ASSUME NEW p, NEW r, NEW events
  PROVE  ReservesAfter(p, r, events) = (CHOOSE g : Follows(g, p, r, events))[DOMAIN events]
BY DEF ReservesAfter, FoldLeft, MapThenFoldSet, Follows

Summed(p, r, events, s) ==
  <<r[1] + SumFunctionOnSet(Shares(p, 1, events), s),
    r[2] + SumFunctionOnSet(Shares(p, 2, events), s)>>

LEMMA SumOfShares ==
  ASSUME NEW p, NEW events \in Seq(Event), NEW k \in {1, 2},
         NEW s \in SUBSET DOMAIN events
  PROVE  /\ IsFiniteSet(s) /\ SumFunctionOnSet(Shares(p, k, events), s) \in Int
         /\ s # {} => /\ Max(s) \in s
                      /\ SumFunctionOnSet(Shares(p, k, events), s)
                           = Share(p, k, events[Max(s)])
                             + SumFunctionOnSet(Shares(p, k, events), s \ {Max(s)})
<1> DEFINE f == Shares(p, k, events)
<1>1. DOMAIN events = 1..Len(events) /\ Len(events) \in Nat
  OBVIOUS
<1>2. IsFiniteSet(s)
  <2>1. IsFiniteSet(1..Len(events))
    BY <1>1, FS_Interval
  <2>2. QED
    BY <1>1, <2>1, FS_Subset
<1>3. \A i \in DOMAIN events : f[i] = Share(p, k, events[i]) /\ f[i] \in Int
  <2>1. \A i \in DOMAIN events : events[i] \in Event
    OBVIOUS
  <2>2. QED
    BY <2>1, ShareIsInt DEF Shares
<1> HIDE DEF f
<1>4. \A i \in s : f[i] \in Int
  BY <1>3
<1>5. SumFunctionOnSet(f, s) \in Int
  BY <1>2, <1>4, SumType
<1>6. \A i \in s : SumFunctionOnSet(f, s) = f[i] + SumFunctionOnSet(f, s \ {i})
  BY <1>2, <1>4, SumRemove
<1>7. s # {} => Max(s) \in s
  BY <1>1, MaxOfIndices
<1>8. QED
  BY <1>2, <1>3, <1>5, <1>6, <1>7 DEF f

LEMMA StepOfSum ==
  ASSUME NEW p, NEW r \in Int \X Int, NEW events \in Seq(Event),
         NEW s \in SUBSET DOMAIN events
  PROVE  /\ s = {} => Summed(p, r, events, s) = r
         /\ s # {} =>
              /\ Max(s) \in s
              /\ Summed(p, r, events, s)
                   = IF events[Max(s)].kind \in Trades /\ events[Max(s)].pool = p
                     THEN Changed(Summed(p, r, events, s \ {Max(s)}), events[Max(s)].change)
                     ELSE Summed(p, r, events, s \ {Max(s)})
<1>1. s = {} => Summed(p, r, events, s) = r
  BY SumEmpty DEF Summed
<1>2. SUFFICES ASSUME s # {}
               PROVE  /\ Max(s) \in s
                      /\ Summed(p, r, events, s)
                           = IF events[Max(s)].kind \in Trades /\ events[Max(s)].pool = p
                             THEN Changed(Summed(p, r, events, s \ {Max(s)}), events[Max(s)].change)
                             ELSE Summed(p, r, events, s \ {Max(s)})
  BY <1>1
<1> DEFINE e == events[Max(s)]
           rest == s \ {Max(s)}
           sum(k, t) == SumFunctionOnSet(Shares(p, k, events), t)
<1>3. Max(s) \in s /\ \A k \in {1, 2} : sum(k, s) = Share(p, k, e) + sum(k, rest)
  <2>1. \A k \in {1, 2} :
          /\ Max(s) \in s
          /\ SumFunctionOnSet(Shares(p, k, events), s)
               = Share(p, k, events[Max(s)])
                 + SumFunctionOnSet(Shares(p, k, events), s \ {Max(s)})
    <3>1. ASSUME NEW k \in {1, 2}
          PROVE SumFunctionOnSet(Shares(p, k, events), s)
               = Share(p, k, events[Max(s)])
                 + SumFunctionOnSet(Shares(p, k, events), s \ {Max(s)})
      BY <1>2, SumOfShares
    <3>2. Max(s) \in s
      BY <1>2, SumOfShares
    <3>3. QED
      BY <3>1, <3>2
  <2>2. QED
    BY <2>1
<1>4. \A k \in {1, 2} : sum(k, rest) \in Int
  BY SumOfShares
<1>5. e \in Event
  BY <1>3
<1>6. Summed(p, r, events, s) = <<r[1] + sum(1, s), r[2] + sum(2, s)>>
      /\ Summed(p, r, events, rest) = <<r[1] + sum(1, rest), r[2] + sum(2, rest)>>
  BY DEF Summed
<1> HIDE DEF e, rest, sum
<1>7. CASE e.kind \in Trades /\ e.pool = p
  <2>1. e.change[1] \in Int /\ e.change[2] \in Int
    BY <1>5 DEF Event
  <2>2. sum(1, s) = e.change[1] + sum(1, rest) /\ sum(2, s) = e.change[2] + sum(2, rest)
    BY <1>3, <1>7 DEF Share
  <2>3. /\ r[1] + sum(1, s) = (r[1] + sum(1, rest)) + e.change[1]
        /\ r[2] + sum(2, s) = (r[2] + sum(2, rest)) + e.change[2]
    BY <1>4, <2>1, <2>2
  <2>4. Summed(p, r, events, s) = Changed(Summed(p, r, events, rest), e.change)
    BY <1>6, <2>3 DEF Changed
  <2>5. QED
    BY <1>3, <1>7, <2>4 DEF e, rest
<1>8. CASE ~(e.kind \in Trades /\ e.pool = p)
  <2>1. sum(1, s) = 0 + sum(1, rest) /\ sum(2, s) = 0 + sum(2, rest)
    BY <1>3, <1>8 DEF Share
  <2>2. Summed(p, r, events, s) = Summed(p, r, events, rest)
    BY <1>4, <1>6, <2>1
  <2>3. QED
    BY <1>3, <1>8, <2>2 DEF e, rest
<1>9. QED
  BY <1>7, <1>8

LEMMA FoldIs ==
  ASSUME NEW p, NEW r \in Int \X Int, NEW events \in Seq(Event)
  PROVE  ReservesAfter(p, r, events) = Summed(p, r, events, DOMAIN events)
<1> DEFINE D == DOMAIN events
           h == [s \in SUBSET D |-> Summed(p, r, events, s)]
           G == CHOOSE g : Follows(g, p, r, events)
           Same == {s \in SUBSET D : G[s] = Summed(p, r, events, s)}
<1>1. IsFiniteSet(D)
  BY SumOfShares
<1>2. Follows(h, p, r, events)
  <2>1. h = [s \in SUBSET D |->
               IF s = {} THEN r
               ELSE IF events[Max(s)].kind \in Trades /\ events[Max(s)].pool = p
                    THEN Changed(h[s \ {Max(s)}], events[Max(s)].change)
                    ELSE h[s \ {Max(s)}]]
    <3>1. ASSUME NEW s \in SUBSET D
          PROVE  Summed(p, r, events, s)
                   = IF s = {} THEN r
                     ELSE IF events[Max(s)].kind \in Trades /\ events[Max(s)].pool = p
                          THEN Changed(h[s \ {Max(s)}], events[Max(s)].change)
                          ELSE h[s \ {Max(s)}]
      <4>1. s \ {Max(s)} \in SUBSET D
        OBVIOUS
      <4>2. h[s \ {Max(s)}] = Summed(p, r, events, s \ {Max(s)})
        BY <4>1
      <4> HIDE DEF h
      <4>3. QED
        BY <4>2, StepOfSum
    <3>2. QED
      BY <3>1
  <2> HIDE DEF h
  <2>2. QED
    BY <2>1 DEF Follows
<1>3. Follows(G, p, r, events)
  BY <1>2
<1> HIDE DEF h, G
<1>4. \A s \in SUBSET D :
        G[s] = IF s = {} THEN r
               ELSE IF events[Max(s)].kind \in Trades /\ events[Max(s)].pool = p
                    THEN Changed(G[s \ {Max(s)}], events[Max(s)].change)
                    ELSE G[s \ {Max(s)}]
  BY <1>3 DEF Follows
<1>5. ASSUME NEW s \in SUBSET D, \A t \in SUBSET s : t # s => t \in Same
      PROVE  s \in Same
  <2>1. CASE s = {}
    <3>1. Summed(p, r, events, s) = r
      BY <2>1, StepOfSum
    <3>2. G[s] = r
      BY <1>4, <2>1
    <3>3. QED
      BY <3>1, <3>2
  <2>2. CASE s # {}
    <3>1. Max(s) \in s
      BY <2>2, StepOfSum
    <3>2. s \ {Max(s)} \in Same
      BY <1>5, <3>1
    <3>3. G[s \ {Max(s)}] = Summed(p, r, events, s \ {Max(s)})
      BY <3>2
    <3>4. G[s] = IF events[Max(s)].kind \in Trades /\ events[Max(s)].pool = p
                 THEN Changed(Summed(p, r, events, s \ {Max(s)}), events[Max(s)].change)
                 ELSE Summed(p, r, events, s \ {Max(s)})
      BY <1>4, <2>2, <3>3
    <3>5. G[s] = Summed(p, r, events, s)
      BY <2>2, <3>4, StepOfSum
    <3>6. QED
      BY <3>5
  <2>3. QED
    BY <2>1, <2>2
<1>6. \A s \in SUBSET D : s \in Same
  <2> HIDE DEF Same, D
  <2>1. QED
    BY <1>1, <1>5, SubsetInduction
<1>7. G[D] = Summed(p, r, events, D)
  BY <1>6
<1>8. QED
  BY <1>7, FoldFollows DEF G

(* A block adds the sum of its events. *)
WithBlock(S, b, U) == S \cup {b} \X U

LEMMA SumOfBlock ==
  ASSUME NEW S, IsFiniteSet(S), NEW b, NEW U, IsFiniteSet(U), NEW f, NEW g,
         \A x \in S : f[x] \in Int,
         \A i \in U : f[<<b, i>>] = g[i] /\ g[i] \in Int /\ <<b, i>> \notin S
  PROVE  /\ IsFiniteSet(WithBlock(S, b, U))
         /\ SumFunctionOnSet(f, WithBlock(S, b, U))
              = SumFunctionOnSet(f, S) + SumFunctionOnSet(g, U)
<1> DEFINE Plus(V) == S \cup {b} \X V
           Good == {V \in SUBSET U :
                      /\ IsFiniteSet(Plus(V))
                      /\ SumFunctionOnSet(f, Plus(V))
                           = SumFunctionOnSet(f, S) + SumFunctionOnSet(g, V)}
<1>1. SumFunctionOnSet(f, S) \in Int
  BY SumType
<1>2. \A V \in SUBSET U : IsFiniteSet(V) /\ SumFunctionOnSet(g, V) \in Int
  <2>1. SUFFICES ASSUME NEW V \in SUBSET U
                 PROVE  IsFiniteSet(V) /\ SumFunctionOnSet(g, V) \in Int
    OBVIOUS
  <2>2. IsFiniteSet(V)
    BY FS_Subset
  <2>3. QED
    BY <2>2, SumType
<1>3. ASSUME NEW V \in SUBSET U, \A W \in SUBSET V : W # V => W \in Good
      PROVE  V \in Good
  <2>1. CASE V = {}
    <3>1. Plus(V) = S
      BY <2>1
    <3>2. SumFunctionOnSet(g, V) = 0
      BY <2>1, SumEmpty
    <3> HIDE DEF Plus
    <3>3. SumFunctionOnSet(f, Plus(V)) = SumFunctionOnSet(f, S) + SumFunctionOnSet(g, V)
      BY <1>1, <3>1, <3>2
    <3>4. QED
      BY <3>1, <3>3
  <2>2. CASE V # {}
    <3>1. PICK i \in V : TRUE
      BY <2>2
    <3> DEFINE W == V \ {i}
    <3>2. W \in Good
      BY <1>3, <3>1
    <3>3. /\ Plus(V) = Plus(W) \cup {<<b, i>>} /\ <<b, i>> \notin Plus(W)
          /\ Plus(V) \ {<<b, i>>} = Plus(W) /\ <<b, i>> \in Plus(V)
      BY <3>1
    <3>4. \A x \in Plus(V) : f[x] \in Int
      OBVIOUS
    <3>5. IsFiniteSet(Plus(W)) /\ SumFunctionOnSet(f, Plus(W))
            = SumFunctionOnSet(f, S) + SumFunctionOnSet(g, W)
      BY <3>2
    <3>6. f[<<b, i>>] = g[i] /\ g[i] \in Int /\ \A j \in V : g[j] \in Int
      BY <3>1
    <3>7. SumFunctionOnSet(g, W) \in Int
      BY <1>2
    <3> HIDE DEF Plus, W
    <3>8. IsFiniteSet(Plus(V))
      BY <3>3, <3>5, FS_AddElement
    <3>9. SumFunctionOnSet(f, Plus(V)) = f[<<b, i>>] + SumFunctionOnSet(f, Plus(W))
      BY <3>3, <3>4, <3>8, SumRemove
    <3>10. SumFunctionOnSet(g, V) = g[i] + SumFunctionOnSet(g, W)
      <4>1. IsFiniteSet(V)
        BY <1>2
      <4>2. QED
        BY <3>1, <3>6, <4>1, SumRemove DEF W
    <3>11. SumFunctionOnSet(f, Plus(V)) = SumFunctionOnSet(f, S) + SumFunctionOnSet(g, V)
      BY <1>1, <3>5, <3>6, <3>7, <3>9, <3>10
    <3>12. QED
      BY <3>8, <3>11
  <2>3. QED
    BY <2>1, <2>2
<1>4. U \in Good
  <2> HIDE DEF Good
  <2>1. \A V \in SUBSET U : V \in Good
    BY <1>3, SubsetInduction
  <2>2. QED
    BY <2>1
<1>5. QED
  BY <1>4 DEF WithBlock

UpTo(b) == {id \in EventIds : id[1] <= b}
AtBlock(p, k, b) == SumFunctionOnSet(Delta(p, k), UpTo(b))

(* The events that are in the reserves in memory, as long as nothing fails: *)
(* those before the first start, and those that have a row.                 *)
Counted == {id \in EventIds : id[1] <= startedAt \/ rows[id] = 1}
InMemory(p, k) == SumFunctionOnSet(Delta(p, k), Counted)

ChainTyped ==
  /\ chain \in Seq(BlockContents) /\ allPairs \in SUBSET Pools
  /\ reserves \in Seq([Pools -> Reserves]) /\ Len(reserves) = Len(chain) + 1
  /\ IsFiniteSet(EventIds)

ReservesOf(known) == DOMAIN known \subseteq allPairs /\ known \in [DOMAIN known -> Reserves]

(* The chain's reserves are the sums of all changes. *)
ReservesAddUp ==
  \A b \in 0..Len(chain) : \A p \in Pools :
    reserves[b + 1][p] = <<AtBlock(p, 1, b), AtBlock(p, 2, b)>>

(* So are the indexer's, of the changes counted so far. *)
MemoryAddsUp ==
  (faults = 0 /\ ~clamped) =>
    \A p \in DOMAIN knownPairs : knownPairs[p] = <<InMemory(p, 1), InMemory(p, 2)>>

(* The table pairs lags behind the memory only until it is saved. *)
PairsSaved ==
  faults = 0 =>
    /\ DOMAIN pairs \subseteq DOMAIN knownPairs
    /\ pc # "save" => pairs = knownPairs
    /\ pc = "down" => DOMAIN pairs = {}

RInv ==
  /\ ChainTyped /\ ReservesOf(pairs) /\ ReservesOf(knownPairs) /\ clamped \in BOOLEAN
  /\ ReservesAddUp /\ MemoryAddsUp /\ PairsSaved

(* Events that are asked for have integers to add. *)
LEMMA DeltaIsInt ==
  ASSUME Typed, NEW p, NEW k \in {1, 2}, NEW id \in EventIds
  PROVE  Delta(p, k)[id] = Share(p, k, EventOf(id)) /\ Delta(p, k)[id] \in Int
<1>1. EventOf(id) \in Event
  BY EventsAreTyped DEF Typed
<1>2. QED
  BY <1>1, ShareIsInt DEF Delta

(* Between two polls the events counted are those of the processed blocks. *)
LEMMA CountedBetweenPolls ==
  ASSUME IInv, faults = 0, pc # "down", logs = {}, table = 1
  PROVE  Counted = UpTo(lastProcessedBlock)
<1>1. \A id : Reached(id) <=> id[1] <= lastProcessedBlock
  BY BetweenPolls DEF IInv
<1>2. /\ startedAt <= lastProcessedBlock
      /\ \A id \in EventIds : rows[id] = IF startedAt < id[1] /\ Reached(id) THEN 1 ELSE 0
  BY DEF IInv, RowsAreReached
<1>3. startedAt \in Int /\ lastProcessedBlock \in Nat
  BY DEF IInv, Typed
<1>4. ASSUME NEW id \in EventIds
      PROVE  id[1] <= startedAt \/ rows[id] = 1 <=> id[1] <= lastProcessedBlock
  <2>1. id[1] \in Nat
    BY EventsAreTyped DEF IInv, Typed
  <2>2. rows[id] = 1 <=> startedAt < id[1] /\ id[1] <= lastProcessedBlock
    BY <1>1, <1>2
  <2>3. QED
    BY <1>2, <1>3, <2>1, <2>2
<1>5. QED
  BY <1>4 DEF Counted, UpTo

(* The event about to be handled has not been counted. *)
LEMMA NextLogIsNew ==
  ASSUME IInv, pc = "insert", faults = 0
  PROVE  /\ NextLog \in EventIds /\ NextLog \notin Counted /\ rows[NextLog] = 0
         /\ EventOf(NextLog) \in Event
         /\ EventOf(NextLog).kind \in Trades => EventOf(NextLog).pool \in DOMAIN knownPairs
<1>1. NextLog \in logs
  BY NextLogIsFirst DEF IInv, LogsOfPoll
<1>2. /\ NextLog \in EventIds /\ InPoll(NextLog) /\ EventOf(NextLog).kind = Tables[table]
      /\ Tables[table] \in Trades => EventOf(NextLog).pool \in DOMAIN knownPairs
  BY <1>1 DEF IInv, LogsOfPoll
<1>3. EventOf(NextLog) \in Event /\ NextLog[1] \in Nat
  BY <1>2, EventsAreTyped DEF IInv, Typed
<1>4. /\ startedAt <= lastProcessedBlock
      /\ rows[NextLog] = IF startedAt < NextLog[1] /\ Reached(NextLog) THEN 1 ELSE 0
  BY <1>2 DEF IInv, RowsAreReached
<1>5. startedAt \in Int /\ lastProcessedBlock \in Nat /\ toBlock \in Nat /\ table \in 1..5
  BY DEF IInv, Typed
<1>6. ~(NextLog[1] <= lastProcessedBlock) /\ ~(NextLog[1] <= startedAt)
  BY <1>2, <1>3, <1>4, <1>5 DEF InPoll
<1>7. ~Reached(NextLog)
  BY <1>1, <1>2, <1>5, <1>6, TablesDiffer DEF Reached, Pending
<1>8. rows[NextLog] = 0
  BY <1>4, <1>7
<1>9. QED
  BY <1>2, <1>3, <1>6, <1>8 DEF Counted

-----------------------------------------------------------------------------
LEMMA InitReserves == Init => RInv
<1>1. SUFFICES ASSUME Init PROVE RInv
  OBVIOUS
<1> USE <1>1 DEF Init
<1>2. EventIds = {}
  BY EventIdsAre
<1>3. reserves = <<[p \in Pools |-> Nothing]>> /\ \A p \in Pools : reserves[1][p] = <<0, 0>>
  BY DEF Nothing
<1>4. [p \in Pools |-> Nothing] \in [Pools -> Reserves]
  BY DEF Nothing, Reserves
<1>5. ChainTyped
  <2>1. IsFiniteSet(EventIds)
    BY <1>2, FS_EmptySet
  <2>2. chain \in Seq(BlockContents) /\ Len(chain) = 0 /\ Len(reserves) = 1
    OBVIOUS
  <2>3. reserves \in Seq([Pools -> Reserves])
    BY <1>4
  <2>4. QED
    BY <2>1, <2>2, <2>3 DEF ChainTyped
<1>6. ReservesAddUp
  <2>1. \A p, k, b : AtBlock(p, k, b) = 0
    <3>1. \A b : UpTo(b) = {}
      BY <1>2 DEF UpTo
    <3>2. QED
      BY <3>1, SumEmpty DEF AtBlock
  <2>2. 0..Len(chain) = {0}
    OBVIOUS
  <2>3. QED
    BY <1>3, <2>1, <2>2 DEF ReservesAddUp
<1>7. /\ ReservesOf(pairs) /\ ReservesOf(knownPairs) /\ clamped \in BOOLEAN
      /\ MemoryAddsUp /\ PairsSaved
  BY DEF ReservesOf, MemoryAddsUp, PairsSaved
<1>8. QED
  BY <1>5, <1>6, <1>7 DEF RInv

(* The reserves after a block, under its transactions' own guards. *)
LEMMA MinedReserves ==
  ASSUME IInv, RInv, NEW events \in BlockContents, NEW newPools \in SUBSET Pools,
         Mine(events, newPools), NEW p \in Pools
  PROVE  /\ Last(reserves)[p] = reserves[Len(chain) + 1][p]
         /\ ReservesAfter(p, Last(reserves)[p], events)
              = Summed(p, Last(reserves)[p], events, DOMAIN events)
         /\ Last(reserves)[p] \in Reserves
         /\ ReservesAfter(p, Last(reserves)[p], events) \in Reserves
<1> DEFINE r == Last(reserves)[p]
           after == ReservesAfter(p, r, events)
<1>1. events \in Seq(Event)
  BY IndexerAssumption
<1>2. /\ Last(reserves) = reserves[Len(chain) + 1]
      /\ reserves[Len(chain) + 1] \in [Pools -> Reserves]
  BY DEF RInv, ChainTyped, Last
<1>3. r \in Reserves /\ r \in Int \X Int
  BY <1>2 DEF Reserves
<1>4. after = Summed(p, r, events, DOMAIN events)
  BY <1>1, <1>3, FoldIs
<1>5. after = <<after[1], after[2]>> /\ after[1] \in Int /\ after[2] \in Int
  <2> DEFINE a == SumFunctionOnSet(Shares(p, 1, events), DOMAIN events)
             b == SumFunctionOnSet(Shares(p, 2, events), DOMAIN events)
  <2>1. a \in Int /\ b \in Int
    BY <1>1, SumOfShares
  <2>2. after = <<r[1] + a, r[2] + b>>
    BY <1>4 DEF Summed
  <2> HIDE DEF a, b, after, r
  <2>3. QED
    BY <1>3, <2>1, <2>2
<1>6. CASE Len(events) = 0
  <2>1. DOMAIN events = {}
    BY <1>1, <1>6
  <2>2. after = r
    <3>1. Summed(p, r, events, {}) = r
      <4>1. {} \in SUBSET DOMAIN events
        OBVIOUS
      <4>2. QED
        BY <1>1, <1>3, <4>1, StepOfSum
    <3>2. QED
      BY <1>4, <2>1, <3>1
  <2>3. QED
    BY <1>2, <1>3, <1>4, <2>2
<1>7. CASE Len(events) # 0
  <2>1. Len(events) \in DOMAIN events /\ SubSeq(events, 1, Len(events)) = events
    BY <1>1, <1>7
  <2>2. NonNegative(ReservesAfter(p, Last(reserves)[p], SubSeq(events, 1, Len(events))))
    BY <2>1 DEF Mine
  <2>3. NonNegative(after)
    BY <2>1, <2>2
  <2> HIDE DEF after, r
  <2>4. after[1] >= 0 /\ after[2] >= 0
    BY <2>3 DEF NonNegative
  <2>5. after \in Reserves
    BY <1>5, <2>4 DEF Reserves
  <2>6. QED
    BY <1>2, <1>3, <1>4, <2>5 DEF after, r
<1>8. QED
  BY <1>1, <1>6, <1>7

(* Sums over blocks that are there stay, and the new block adds its own. *)
LEMMA MinedSums ==
  ASSUME IInv, RInv, NEW events \in BlockContents, NEW newPools \in SUBSET Pools,
         Mine(events, newPools), NEW p \in Pools, NEW k \in {1, 2},
         NEW new, new = Len(chain) + 1
  PROVE  /\ IsFiniteSet(EventIds')
         /\ \A S \in SUBSET EventIds :
              SumFunctionOnSet(Delta(p, k)', S) = SumFunctionOnSet(Delta(p, k), S)
         /\ \A b \in 0..Len(chain) : UpTo(b)' = UpTo(b)
         /\ AtBlock(p, k, new)'
              = AtBlock(p, k, Len(chain))
                + SumFunctionOnSet(Shares(p, k, events), DOMAIN events)
         /\ AtBlock(p, k, Len(chain)) \in Int
<1>1. events \in Seq(Event) /\ chain \in Seq(Seq(Event)) /\ Len(chain) \in Nat
  BY IndexerAssumption DEF IInv, Typed
<1>2. /\ chain' \in Seq(Seq(Event))
      /\ \A id \in EventIds : id \in EventIds' /\ EventOf(id)' = EventOf(id)
      /\ EventIds' = EventIds \cup {new} \X DOMAIN events
      /\ \A i \in DOMAIN events : EventOf(<<new, i>>)' = events[i]
      /\ new \in Nat /\ new = Len(chain) + 1
  <2>1. /\ chain' \in Seq(Seq(Event))
        /\ \A id \in EventIds : id \in EventIds' /\ EventOf(id)' = EventOf(id)
        /\ EventIds' = EventIds \cup {new} \X DOMAIN events
        /\ \A id \in {new} \X DOMAIN events : EventOf(id)' = events[id[2]]
    BY BlockIsNew
  <2>2. ASSUME NEW i \in DOMAIN events PROVE EventOf(<<new, i>>)' = events[i]
    <3>1. <<new, i>> \in {new} \X DOMAIN events
      OBVIOUS
    <3>2. QED
      BY <2>1, <3>1
  <2>3. QED
    BY <1>1, <2>1, <2>2
<1>3. IsFiniteSet(EventIds)
  BY DEF RInv, ChainTyped
<1>4. \A id \in EventIds : id[1] \in Nat /\ id[1] <= Len(chain)
  BY <1>1, EventsAreTyped
<1>5. \A id \in EventIds : Delta(p, k)'[id] = Delta(p, k)[id] /\ Delta(p, k)[id] \in Int
  <2>1. SUFFICES ASSUME NEW id \in EventIds
                 PROVE  Delta(p, k)'[id] = Delta(p, k)[id] /\ Delta(p, k)[id] \in Int
    OBVIOUS
  <2>2. Delta(p, k)'[id] = Share(p, k, EventOf(id)')
    BY <1>2 DEF Delta
  <2>3. QED
    BY <1>2, <2>2, DeltaIsInt DEF IInv
<1>6. \A i \in DOMAIN events :
        /\ Delta(p, k)'[<<new, i>>] = Shares(p, k, events)[i]
        /\ Shares(p, k, events)[i] \in Int
        /\ <<new, i>> \notin EventIds
  <2>1. SUFFICES ASSUME NEW i \in DOMAIN events
                 PROVE  /\ Delta(p, k)'[<<new, i>>] = Shares(p, k, events)[i]
                        /\ Shares(p, k, events)[i] \in Int
                        /\ <<new, i>> \notin EventIds
    OBVIOUS
  <2>2. <<new, i>> \in EventIds'
    BY <1>2
  <2>3. Delta(p, k)'[<<new, i>>] = Share(p, k, EventOf(<<new, i>>)')
    BY <2>2 DEF Delta
  <2>4. EventOf(<<new, i>>)' = events[i] /\ events[i] \in Event
    BY <1>1, <1>2
  <2>5. Shares(p, k, events)[i] = Share(p, k, events[i])
    BY DEF Shares
  <2>6. <<new, i>> \notin EventIds
    <3>1. SUFFICES ASSUME <<new, i>> \in EventIds PROVE FALSE
      OBVIOUS
    <3>2. <<new, i>>[1] <= Len(chain)
      BY <1>4, <3>1
    <3>3. QED
      BY <1>1, <1>2, <3>2
  <2>7. QED
    BY <2>3, <2>4, <2>5, <2>6, ShareIsInt
<1>7. \A S \in SUBSET EventIds :
        SumFunctionOnSet(Delta(p, k)', S) = SumFunctionOnSet(Delta(p, k), S)
  <2>1. SUFFICES ASSUME NEW S \in SUBSET EventIds
                 PROVE  SumFunctionOnSet(Delta(p, k)', S) = SumFunctionOnSet(Delta(p, k), S)
    OBVIOUS
  <2>2. IsFiniteSet(S)
    BY <1>3, FS_Subset
  <2>3. QED
    BY <1>5, <2>2, SumCongruence
<1>8. \A b \in 0..Len(chain) : UpTo(b)' = UpTo(b)
  <2>1. SUFFICES ASSUME NEW b \in 0..Len(chain) PROVE UpTo(b)' = UpTo(b)
    OBVIOUS
  <2>2. ASSUME NEW id \in EventIds', id[1] <= b PROVE id \in EventIds
    <3>1. CASE id \in {new} \X DOMAIN events
      <4>1. id[1] = new
        BY <3>1
      <4>2. QED
        BY <1>1, <1>2, <2>2, <4>1
    <3>2. QED
      BY <1>2, <2>2, <3>1
  <2>3. QED
    BY <1>2, <2>2 DEF UpTo
<1>9. UpTo(Len(chain)) = EventIds
  BY <1>4 DEF UpTo
<1>10. UpTo(new)' = EventIds'
  <2>1. \A id \in EventIds' : id[1] <= new
    <3>1. SUFFICES ASSUME NEW id \in EventIds' PROVE id[1] <= new
      OBVIOUS
    <3>2. CASE id \in EventIds
      BY <1>1, <1>2, <1>4, <3>2
    <3>3. CASE id \in {new} \X DOMAIN events
      BY <1>1, <3>3
    <3>4. QED
      BY <1>2, <3>2, <3>3
  <2>2. QED
    BY <1>2, <2>1 DEF UpTo
<1>11. IsFiniteSet(DOMAIN events)
  BY <1>1, SumOfShares
<1>12. /\ IsFiniteSet(EventIds')
       /\ SumFunctionOnSet(Delta(p, k)', EventIds')
            = SumFunctionOnSet(Delta(p, k)', EventIds)
              + SumFunctionOnSet(Shares(p, k, events), DOMAIN events)
  <2>1. \A id \in EventIds : Delta(p, k)'[id] \in Int
    BY <1>5
  <2> DEFINE f == Delta(p, k)'
             g == Shares(p, k, events)
             S == EventIds
             U == DOMAIN events
             all == EventIds'
  <2>2. \A x \in S : f[x] \in Int
    BY <2>1
  <2>3. \A i \in U : f[<<new, i>>] = g[i] /\ g[i] \in Int /\ <<new, i>> \notin S
    BY <1>6
  <2>4. all = WithBlock(S, new, U) /\ IsFiniteSet(S) /\ IsFiniteSet(U)
    BY <1>2, <1>3, <1>11 DEF WithBlock
  <2> HIDE DEF f, g, all, S, U
  <2>5. IsFiniteSet(all)
    BY <2>2, <2>3, <2>4, SumOfBlock
  <2>6. SumFunctionOnSet(f, all) = SumFunctionOnSet(f, S) + SumFunctionOnSet(g, U)
    BY <2>2, <2>3, <2>4, SumOfBlock
  <2>7. QED
    BY <2>5, <2>6 DEF f, g, all, S, U
<1>13. AtBlock(p, k, new)'
         = AtBlock(p, k, Len(chain)) + SumFunctionOnSet(Shares(p, k, events), DOMAIN events)
  <2>1. SumFunctionOnSet(Delta(p, k)', EventIds) = SumFunctionOnSet(Delta(p, k), EventIds)
    BY <1>7
  <2>2. AtBlock(p, k, Len(chain)) = SumFunctionOnSet(Delta(p, k), EventIds)
    BY <1>9 DEF AtBlock
  <2>3. AtBlock(p, k, new)'
          = SumFunctionOnSet(Delta(p, k)', EventIds')
    BY <1>10 DEF AtBlock
  <2>4. QED
    BY <1>12, <2>1, <2>2, <2>3
<1>14. AtBlock(p, k, Len(chain)) \in Int
  <2>1. \A id \in EventIds : Delta(p, k)[id] \in Int
    BY <1>5
  <2>2. SumFunctionOnSet(Delta(p, k), EventIds) \in Int
    BY <1>3, <2>1, SumType
  <2>3. QED
    BY <1>9, <2>2 DEF AtBlock
<1>15. QED
  BY <1>2, <1>7, <1>8, <1>12, <1>13, <1>14

LEMMA MineReserves ==
  ASSUME IInv, RInv, NEW events \in BlockContents, NEW newPools \in SUBSET Pools,
         Mine(events, newPools)
  PROVE  RInv'
<1> DEFINE after == [p \in Pools |-> ReservesAfter(p, Last(reserves)[p], events)]
<1>1. /\ chain' = Append(chain, events) /\ allPairs' = allPairs \cup newPools
      /\ reserves' = Append(reserves, after)
      /\ UNCHANGED <<pairs, knownPairs, pc, faults, startedAt, clamped>>
  BY DEF Mine, pollVars, history
<1>2. /\ chain \in Seq(BlockContents) /\ reserves \in Seq([Pools -> Reserves])
      /\ Len(reserves) = Len(chain) + 1 /\ Len(chain) \in Nat
      /\ allPairs \in SUBSET Pools
  BY DEF RInv, ChainTyped
<1>3. PICK new \in Nat : new = Len(chain) + 1
  BY <1>2
<1>4. after \in [Pools -> Reserves]
  BY MinedReserves
<1> HIDE DEF after
<1>5. /\ reserves' \in Seq([Pools -> Reserves]) /\ Len(reserves') = Len(reserves) + 1
      /\ chain' \in Seq(BlockContents) /\ Len(chain') = new
      /\ reserves'[new + 1] = after
      /\ \A b \in 0..Len(chain) : reserves'[b + 1] = reserves[b + 1]
  BY <1>1, <1>2, <1>3, <1>4
<1>6. \A b \in 0..Len(chain) : b + 1 \in Nat
  BY <1>2
<1>7. EventIds' = EventIds \cup {Len(chain) + 1} \X DOMAIN events /\ IsFiniteSet(EventIds')
  <2>1. EventIds' = EventIds \cup {Len(chain) + 1} \X DOMAIN events
    BY BlockIsNew
  <2>2. events \in Seq(Event)
    BY IndexerAssumption
  <2>3. IsFiniteSet({Len(chain) + 1} \X DOMAIN events)
    <3>1. IsFiniteSet(DOMAIN events)
      BY <2>2, SumOfShares
    <3>2. QED
      BY <3>1, FS_Singleton, FS_Product
  <2>4. IsFiniteSet(EventIds)
    BY DEF RInv, ChainTyped
  <2>5. QED
    BY <2>1, <2>3, <2>4, FS_Union
<1>8. ChainTyped'
  BY <1>1, <1>2, <1>3, <1>5, <1>7 DEF ChainTyped
<1>9. ReservesOf(pairs)' /\ ReservesOf(knownPairs)'
  BY <1>1 DEF RInv, ReservesOf
<1>10. ReservesAddUp'
  <2>1. SUFFICES ASSUME NEW b \in 0..new, NEW p \in Pools
                 PROVE  reserves'[b + 1][p] = <<AtBlock(p, 1, b)', AtBlock(p, 2, b)'>>
    BY <1>5 DEF ReservesAddUp
  <2>2. CASE b \in 0..Len(chain)
    <3>1. UpTo(b)' = UpTo(b) /\ UpTo(b) \in SUBSET EventIds
      BY <2>2, MinedSums DEF UpTo
    <3>2. AtBlock(p, 1, b)' = AtBlock(p, 1, b) /\ AtBlock(p, 2, b)' = AtBlock(p, 2, b)
      BY <3>1, MinedSums DEF AtBlock
    <3>3. reserves[b + 1][p] = <<AtBlock(p, 1, b), AtBlock(p, 2, b)>>
      BY <2>2 DEF RInv, ReservesAddUp
    <3>4. QED
      BY <1>5, <2>2, <3>2, <3>3
  <2>3. CASE b = new
    <3> DEFINE sum(k) == SumFunctionOnSet(Shares(p, k, events), DOMAIN events)
    <3>1. AtBlock(p, 1, new)' = AtBlock(p, 1, Len(chain)) + sum(1)
      BY <1>3, MinedSums
    <3>2. AtBlock(p, 2, new)' = AtBlock(p, 2, Len(chain)) + sum(2)
      BY <1>3, MinedSums
    <3>3. reserves[Len(chain) + 1][p] = <<AtBlock(p, 1, Len(chain)), AtBlock(p, 2, Len(chain))>>
      <4>1. Len(chain) \in 0..Len(chain)
        BY <1>2
      <4>2. QED
        BY <4>1 DEF RInv, ReservesAddUp
    <3>4. /\ Last(reserves)[p] = reserves[Len(chain) + 1][p]
          /\ after[p] = Summed(p, Last(reserves)[p], events, DOMAIN events)
      BY MinedReserves DEF after
    <3>5. after[p] = <<AtBlock(p, 1, Len(chain)) + sum(1), AtBlock(p, 2, Len(chain)) + sum(2)>>
      BY <3>3, <3>4 DEF Summed
    <3> HIDE DEF sum
    <3>6. QED
      BY <1>5, <2>3, <3>1, <3>2, <3>5
  <2>4. QED
    BY <1>2, <1>3, <2>1, <2>2, <2>3
<1>11. faults = 0 => Counted' = Counted /\ Counted \in SUBSET EventIds
  <2>1. /\ \A id \in EventIds : id \in EventIds'
        /\ \A id \in EventIds' : id \in EventIds \/ id[1] = Len(chain) + 1
        /\ \A id \in EventIds' : rows'[id] = IF id \in EventIds THEN rows[id] ELSE 0
    BY BlockIsNew
  <2>2. faults = 0 => startedAt \in Int /\ startedAt <= Len(chain)
    <3>1. /\ startedAt \in Int /\ lastProcessedBlock \in Nat /\ toBlock \in Nat
          /\ lastProcessedBlock <= toBlock /\ toBlock <= Len(chain)
      BY DEF IInv, Typed
    <3>2. faults = 0 => startedAt = -1 \/ startedAt <= lastProcessedBlock
      BY DEF IInv, Typed, RowsAreReached
    <3>3. QED
      BY <1>2, <3>1, <3>2
  <2>3. SUFFICES ASSUME faults = 0 PROVE Counted' = Counted /\ Counted \in SUBSET EventIds
    OBVIOUS
  <2>4. ASSUME NEW id \in EventIds', id \notin EventIds
        PROVE  ~(id[1] <= startedAt) /\ rows'[id] = 0
    <3>1. id[1] = Len(chain) + 1 /\ rows'[id] = 0
      BY <2>1, <2>4
    <3>2. QED
      BY <1>2, <2>2, <2>3, <3>1
  <2>5. \A id \in EventIds : rows'[id] = rows[id]
    BY <2>1
  <2>6. startedAt' = startedAt
    BY <1>1
  <2>7. QED
    BY <2>1, <2>4, <2>5, <2>6 DEF Counted
<1>12. MemoryAddsUp'
  BY <1>1, <1>2, <1>11, MinedSums DEF RInv, MemoryAddsUp, InMemory, ReservesOf
<1>13. PairsSaved' /\ clamped' \in BOOLEAN
  BY <1>1 DEF RInv, PairsSaved
<1>14. QED
  BY <1>8, <1>9, <1>10, <1>12, <1>13 DEF RInv

-----------------------------------------------------------------------------
(* Steps that leave the chain, the rows and the first start as they are    *)
(* count the same events.                                                  *)
LEMMA ChainReservesStay ==
  ASSUME RInv, UNCHANGED chainVars
  PROVE  /\ ChainTyped' /\ ReservesAddUp'
         /\ EventIds' = EventIds /\ \A id : EventOf(id)' = EventOf(id)
         /\ \A p, k : Delta(p, k)' = Delta(p, k)
         /\ \A b : UpTo(b)' = UpTo(b)
<1>1. UNCHANGED <<chain, allPairs, reserves>>
  BY DEF chainVars
<1>2. EventIds' = EventIds /\ \A id : EventOf(id)' = EventOf(id)
  BY <1>1, ChainStays
<1>3. \A p, k : Delta(p, k)' = Delta(p, k)
  BY <1>2 DEF Delta
<1>4. \A b : UpTo(b)' = UpTo(b)
  BY <1>2 DEF UpTo
<1>5. \A p, k, b : AtBlock(p, k, b)' = AtBlock(p, k, b)
  BY <1>3, <1>4 DEF AtBlock
<1>6. ChainTyped' /\ ReservesAddUp'
  BY <1>1, <1>2, <1>5 DEF RInv, ChainTyped, ReservesAddUp
<1>7. QED
  BY <1>2, <1>3, <1>4, <1>6

LEMMA SumsStay ==
  ASSUME RInv, UNCHANGED chainVars, UNCHANGED <<rows, startedAt>>
  PROVE  \A p, k : InMemory(p, k)' = InMemory(p, k)
<1>1. EventIds' = EventIds /\ \A p, k : Delta(p, k)' = Delta(p, k)
  BY ChainReservesStay
<1>2. Counted' = Counted
  BY <1>1 DEF Counted
<1>3. QED
  BY <1>1, <1>2 DEF InMemory

LEMMA FaultsCount ==
  ASSUME Typed, NEW kind, Fault(kind)
  PROVE  faults' # 0
BY DEF Typed, Fault

(* Steps that touch no reserves and neither start nor end a save. *)
LEMMA QuietReserves ==
  ASSUME IInv, RInv, UNCHANGED chainVars,
         UNCHANGED <<pairs, knownPairs, rows, startedAt, clamped>>,
         faults' # 0 \/ faults' = faults,
         pc # "save" \/ pc' = "save", pc' # "down" \/ faults' # 0
  PROVE  RInv'
<1>1. ChainTyped' /\ ReservesAddUp'
  BY ChainReservesStay
<1>2. \A p, k : InMemory(p, k)' = InMemory(p, k)
  BY SumsStay
<1>3. MemoryAddsUp'
  BY <1>2 DEF RInv, MemoryAddsUp
<1>4. ReservesOf(pairs)' /\ ReservesOf(knownPairs)' /\ clamped' \in BOOLEAN
  BY DEF RInv, ReservesOf, chainVars
<1>5. PairsSaved'
  BY DEF RInv, PairsSaved
<1>6. QED
  BY <1>1, <1>3, <1>4, <1>5 DEF RInv

LEMMA QuietSteps ==
  ASSUME IInv, RInv, DiscoveryFails \/ DiscoveryEnds \/ Poll \/ Fetch \/ Broadcast
  PROVE  RInv'
<1>1. UNCHANGED <<chain, allPairs, reserves, pairs, knownPairs, rows, startedAt, clamped>>
  BY DEF DiscoveryFails, DiscoveryEnds, Poll, Fetch, Broadcast, dbVars, history, chainVars
<1>2. faults' # 0 \/ faults' = faults
  BY FaultsCount DEF DiscoveryFails, DiscoveryEnds, Poll, Fetch, Broadcast, NoFault, IInv
<1>3. pc \in {"discover", "idle", "fetch", "broadcast"}
  BY DEF DiscoveryFails, DiscoveryEnds, Poll, Fetch, Broadcast
<1>4. pc' \in {"discover", "idle", "fetch", "insert"}
  BY DEF DiscoveryFails, DiscoveryEnds, Poll, Fetch, Broadcast, AfterDiscovery, NextTable
<1>5. QED
  BY <1>1, <1>2, <1>3, <1>4, QuietReserves DEF chainVars

LEMMA StartReserves == ASSUME IInv, RInv, Start PROVE RInv'
<1>1. /\ pc = "down" /\ pc' = "discover"
      /\ UNCHANGED <<chain, allPairs, reserves, rows, pairs, clamped>>
      /\ knownPairs' = pairs \/ knownPairs' = [p \in {} |-> Nothing]
      /\ faults' # 0 \/ (faults' = faults /\ knownPairs' = pairs)
  BY FaultsCount DEF Start, NoFault, IInv, dbVars, chainVars
<1>2. ChainTyped' /\ ReservesAddUp'
  BY <1>1, ChainReservesStay DEF chainVars
<1>3. ReservesOf(pairs)' /\ clamped' \in BOOLEAN
  BY <1>1 DEF RInv, ReservesOf
<1>4. ReservesOf(knownPairs)'
  BY <1>1 DEF RInv, ReservesOf
<1>5. PairsSaved'
  BY <1>1 DEF PairsSaved
<1>6. MemoryAddsUp'
  BY <1>1 DEF RInv, PairsSaved, MemoryAddsUp
<1>7. QED
  BY <1>2, <1>3, <1>4, <1>5, <1>6 DEF RInv

LEMMA CrashReserves == ASSUME IInv, RInv, Crash PROVE RInv'
<1>1. /\ knownPairs' = [p \in {} |-> Nothing] /\ faults' # 0
      /\ UNCHANGED <<chain, allPairs, reserves, rows, pairs, clamped>>
  BY FaultsCount DEF Crash, IInv, chainVars, dbVars, history
<1>2. ChainTyped' /\ ReservesAddUp'
  BY <1>1, ChainReservesStay DEF chainVars
<1>3. ReservesOf(pairs)' /\ ReservesOf(knownPairs)' /\ clamped' \in BOOLEAN
  BY <1>1 DEF RInv, ReservesOf
<1>4. PairsSaved' /\ MemoryAddsUp'
  BY <1>1 DEF PairsSaved, MemoryAddsUp
<1>5. QED
  BY <1>2, <1>3, <1>4 DEF RInv

LEMMA WithIs ==
  ASSUME NEW f, NEW p \in Pools, NEW value \in Reserves, ReservesOf(f), p \in allPairs
  PROVE  ReservesOf(With(f, p, value))
BY DEF With, ReservesOf

(* A pool found has the reserves of the last processed block. *)
LEMMA DiscoverReserves ==
  ASSUME IInv, RInv, NEW p \in Pools, DiscoverPair(p)
  PROVE  RInv'
<1>1. PICK found \in {ReservesAtStart(p), Nothing} :
        /\ pc = "discover" /\ p \in allPairs /\ p \notin DOMAIN knownPairs
        /\ UNCHANGED <<chain, allPairs, reserves, rows, startedAt, clamped>>
        /\ knownPairs' = With(knownPairs, p, found)
        /\ pairs' = With(pairs, p, Nothing) \/ (pairs' = pairs /\ faults' # 0)
        /\ \/ faults' = faults /\ found = ReservesAtStart(p) /\ pairs' = With(pairs, p, Nothing)
           \/ faults' # 0
        /\ pc' = IF found # Nothing THEN "save" ELSE "discover"
  BY FaultsCount DEF DiscoverPair, NoFault, IInv, chainVars, history
<1>2. /\ lastProcessedBlock \in 0..Len(chain) /\ logs = {} /\ table = 1
      /\ lastProcessedBlock + 1 \in 1..Len(reserves)
  BY <1>1 DEF IInv, Typed, LogsOfPoll, RInv, ChainTyped
<1>3. reserves[lastProcessedBlock + 1] \in [Pools -> Reserves]
  BY <1>2 DEF RInv, ChainTyped
<1>4. found \in Reserves /\ Nothing \in Reserves
  BY <1>3 DEF ReservesAtStart, Nothing, Reserves
<1>5. ReservesOf(pairs) /\ ReservesOf(knownPairs)
  BY DEF RInv
<1>6. /\ ReservesOf(With(knownPairs, p, found)) /\ ReservesOf(With(pairs, p, Nothing))
      /\ DOMAIN With(knownPairs, p, found) = DOMAIN knownPairs \cup {p}
      /\ DOMAIN With(pairs, p, Nothing) = DOMAIN pairs \cup {p}
      /\ With(knownPairs, p, found)[p] = found
      /\ \A q \in DOMAIN knownPairs : q # p => With(knownPairs, p, found)[q] = knownPairs[q]
  <2>1. ReservesOf(With(knownPairs, p, found)) /\ ReservesOf(With(pairs, p, Nothing))
    BY <1>1, <1>4, <1>5, WithIs
  <2>2. QED
    BY <2>1 DEF With
<1>7. ReservesOf(pairs)' /\ ReservesOf(knownPairs)'
  BY <1>1, <1>5, <1>6 DEF ReservesOf
<1>8. ChainTyped' /\ ReservesAddUp' /\ clamped' \in BOOLEAN
  BY <1>1, ChainReservesStay DEF chainVars, RInv
<1>9. MemoryAddsUp'
  <2>1. SUFFICES ASSUME faults' = 0, ~clamped', NEW q \in DOMAIN knownPairs'
                 PROVE  knownPairs'[q] = <<InMemory(q, 1)', InMemory(q, 2)'>>
    BY DEF MemoryAddsUp
  <2>2. faults = 0 /\ ~clamped /\ found = ReservesAtStart(p)
    BY <1>1, <2>1
  <2>3. \A r, k : InMemory(r, k)' = InMemory(r, k)
    BY <1>1, SumsStay DEF chainVars
  <2>4. CASE q = p
    <3>1. Counted = UpTo(lastProcessedBlock)
      BY <1>1, <1>2, <2>2, CountedBetweenPolls
    <3>2. InMemory(p, 1) = AtBlock(p, 1, lastProcessedBlock)
          /\ InMemory(p, 2) = AtBlock(p, 2, lastProcessedBlock)
      BY <3>1 DEF InMemory, AtBlock
    <3>3. found = <<AtBlock(p, 1, lastProcessedBlock), AtBlock(p, 2, lastProcessedBlock)>>
      BY <1>2, <2>2 DEF RInv, ReservesAddUp, ReservesAtStart
    <3>4. knownPairs'[p] = found
      BY <1>1, <1>6
    <3>5. QED
      BY <2>3, <2>4, <3>2, <3>3, <3>4
  <2>5. CASE q # p
    <3>1. q \in DOMAIN knownPairs /\ knownPairs'[q] = knownPairs[q]
      BY <1>1, <1>6, <2>1, <2>5
    <3>2. QED
      BY <2>2, <2>3, <3>1 DEF RInv, MemoryAddsUp
  <2>6. QED
    BY <2>4, <2>5
<1>10. PairsSaved'
  <2>1. SUFFICES ASSUME faults' = 0 PROVE PairsSaved'
    BY DEF PairsSaved
  <2>2. /\ pairs' = With(pairs, p, Nothing) /\ pairs = knownPairs
    BY <1>1, <2>1 DEF RInv, PairsSaved
  <2>3. DOMAIN pairs' = DOMAIN knownPairs'
    BY <1>1, <1>6, <2>2
  <2>4. pc' # "save" => pairs' = knownPairs'
    BY <1>1, <2>2
  <2>5. QED
    BY <1>1, <2>3, <2>4 DEF PairsSaved
<1>11. QED
  BY <1>7, <1>8, <1>9, <1>10 DEF RInv

(* The handlers: a row more, and for a trade the reserves of its pool. *)
LEMMA RecordCounts ==
  ASSUME IInv, RInv, pc = "insert", faults = 0,
         rows' = [rows EXCEPT ![NextLog] = @ + 1], UNCHANGED chainVars, UNCHANGED startedAt
  PROVE  \A p \in Pools : \A k \in {1, 2} :
           /\ InMemory(p, k)' = InMemory(p, k) + Share(p, k, EventOf(NextLog))
           /\ InMemory(p, k) \in Int
<1>1. /\ NextLog \in EventIds /\ NextLog \notin Counted /\ rows[NextLog] = 0
      /\ rows \in [EventIds -> Nat]
  BY NextLogIsNew DEF IInv, Typed
<1>2. EventIds' = EventIds /\ \A p, k : Delta(p, k)' = Delta(p, k)
  BY ChainReservesStay
<1>3. Counted' = Counted \cup {NextLog}
  <2>1. \A id \in EventIds : rows'[id] = IF id = NextLog THEN 1 ELSE rows[id]
    BY <1>1
  <2>2. QED
    BY <1>1, <1>2, <2>1 DEF Counted
<1>4. SUFFICES ASSUME NEW p \in Pools, NEW k \in {1, 2}
               PROVE  /\ InMemory(p, k)' = InMemory(p, k) + Share(p, k, EventOf(NextLog))
                      /\ InMemory(p, k) \in Int
  OBVIOUS
<1> DEFINE f == Delta(p, k)
           more == Counted \cup {NextLog}
<1>5. \A id \in EventIds : f[id] = Share(p, k, EventOf(id)) /\ f[id] \in Int
  BY DeltaIsInt DEF IInv
<1>6. more \in SUBSET EventIds /\ Counted \in SUBSET EventIds
      /\ NextLog \in more /\ more \ {NextLog} = Counted
  BY <1>1 DEF Counted
<1>7. IsFiniteSet(more) /\ IsFiniteSet(Counted)
  BY <1>6, FS_Subset DEF RInv, ChainTyped
<1>8. InMemory(p, k)' = SumFunctionOnSet(f, more) /\ InMemory(p, k) = SumFunctionOnSet(f, Counted)
  BY <1>2, <1>3 DEF InMemory
<1> HIDE DEF f, more
<1>9. SumFunctionOnSet(f, more) = f[NextLog] + SumFunctionOnSet(f, more \ {NextLog})
  <2>1. \A id \in more : f[id] \in Int
    BY <1>5, <1>6
  <2>2. QED
    BY <1>6, <1>7, <2>1, SumRemove
<1>10. SumFunctionOnSet(f, Counted) \in Int
  <2>1. \A id \in Counted : f[id] \in Int
    BY <1>5, <1>6
  <2>2. QED
    BY <1>7, <2>1, SumType
<1>11. f[NextLog] = Share(p, k, EventOf(NextLog)) /\ f[NextLog] \in Int
  BY <1>1, <1>5
<1>12. ASSUME Share(p, k, EventOf(NextLog)) \in Int
       PROVE  f[NextLog] + SumFunctionOnSet(f, Counted)
                = SumFunctionOnSet(f, Counted) + Share(p, k, EventOf(NextLog))
  BY <1>10, <1>11, <1>12
<1>13. QED
  BY <1>6, <1>8, <1>9, <1>10, <1>11, <1>12

LEMMA OtherEventReserves ==
  ASSUME IInv, RInv, NEW kind, kind \notin Trades, IndexOtherEvent(kind)
  PROVE  RInv'
<1>1. /\ pc = "insert" /\ pc' = "broadcast" /\ EventOf(NextLog).kind = kind
      /\ UNCHANGED <<chain, allPairs, reserves, pairs, knownPairs, startedAt, clamped>>
      /\ \/ faults' = faults /\ rows' = [rows EXCEPT ![NextLog] = @ + 1]
         \/ faults' # 0
  BY FaultsCount DEF IndexOtherEvent, Handling, Record, NoFault, IInv, chainVars, history
<1>2. ChainTyped' /\ ReservesAddUp'
  BY <1>1, ChainReservesStay DEF chainVars
<1>3. ReservesOf(pairs)' /\ ReservesOf(knownPairs)' /\ clamped' \in BOOLEAN
  BY <1>1 DEF RInv, ReservesOf
<1>4. PairsSaved'
  BY <1>1 DEF RInv, PairsSaved
<1>5. MemoryAddsUp'
  <2>1. SUFFICES ASSUME faults' = 0, ~clamped', NEW p \in DOMAIN knownPairs'
                 PROVE  knownPairs'[p] = <<InMemory(p, 1)', InMemory(p, 2)'>>
    BY DEF MemoryAddsUp
  <2>2. p \in DOMAIN knownPairs /\ p \in Pools
    BY <1>1, <2>1 DEF RInv, ReservesOf, ChainTyped
  <2>3. \A k \in {1, 2} : /\ InMemory(p, k)' = InMemory(p, k) + Share(p, k, EventOf(NextLog))
                          /\ InMemory(p, k) \in Int
    BY <1>1, <2>1, <2>2, RecordCounts DEF chainVars
  <2>4. \A k \in {1, 2} : Share(p, k, EventOf(NextLog)) = 0
    BY <1>1 DEF Share
  <2>5. InMemory(p, 1)' = InMemory(p, 1) /\ InMemory(p, 2)' = InMemory(p, 2)
    BY <2>3, <2>4
  <2>6. QED
    BY <1>1, <2>1, <2>2, <2>5 DEF RInv, MemoryAddsUp
<1>6. QED
  BY <1>2, <1>3, <1>4, <1>5 DEF RInv

LEMMA ChangedIs ==
  ASSUME NEW r \in Reserves, NEW c \in Int \X Int
  PROVE  /\ Clamp(Changed(r, c)) \in Reserves
         /\ NonNegative(Changed(r, c)) => Clamp(Changed(r, c)) = <<r[1] + c[1], r[2] + c[2]>>
         /\ NonNegative(Changed(r, c)) \in BOOLEAN
<1>1. /\ r[1] \in Nat /\ r[2] \in Nat /\ c[1] \in Int /\ c[2] \in Int
  BY DEF Reserves
<1>2. QED
  BY <1>1 DEF Clamp, Changed, NonNegative, Reserves

LEMMA TradeReserves ==
  ASSUME IInv, RInv, NEW kind \in Trades, IndexTradeEvent(kind)
  PROVE  RInv'
<1> DEFINE e == EventOf(NextLog)
           sum == Changed(knownPairs[e.pool], e.change)
<1>1. /\ pc = "insert" /\ pc' = "save" /\ e.kind = kind
      /\ UNCHANGED <<chain, allPairs, reserves, pairs, startedAt>>
      /\ \/ faults' = faults /\ rows' = [rows EXCEPT ![NextLog] = @ + 1]
         \/ faults' # 0
      /\ knownPairs' = [knownPairs EXCEPT ![e.pool] = Clamp(sum)]
      /\ clamped' = (clamped \/ ~NonNegative(sum))
  BY FaultsCount DEF IndexTradeEvent, Handling, Record, ApplyChange, SaveBeforeBroadcast,
                     NoFault, IInv, chainVars
<1>2. e \in Event /\ e.pool \in DOMAIN knownPairs
  <2>1. NextLog \in logs
    BY <1>1, NextLogIsFirst DEF IInv, LogsOfPoll
  <2>2. /\ NextLog \in EventIds /\ e.kind = Tables[table]
        /\ Tables[table] \in Trades => e.pool \in DOMAIN knownPairs
    BY <2>1 DEF IInv, LogsOfPoll
  <2>3. QED
    BY <1>1, <2>2, EventsAreTyped DEF IInv, Typed
<1>3. /\ knownPairs \in [DOMAIN knownPairs -> Reserves]
      /\ DOMAIN knownPairs \in SUBSET Pools /\ DOMAIN knownPairs \subseteq allPairs
      /\ e.change \in Int \X Int
  BY <1>2 DEF RInv, ReservesOf, ChainTyped, Event
<1>4. /\ Clamp(sum) \in Reserves
      /\ NonNegative(sum) => Clamp(sum) = <<knownPairs[e.pool][1] + e.change[1],
                                            knownPairs[e.pool][2] + e.change[2]>>
  BY <1>2, <1>3, ChangedIs
<1> HIDE DEF e, sum
<1>5. ChainTyped' /\ ReservesAddUp'
  BY <1>1, ChainReservesStay DEF chainVars
<1>6. /\ DOMAIN knownPairs' = DOMAIN knownPairs
      /\ knownPairs' \in [DOMAIN knownPairs -> Reserves]
      /\ knownPairs'[e.pool] = Clamp(sum)
      /\ \A p \in DOMAIN knownPairs : p # e.pool => knownPairs'[p] = knownPairs[p]
  BY <1>1, <1>2, <1>3, <1>4
<1>7. ReservesOf(pairs)' /\ ReservesOf(knownPairs)'
  BY <1>1, <1>3, <1>6 DEF RInv, ReservesOf
<1>8. clamped' \in BOOLEAN
  BY <1>1 DEF RInv, NonNegative
<1>9. PairsSaved'
  BY <1>1, <1>6 DEF RInv, PairsSaved
<1>10. MemoryAddsUp'
  <2>1. SUFFICES ASSUME faults' = 0, ~clamped', NEW p \in DOMAIN knownPairs'
                 PROVE  knownPairs'[p] = <<InMemory(p, 1)', InMemory(p, 2)'>>
    BY DEF MemoryAddsUp
  <2>2. p \in DOMAIN knownPairs /\ p \in Pools
    BY <1>3, <1>6, <2>1
  <2>3. faults = 0 /\ ~clamped /\ NonNegative(sum)
    BY <1>1, <2>1
  <2>4. \A k \in {1, 2} : /\ InMemory(p, k)' = InMemory(p, k) + Share(p, k, e)
                          /\ InMemory(p, k) \in Int
    BY <1>1, <2>1, <2>2, <2>3, RecordCounts DEF chainVars, e
  <2>5. knownPairs[p] = <<InMemory(p, 1), InMemory(p, 2)>>
    BY <2>2, <2>3 DEF RInv, MemoryAddsUp
  <2>6. CASE p = e.pool
    <3>1. Share(p, 1, e) = e.change[1] /\ Share(p, 2, e) = e.change[2]
      BY <1>1, <2>6 DEF Share
    <3>2. knownPairs'[p] = <<knownPairs[p][1] + e.change[1], knownPairs[p][2] + e.change[2]>>
      BY <1>4, <1>6, <2>3, <2>6
    <3>3. knownPairs[p][1] = InMemory(p, 1) /\ knownPairs[p][2] = InMemory(p, 2)
      BY <2>5
    <3>4. QED
      BY <2>4, <3>1, <3>2, <3>3
  <2>7. CASE p # e.pool
    <3>1. Share(p, 1, e) = 0 /\ Share(p, 2, e) = 0
      BY <2>7 DEF Share
    <3>2. InMemory(p, 1)' = InMemory(p, 1) /\ InMemory(p, 2)' = InMemory(p, 2)
      BY <2>4, <3>1
    <3>3. QED
      BY <1>6, <2>2, <2>5, <2>7, <3>2
  <2>8. QED
    BY <2>6, <2>7
<1>11. QED
  BY <1>5, <1>7, <1>8, <1>9, <1>10 DEF RInv

(* A save without faults brings the table up to the memory. *)
LEMMA SaveReserves == ASSUME IInv, RInv, Save PROVE RInv'
<1>1. /\ pc = "save" /\ pc' \in {"discover", "broadcast"}
      /\ UNCHANGED <<chain, allPairs, reserves, rows, knownPairs, startedAt, clamped>>
      /\ \/ /\ faults' = faults
            /\ pairs' = [p \in DOMAIN pairs \cup DOMAIN knownPairs |->
                           IF p \in DOMAIN knownPairs THEN knownPairs[p] ELSE pairs[p]]
         \/ /\ faults' # 0
            /\ \E failed \in DOMAIN knownPairs :
                 pairs' = [p \in DOMAIN pairs \cup (DOMAIN knownPairs \ {failed}) |->
                             IF p \in DOMAIN knownPairs \ {failed}
                             THEN knownPairs[p] ELSE pairs[p]]
  BY FaultsCount DEF Save, NoFault, IInv, chainVars, history
<1>2. ReservesOf(pairs) /\ ReservesOf(knownPairs)
  BY DEF RInv
<1>3. ChainTyped' /\ ReservesAddUp'
  BY <1>1, ChainReservesStay DEF chainVars
<1>4. ReservesOf(pairs)' /\ ReservesOf(knownPairs)' /\ clamped' \in BOOLEAN
  BY <1>1, <1>2 DEF RInv, ReservesOf
<1>5. MemoryAddsUp'
  <2>1. \A p, k : InMemory(p, k)' = InMemory(p, k)
    BY <1>1, SumsStay DEF chainVars
  <2>2. QED
    BY <1>1, <2>1 DEF RInv, MemoryAddsUp
<1>6. PairsSaved'
  <2>1. SUFFICES ASSUME faults' = 0 PROVE PairsSaved'
    BY DEF PairsSaved
  <2>2. DOMAIN pairs \subseteq DOMAIN knownPairs
    BY <1>1, <2>1 DEF RInv, PairsSaved
  <2>3. pairs' = [p \in DOMAIN knownPairs |-> knownPairs[p]]
    BY <1>1, <2>1, <2>2
  <2>4. pairs' = knownPairs'
    BY <1>1, <1>2, <2>3 DEF ReservesOf
  <2>5. QED
    BY <1>1, <2>4 DEF PairsSaved
<1>7. QED
  BY <1>3, <1>4, <1>5, <1>6 DEF RInv

LEMMA StepReserves == ASSUME IInv, RInv, [Next]_vars PROVE RInv'
<1>1. ASSUME NEW events \in BlockContents, NEW newPools \in SUBSET Pools, Mine(events, newPools)
      PROVE  RInv'
  BY <1>1, MineReserves
<1>2. ASSUME Step PROVE RInv'
  <2>1. CASE Start
    BY <2>1, StartReserves
  <2>2. ASSUME NEW p \in Pools, DiscoverPair(p) PROVE RInv'
    BY <2>2, DiscoverReserves
  <2>3. CASE DiscoveryFails \/ DiscoveryEnds \/ Poll \/ Fetch \/ Broadcast
    BY <2>3, QuietSteps
  <2>4. CASE IndexLiquidityEvent \/ IndexSwapEvent
    BY <2>4, TradeReserves DEF IndexLiquidityEvent, IndexSwapEvent, Trades
  <2>5. CASE IndexStakingEvent \/ IndexGovernorEvent \/ IndexDelegateEvent
    BY <2>5, OtherEventReserves
       DEF IndexStakingEvent, IndexGovernorEvent, IndexDelegateEvent, Trades
  <2>6. CASE Save
    BY <2>6, SaveReserves
  <2>7. QED
    BY <1>2, <2>1, <2>2, <2>3, <2>4, <2>5, <2>6 DEF Step
<1>3. ASSUME Crash PROVE RInv'
  BY <1>3, CrashReserves
<1>4. ASSUME UNCHANGED vars PROVE RInv'
  <2>1. /\ UNCHANGED <<chain, allPairs, reserves, pairs, knownPairs, rows, startedAt, clamped>>
        /\ faults' = faults /\ pc' = pc
    BY <1>4 DEF vars, chainVars, dbVars, history
  <2>2. ChainTyped' /\ ReservesAddUp'
    BY <2>1, ChainReservesStay DEF chainVars
  <2>3. \A p, k : InMemory(p, k)' = InMemory(p, k)
    BY <2>1, SumsStay DEF chainVars
  <2>4. QED
    BY <2>1, <2>2, <2>3 DEF RInv, ReservesOf, MemoryAddsUp, PairsSaved
<1>5. QED
  BY <1>1, <1>2, <1>3, <1>4 DEF Next

THEOREM ReservesInductive == Spec => [](IInv /\ RInv)
<1>1. RInv /\ IInv /\ [Next]_vars => RInv'
  BY StepReserves
<1>2. Init => RInv
  BY InitReserves
<1>3. QED
  BY <1>1, <1>2, Inductive, PTL DEF Spec

(* State types: polls cover blocks that exist, reserves are never below    *)
(* zero, in the table as in memory, and logs are left to handle only while *)
(* a table is under way, after any crash and any failing call.             *)
THEOREM TypeCorrect == Spec => []TypeOK
<1>1. ASSUME IInv, RInv PROVE TypeOK
  <2>1. Len(chain) \in Nat /\ Typed /\ LogsOfPoll
    BY <1>1 DEF IInv, Typed
  <2>2. /\ chain \in Seq(BlockContents) /\ allPairs \subseteq Pools
        /\ reserves \in Seq([Pools -> Reserves]) /\ Len(reserves) = Len(chain) + 1
    BY <1>1 DEF RInv, ChainTyped
  <2>3. DOMAIN rows = EventIds /\ \A id \in EventIds : rows[id] \in Nat
    BY <2>1 DEF Typed
  <2>4. \A table_ \in {pairs, knownPairs} :
          DOMAIN table_ \subseteq allPairs /\ \A p \in DOMAIN table_ : table_[p] \in Reserves
    BY <1>1 DEF RInv, ReservesOf
  <2>5. pc \in {"down", "discover", "idle", "fetch", "insert", "save", "broadcast"}
    BY <2>1 DEF Typed
  <2>6. lastProcessedBlock <= toBlock /\ toBlock \in 0..Len(chain)
    BY <2>1 DEF Typed
  <2>7. table \in DOMAIN Tables
    BY <2>1 DEF Typed, Tables
  <2>8. logs \subseteq EventIds /\ (pc \in {"insert", "broadcast"} => logs # {})
    BY <2>1 DEF LogsOfPoll
  <2>9. QED
    BY <2>2, <2>3, <2>4, <2>5, <2>6, <2>7, <2>8 DEF TypeOK
<1>2. QED
  BY <1>1, ReservesInductive, PTL

(* Without faults, and unless a reserve was clamped on the way, the table  *)
(* pairs holds the chain's reserves as of the last processed block, though *)
(* the indexer adds up liquidity before swaps, pools are found at any time *)
(* and a poll spans any number of blocks.                                  *)
THEOREM ReservesMatch == Spec => []ReservesMatchUnlessClamped
<1>1. ASSUME IInv, RInv PROVE ReservesMatchUnlessClamped
  <2>1. SUFFICES ASSUME faults = 0, pc = "idle", ~clamped, NEW p \in DOMAIN pairs
                 PROVE  pairs[p] = reserves[lastProcessedBlock + 1][p]
    BY DEF ReservesMatchUnlessClamped
  <2>2. /\ logs = {} /\ table = 1 /\ lastProcessedBlock \in 0..Len(chain)
    BY <1>1, <2>1 DEF IInv, Typed, LogsOfPoll
  <2>3. Counted = UpTo(lastProcessedBlock)
    BY <1>1, <2>1, <2>2, CountedBetweenPolls
  <2>4. pairs = knownPairs /\ p \in Pools
    BY <1>1, <2>1 DEF RInv, PairsSaved, ReservesOf, ChainTyped
  <2>5. pairs[p] = <<InMemory(p, 1), InMemory(p, 2)>>
    BY <1>1, <2>1, <2>4 DEF RInv, MemoryAddsUp
  <2>6. reserves[lastProcessedBlock + 1][p]
          = <<AtBlock(p, 1, lastProcessedBlock), AtBlock(p, 2, lastProcessedBlock)>>
    BY <1>1, <2>2, <2>4 DEF RInv, ReservesAddUp
  <2>7. QED
    BY <2>3, <2>5, <2>6 DEF InMemory, AtBlock
<1>2. QED
  BY <1>1, ReservesInductive, PTL

=============================================================================
