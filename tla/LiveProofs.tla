----------------------------- MODULE LiveProofs -----------------------------
(***************************************************************************)
(* Live transactions and the history, for queues, pages and stores of any  *)
(* size and any number of transactions, changes of address and failures.   *)
(***************************************************************************)
EXTENDS LiveTransactions, Groundwork, TLAPS

-----------------------------------------------------------------------------
(* The invariant. *)
Link == [state : {"none", "connecting", "open", "closing", "timer"}, up : BOOLEAN,
         server : {"none", "accepted", "registered"}, send : Seq(Nat)]

PageTyped ==
  /\ sent \in 0..MaxTxs /\ failed \subseteq 1..sent
  /\ txStore \in Seq(Nat) /\ Len(txStore) <= StoreCap
  /\ \A i \in 1..Len(txStore) : txStore[i] \in 1..sent

(* A hash is recorded once, and not when its transaction reverted. *)
RecordedOnce ==
  /\ recorded \in Seq(Nat)
  /\ \A i \in 1..Len(recorded) : recorded[i] \in 0..sent /\ recorded[i] \notin failed
  /\ Once(recorded, {Nobody})

HubTyped ==
  /\ broadcast \in Seq(Nat) /\ Len(broadcast) <= BroadcastCap
  /\ \A i \in 1..Len(broadcast) : broadcast[i] \in 1..Len(recorded)

(* Loops run only up to the current one, which no cleanup has reached.     *)
LoopRuns ==
  /\ links \in [Loops -> Link] /\ \A l \in Loops : Len(links[l].send) <= SendCap
  /\ loop \in Loops /\ wsRef \in 0..loop /\ timerRef \in 0..loop
  /\ wsConnected \in BOOLEAN /\ cuts \in 0..MaxCuts
  /\ \A l \in Loops : l > loop => links[l] = Unstarted
  /\ links[loop].state \notin {"none", "closing"}
  /\ loop = 1 => wsConnected = (links[1].state = "open")

(* A refetch never answers with less than the page shows. *)
FetchIsAhead ==
  /\ fetch \in {NoFetch, Unread} \cup 0..Len(recorded) /\ shown \in 0..Len(recorded)
  /\ fetch \notin {NoFetch, Unread} => shown <= fetch

StoreHasLatest ==
  /\ Distinct(txStore)
  /\ sent > 0 => Len(txStore) > 0 /\ txStore[1] = sent

IInv ==
  /\ PageTyped /\ RecordedOnce /\ HubTyped /\ LoopRuns /\ FetchIsAhead
  /\ StoreHasLatest /\ NothingForgotten

(* A page just opened: its first loop connects, nothing is sent yet. *)
LEMMA InitHolds == Init => IInv
<1>1. SUFFICES ASSUME Init PROVE IInv
  OBVIOUS
<1> USE <1>1, LiveAssumption DEF Init
<1>2. 1 \in Loops /\ Unstarted \in Link /\ Connecting \in Link
  BY DEF Loops, Link, Unstarted, Connecting
<1>3. LoopRuns
  <2>1. links \in [Loops -> Link]
    BY <1>2
  <2>2. \A l \in Loops : links[l].send = <<>> /\ (l > 1 => links[l] = Unstarted)
    BY DEF Unstarted, Connecting
  <2>3. links[1].state = "connecting"
    BY <1>2 DEF Connecting
  <2>4. 0 <= SendCap /\ 0 \in 0..MaxCuts
    OBVIOUS
  <2>5. loop = 1 /\ loop \in Loops /\ wsRef \in 0..loop /\ timerRef \in 0..loop
    BY <1>2 DEF NoLoop
  <2>6. Len(<<>>) <= SendCap
    BY <2>4
  <2>7. \A l \in Loops : Len(links[l].send) <= SendCap /\ (l > loop => links[l] = Unstarted)
    BY <2>2, <2>5, <2>6
  <2>8. wsConnected = FALSE /\ cuts \in 0..MaxCuts
    BY <2>4
  <2>9. /\ links[loop].state \notin {"none", "closing"}
        /\ wsConnected = (links[1].state = "open")
    BY <2>3, <2>5, <2>8
  <2> QED
    BY <2>1, <2>5, <2>7, <2>8, <2>9 DEF LoopRuns
<1>4. PageTyped /\ RecordedOnce /\ HubTyped /\ FetchIsAhead /\ StoreHasLatest
  BY DEF PageTyped, RecordedOnce, HubTyped, FetchIsAhead, StoreHasLatest, Distinct, Once
<1>5. NothingForgotten
  BY DEF NothingForgotten
<1>6. QED
  BY <1>3, <1>4, <1>5 DEF IInv

-----------------------------------------------------------------------------
(* The page's transactions. *)

(* The latest comes first; the cap never cuts it off. *)
LEMMA SendTxKeeps == ASSUME IInv, SendTx PROVE IInv'
<1> DEFINE h == sent + 1
           others == Without(txStore, {h})
           all == <<h>> \o others
<1>1. /\ sent < MaxTxs /\ sent' = h /\ txStore' = FirstOf(all, StoreCap)
      /\ UNCHANGED <<failed, recorded, broadcast, links, loop, wsRef, timerRef, wsConnected,
                     cuts, fetch, shown, lost>>
  BY DEF SendTx, AddTx, sockets
<1>2. /\ sent \in Nat /\ MaxTxs \in Nat /\ StoreCap \in Nat \ {0}
      /\ failed \subseteq 1..sent /\ txStore \in Seq(Nat)
      /\ \A i \in 1..Len(txStore) : txStore[i] \in 1..sent
  BY LiveAssumption DEF IInv, PageTyped
<1>3. /\ others \in Seq(Nat) /\ Len(others) \in Nat
      /\ \A i \in 1..Len(others) : others[i] \in 1..sent
      /\ Distinct(others)
  <2>1. KeepsOf(others, Len(txStore), txStore, {h}, Nat)
    BY <1>2, WithoutKeeps
  <2>2. \A i \in 1..Len(others) : Contains(others, others[i])
    BY DEF Contains
  <2> HIDE DEF others
  <2>3. \A i \in 1..Len(others) : others[i] \in 1..sent
    BY <1>2, <2>1, <2>2 DEF KeepsOf
  <2>4. Once(txStore, {h})
    BY DEF IInv, StoreHasLatest, Distinct, Once
  <2>5. QED
    BY <2>1, <2>3, <2>4 DEF KeepsOf
<1> HIDE DEF others
<1>4. /\ all \in Seq(Nat) /\ Len(all) = Len(others) + 1 /\ all[1] = h
      /\ \A i \in 1..Len(others) : all[i + 1] = others[i]
      /\ \A i \in 2..Len(all) : all[i] = others[i - 1] /\ i - 1 \in 1..Len(others)
  BY <1>2, <1>3
<1> HIDE DEF all
<1>5. Distinct(all)
  <2>1. ASSUME NEW i \in 1..Len(all), NEW j \in 1..Len(all), all[i] = all[j] PROVE i = j
    <3>1. ASSUME NEW k \in 2..Len(all) PROVE all[k] # h
      <4>1. all[k] = others[k - 1] /\ others[k - 1] \in 1..sent
        BY <1>3, <1>4
      <4>2. QED
        BY <1>2, <4>1
    <3>2. CASE i = 1 \/ j = 1
      BY <1>3, <1>4, <2>1, <3>1, <3>2
    <3>3. CASE i \in 2..Len(all) /\ j \in 2..Len(all)
      <4>1. others[i - 1] = others[j - 1] /\ i - 1 \in 1..Len(others) /\ j - 1 \in 1..Len(others)
        BY <1>4, <2>1, <3>3
      <4>2. i - 1 = j - 1
        BY <1>3, <4>1 DEF Distinct
      <4>3. QED
        BY <4>2
    <3>4. QED
      BY <1>3, <1>4, <3>2, <3>3
  <2>2. QED
    BY <2>1 DEF Distinct
<1>6. \A i \in 1..Len(all) : all[i] \in 1..h
  <2>1. \A i \in 1..Len(all) : i = 1 \/ i \in 2..Len(all)
    BY <1>3, <1>4
  <2>2. \A i \in 2..Len(all) : all[i] \in 1..sent
    BY <1>3, <1>4
  <2>3. QED
    BY <1>2, <1>4, <2>1, <2>2
<1>7. /\ txStore' \in Seq(Nat) /\ Distinct(txStore') /\ Len(txStore') <= StoreCap
      /\ Len(txStore') > 0 /\ txStore'[1] = h
      /\ \A i \in 1..Len(txStore') : txStore'[i] \in 1..h
  <2>1. /\ txStore' \in Seq(Nat)
        /\ Len(txStore') = IF Len(all) < StoreCap THEN Len(all) ELSE StoreCap
        /\ \A i \in 1..Len(txStore') : txStore'[i] = all[i]
        /\ Distinct(txStore')
    BY <1>1, <1>2, <1>4, <1>5, FirstOfIs
  <2>2. Len(txStore') > 0 /\ Len(txStore') <= StoreCap /\ Len(txStore') <= Len(all)
    BY <1>2, <1>3, <1>4, <2>1
  <2>3. QED
    BY <1>3, <1>4, <1>6, <2>1, <2>2
<1>8. PageTyped' /\ StoreHasLatest'
  BY <1>1, <1>2, <1>7 DEF PageTyped, StoreHasLatest
<1>9. RecordedOnce'
  BY <1>1, <1>2 DEF IInv, RecordedOnce
<1>10. HubTyped' /\ LoopRuns' /\ FetchIsAhead' /\ NothingForgotten'
  BY <1>1 DEF IInv, HubTyped, LoopRuns, FetchIsAhead, NothingForgotten, Listening, Registered
<1>11. QED
  BY <1>8, <1>9, <1>10 DEF IInv

(* One that reverts was not recorded and never will be. *)
LEMMA RevertKeeps == ASSUME IInv, Revert PROVE IInv'
<1>1. PICK h \in 1..sent :
        /\ ~Contains(recorded, h) /\ failed' = failed \cup {h}
        /\ UNCHANGED <<sent, txStore, recorded, broadcast, links, loop, wsRef, timerRef,
                       wsConnected, cuts, fetch, shown, lost>>
  BY DEF Revert, sockets
<1>2. PageTyped' /\ StoreHasLatest'
  BY <1>1 DEF IInv, PageTyped, StoreHasLatest
<1>3. RecordedOnce'
  BY <1>1 DEF IInv, RecordedOnce, Contains
<1>4. HubTyped' /\ LoopRuns' /\ FetchIsAhead' /\ NothingForgotten'
  BY <1>1 DEF IInv, HubTyped, LoopRuns, FetchIsAhead, NothingForgotten, Listening, Registered
<1>5. QED
  BY <1>2, <1>3, <1>4 DEF IInv

(* A record is in the hub's queue, or it was dropped. *)
LEMMA RecordKeeps ==
  ASSUME IInv, NEW h \in 0..sent, h \notin failed, h # Nobody => ~Contains(recorded, h),
         Record(h)
  PROVE  IInv'
<1> DEFINE n == Len(recorded) + 1
<1>1. /\ recorded' = Append(recorded, h)
      /\ \/ Len(broadcast) < BroadcastCap /\ broadcast' = Append(broadcast, n) /\ lost' = lost
         \/ lost' = lost \cup {n} /\ broadcast' = broadcast
      /\ UNCHANGED <<sent, txStore, failed, links, loop, wsRef, timerRef, wsConnected, cuts,
                     fetch, shown>>
  BY DEF Record, page, sockets
<1>2. recorded \in Seq(Nat) /\ Len(recorded) \in Nat /\ h \in Nat /\ sent \in Nat
  BY DEF IInv, RecordedOnce, PageTyped
<1>3. /\ recorded' \in Seq(Nat) /\ Len(recorded') = n /\ recorded'[n] = h
      /\ \A i \in 1..Len(recorded) : recorded'[i] = recorded[i]
      /\ 1..n = 1..Len(recorded) \cup {n}
  BY <1>1, <1>2
<1> HIDE DEF n
<1>4. RecordedOnce'
  <2>1. \A i \in 1..n : recorded'[i] \in 0..sent /\ recorded'[i] \notin failed
    BY <1>3 DEF IInv, RecordedOnce
  <2>2. ASSUME NEW i \in 1..n, NEW j \in 1..n, recorded'[i] = recorded'[j],
               recorded'[i] \notin {Nobody}
        PROVE  i = j
    <3>1. CASE i \in 1..Len(recorded) /\ j \in 1..Len(recorded)
      BY <1>3, <2>2, <3>1 DEF IInv, RecordedOnce, Once
    <3>2. CASE i = n \/ j = n
      BY <1>3, <2>2, <3>2 DEF Contains
    <3>3. QED
      BY <1>3, <3>1, <3>2
  <2>3. Once(recorded', {Nobody})
    BY <1>3, <2>2 DEF Once
  <2>4. QED
    BY <1>1, <1>3, <2>1, <2>3 DEF RecordedOnce
<1>5. HubTyped' /\ (n \in lost' \/ Contains(broadcast', n))
      /\ \A m : Contains(broadcast, m) => Contains(broadcast', m)
  <2>1. /\ broadcast \in Seq(Nat) /\ Len(broadcast) \in Nat /\ Len(broadcast) <= BroadcastCap
        /\ \A i \in 1..Len(broadcast) : broadcast[i] \in 1..Len(recorded)
    BY DEF IInv, HubTyped
  <2>2. BroadcastCap \in Nat /\ n = Len(recorded) + 1
    BY LiveAssumption DEF n
  <2>3. CASE Len(broadcast) < BroadcastCap /\ broadcast' = Append(broadcast, n)
    <3>1. /\ broadcast' \in Seq(Nat) /\ Len(broadcast') = Len(broadcast) + 1
          /\ broadcast'[Len(broadcast) + 1] = n
          /\ \A i \in 1..Len(broadcast) : broadcast'[i] = broadcast[i]
      BY <1>2, <2>1, <2>2, <2>3
    <3>2. ASSUME NEW i \in 1..Len(broadcast') PROVE broadcast'[i] \in 1..n
      <4>1. CASE i = Len(broadcast) + 1
        BY <1>2, <2>2, <3>1, <4>1
      <4>2. CASE i \in 1..Len(broadcast)
        <5>1. broadcast'[i] = broadcast[i] /\ broadcast[i] \in 1..Len(recorded)
          BY <2>1, <3>1, <4>2
        <5>2. QED
          BY <1>2, <2>2, <5>1
      <4>3. QED
        BY <2>1, <3>1, <4>1, <4>2
    <3>3. HubTyped'
      BY <1>3, <2>1, <2>2, <2>3, <3>1, <3>2 DEF HubTyped
    <3>4. Contains(broadcast', n) /\ \A m : Contains(broadcast, m) => Contains(broadcast', m)
      BY <2>1, <3>1 DEF Contains
    <3>5. QED
      BY <3>3, <3>4
  <2>4. CASE lost' = lost \cup {n} /\ broadcast' = broadcast
    BY <1>2, <1>3, <2>1, <2>2, <2>4 DEF HubTyped
  <2>5. QED
    BY <1>1, <2>3, <2>4
<1>6. PageTyped' /\ LoopRuns' /\ StoreHasLatest'
  BY <1>1 DEF IInv, PageTyped, LoopRuns, StoreHasLatest
<1>7. FetchIsAhead'
  <2>1. 0..Len(recorded) \subseteq 0..n
    BY <1>2, <1>3
  <2>2. QED
    BY <1>1, <1>3, <2>1 DEF IInv, FetchIsAhead
<1>8. NothingForgotten'
  <2>1. SUFFICES ASSUME NEW m \in DOMAIN recorded'
                 PROVE  \/ m \in lost' \/ Contains(broadcast', m)
                        \/ \E l \in Loops : Listening(l)' /\ Contains(links[l].send, m)'
                        \/ fetch' = Unread \/ m <= fetch' \/ m <= shown'
    BY DEF NothingForgotten
  <2>2. m = n \/ m \in DOMAIN recorded
    BY <1>2, <1>3, <2>1
  <2>3. CASE m = n
    BY <1>5, <2>3
  <2>4. CASE m \in DOMAIN recorded
    <3>1. \/ m \in lost \/ Contains(broadcast, m)
          \/ \E l \in Loops : Listening(l) /\ Contains(links[l].send, m)
          \/ fetch = Unread \/ m <= fetch \/ m <= shown
      BY <2>4 DEF IInv, NothingForgotten
    <3>2. lost \subseteq lost'
      BY <1>1
    <3>3. QED
      BY <1>1, <1>5, <3>1, <3>2 DEF Listening, Registered
  <2>5. QED
    BY <2>2, <2>3, <2>4
<1>9. QED
  BY <1>4, <1>5, <1>6, <1>7, <1>8 DEF IInv

-----------------------------------------------------------------------------
(* The connections.                                                        *)

(* A step of the hub or a socket leaves the page and the records alone. *)
LEMMA PageKept ==
  ASSUME IInv, UNCHANGED <<page, recorded, fetch, shown>>
  PROVE  PageTyped' /\ RecordedOnce' /\ FetchIsAhead' /\ StoreHasLatest'
<1>1. UNCHANGED <<sent, txStore, failed, recorded, fetch, shown>>
  BY DEF page
<1>2. PageTyped' /\ StoreHasLatest'
  BY <1>1 DEF IInv, PageTyped, StoreHasLatest
<1>3. RecordedOnce'
  BY <1>1 DEF IInv, RecordedOnce
<1>4. FetchIsAhead'
  BY <1>1 DEF IInv, FetchIsAhead
<1>5. QED
  BY <1>2, <1>3, <1>4

Carries(l, n) == Listening(l) /\ Contains(links[l].send, n)

(* What was on its way still is, or was dropped. *)
LEMMA StillOnTheWay ==
  ASSUME IInv, UNCHANGED <<recorded, fetch, shown>>, lost \subseteq lost',
         \A n : Contains(broadcast, n) =>
           n \in lost' \/ Contains(broadcast', n) \/ \E l \in Loops : Carries(l, n)',
         \A l \in Loops : \A n : Carries(l, n) => n \in lost' \/ Carries(l, n)'
  PROVE  NothingForgotten'
<1>1. SUFFICES ASSUME NEW n \in DOMAIN recorded'
               PROVE  \/ n \in lost' \/ Contains(broadcast', n)
                      \/ \E l \in Loops : Carries(l, n)'
                      \/ fetch' = Unread \/ n <= fetch' \/ n <= shown'
  BY DEF NothingForgotten, Carries
<1>2. \/ n \in lost \/ Contains(broadcast, n) \/ \E l \in Loops : Carries(l, n)
      \/ fetch = Unread \/ n <= fetch \/ n <= shown
  BY <1>1 DEF IInv, NothingForgotten, Carries
<1>3. QED
  BY <1>2

(* A step of one started loop: what it must leave of the links. *)
LEMMA OneLink ==
  ASSUME IInv, NEW l \in Loops, NEW k \in Link, links' = [links EXCEPT ![l] = k],
         Len(k.send) <= SendCap, l <= loop, l = loop => k.state \notin {"none", "closing"},
         loop' = loop, wsRef' \in 0..loop, timerRef' \in 0..loop, cuts' \in 0..MaxCuts,
         wsConnected' \in BOOLEAN, loop = 1 => wsConnected' = (k.state = "open")
  PROVE  LoopRuns'
<1>1. /\ links \in [Loops -> Link] /\ \A m \in Loops : Len(links[m].send) <= SendCap
      /\ loop \in Loops /\ links[loop].state \notin {"none", "closing"}
      /\ \A m \in Loops : m > loop => links[m] = Unstarted
  BY DEF IInv, LoopRuns
<1>2. Loops \subseteq Nat \ {0} /\ 1 \in Loops
  BY LiveAssumption DEF Loops
<1>3. /\ links' \in [Loops -> Link] /\ links'[l] = k
      /\ \A m \in Loops \ {l} : links'[m] = links[m]
  BY <1>1
<1>4. \A m \in Loops : Len(links'[m].send) <= SendCap
  BY <1>1, <1>3
<1>5. \A m \in Loops : m > loop' => links'[m] = Unstarted
  BY <1>1, <1>2, <1>3
<1>6. links'[loop'].state \notin {"none", "closing"}
  BY <1>1, <1>3
<1>7. loop = 1 => links'[1] = k
  BY <1>2, <1>3
<1>8. QED
  BY <1>1, <1>3, <1>4, <1>5, <1>6, <1>7 DEF LoopRuns

(* A loop with a connection, on either side, has been started. *)
LEMMA ActiveIsStarted ==
  ASSUME IInv, NEW l \in Loops, links[l].state # "none" \/ links[l].server # "none"
  PROVE  /\ l <= loop /\ loop \in Nat /\ l \in Nat /\ links[l] \in Link
         /\ Len(links[l].send) <= SendCap
<1>1. Loops \subseteq Nat
  BY LiveAssumption DEF Loops
<1>2. links[l] # Unstarted
  BY DEF Unstarted
<1>3. QED
  BY <1>1, <1>2 DEF IInv, LoopRuns

(* A step of one link that only listens more and drops what it stops. *)
LEMMA LinkKeeps ==
  ASSUME IInv, NEW l \in Loops, NEW k \in Link, links' = [links EXCEPT ![l] = k],
         UNCHANGED <<page, recorded, broadcast, fetch, shown>>,
         LoopRuns', lost \subseteq lost',
         \A n : Carries(l, n) => n \in lost' \/ Carries(l, n)'
  PROVE  IInv'
<1>1. PageTyped' /\ RecordedOnce' /\ FetchIsAhead' /\ StoreHasLatest'
  BY PageKept
<1>2. HubTyped'
  BY DEF IInv, HubTyped
<1>3. \A m \in Loops \ {l} : links'[m] = links[m]
  BY DEF IInv, LoopRuns
<1>4. \A m \in Loops : \A n : Carries(m, n) => n \in lost' \/ Carries(m, n)'
  BY <1>3 DEF Carries, Listening, Registered
<1>5. NothingForgotten'
  BY <1>4, StillOnTheWay
<1>6. QED
  BY <1>1, <1>2, <1>5 DEF IInv

(* A socket opens: until it is registered no message goes to it. *)
LEMMA OnOpenKeeps == ASSUME IInv, NEW l \in Loops, OnOpen(l) PROVE IInv'
<1> DEFINE k == [links[l] EXCEPT !.state = "open", !.server = "accepted"]
<1>1. /\ links[l].state = "connecting" /\ links' = [links EXCEPT ![l] = k]
      /\ wsConnected' = TRUE
      /\ UNCHANGED <<page, recorded, broadcast, loop, wsRef, timerRef, cuts, fetch, shown, lost>>
  BY DEF OnOpen
<1>2. l <= loop /\ links[l] \in Link /\ Len(links[l].send) <= SendCap
  BY <1>1, ActiveIsStarted
<1>3. k \in Link /\ k.send = links[l].send /\ k.state = "open"
  BY <1>2 DEF Link
<1> HIDE DEF k
<1>4. wsRef' \in 0..loop /\ timerRef' \in 0..loop /\ cuts' \in 0..MaxCuts
  BY <1>1 DEF IInv, LoopRuns
<1>5. LoopRuns'
  BY <1>1, <1>2, <1>3, <1>4, OneLink
<1>6. \A n : ~Carries(l, n)
  BY <1>1 DEF Carries, Listening
<1>7. QED
  BY <1>1, <1>3, <1>5, <1>6, LinkKeeps

(* The hub registers a client; its queue is still empty or unheard. *)
LEMMA RegisterKeeps == ASSUME IInv, NEW l \in Loops, Register(l) PROVE IInv'
<1> DEFINE k == [links[l] EXCEPT !.server = "registered"]
<1>1. /\ links[l].server = "accepted" /\ links' = [links EXCEPT ![l] = k]
      /\ UNCHANGED <<page, recorded, broadcast, loop, wsRef, timerRef, wsConnected, cuts,
                     fetch, shown, lost>>
  BY DEF Register
<1>2. /\ l <= loop /\ l \in Nat /\ loop \in Nat
      /\ links[l] \in Link /\ Len(links[l].send) <= SendCap
  BY <1>1, ActiveIsStarted
<1>3. k \in Link /\ k.send = links[l].send /\ k.state = links[l].state
  BY <1>2 DEF Link
<1> HIDE DEF k
<1>4. /\ wsRef' \in 0..loop /\ timerRef' \in 0..loop /\ cuts' \in 0..MaxCuts
      /\ wsConnected' \in BOOLEAN /\ links[loop].state \notin {"none", "closing"}
      /\ loop = 1 => wsConnected' = (links[1].state = "open")
  BY <1>1 DEF IInv, LoopRuns
<1>5. loop = 1 => l = 1
  BY <1>2, LiveAssumption DEF Loops
<1>6. LoopRuns'
  BY <1>1, <1>2, <1>3, <1>4, <1>5, OneLink
<1>7. \A n : ~Carries(l, n)
  BY <1>1 DEF Carries, Listening, Registered
<1>8. QED
  BY <1>1, <1>3, <1>6, <1>7, LinkKeeps

(* A connection breaks: the messages queued for it are dropped. *)
LEMMA CutKeeps == ASSUME IInv, NEW l \in Loops, Cut(l) PROVE IInv'
<1> DEFINE k == [links[l] EXCEPT !.up = FALSE]
<1>1. /\ links[l].state \in {"connecting", "open"} /\ links' = [links EXCEPT ![l] = k]
      /\ cuts < MaxCuts /\ cuts' = cuts + 1 /\ lost' = lost \cup ToSet(links[l].send)
      /\ UNCHANGED <<page, recorded, broadcast, loop, wsRef, timerRef, wsConnected, fetch, shown>>
  BY DEF Cut
<1>2. /\ l <= loop /\ l \in Nat /\ loop \in Nat
      /\ links[l] \in Link /\ Len(links[l].send) <= SendCap
  BY <1>1, ActiveIsStarted
<1>3. k \in Link /\ k.send = links[l].send /\ k.state = links[l].state
  BY <1>2 DEF Link
<1> HIDE DEF k
<1>4. /\ wsRef' \in 0..loop /\ timerRef' \in 0..loop
      /\ wsConnected' \in BOOLEAN /\ links[loop].state \notin {"none", "closing"}
      /\ loop = 1 => wsConnected' = (links[1].state = "open")
      /\ cuts \in 0..MaxCuts
  BY <1>1 DEF IInv, LoopRuns
<1>5. loop = 1 => l = 1
  BY <1>2, LiveAssumption DEF Loops
<1>6. cuts' \in 0..MaxCuts
  BY <1>1, <1>4, LiveAssumption
<1>7. LoopRuns'
  BY <1>1, <1>2, <1>3, <1>4, <1>5, <1>6, OneLink
<1>8. \A n : Contains(links[l].send, n) => n \in lost'
  BY <1>1, <1>2 DEF Contains, ToSet, Link
<1>9. QED
  BY <1>1, <1>3, <1>7, <1>8, LinkKeeps DEF Carries

(* A socket was closed: its loop has a timer and an empty queue. *)
LEMMA OnCloseKeeps == ASSUME IInv, NEW l \in Loops, OnClose(l) PROVE IInv'
<1> DEFINE k == [Unstarted EXCEPT !.state = "timer"]
<1>1. /\ links[l].state # "none" /\ links' = [links EXCEPT ![l] = k]
      /\ wsRef' = NoLoop /\ timerRef' = l /\ wsConnected' = FALSE
      /\ lost' = lost \cup ToSet(links[l].send)
      /\ UNCHANGED <<page, recorded, broadcast, loop, cuts, fetch, shown>>
  BY DEF OnClose
<1>2. /\ l <= loop /\ l \in Nat /\ loop \in Nat
      /\ links[l] \in Link /\ Len(links[l].send) <= SendCap
  BY <1>1, ActiveIsStarted
<1>3. k \in Link /\ k.send = <<>> /\ k.state = "timer" /\ Len(k.send) <= SendCap
  <2>1. Unstarted \in Link /\ Unstarted.send = <<>>
    BY DEF Unstarted, Link
  <2>2. k \in Link /\ k.send = <<>> /\ k.state = "timer"
    BY <2>1 DEF Link
  <2>3. Len(<<>>) <= SendCap
    BY LiveAssumption
  <2>4. QED
    BY <2>2, <2>3
<1> HIDE DEF k
<1>4. wsRef' \in 0..loop /\ timerRef' \in 0..loop /\ cuts' \in 0..MaxCuts
  BY <1>1, <1>2 DEF IInv, LoopRuns, NoLoop
<1>5. LoopRuns'
  BY <1>1, <1>2, <1>3, <1>4, OneLink
<1>6. \A n : Contains(links[l].send, n) => n \in lost'
  BY <1>1, <1>2 DEF Contains, ToSet, Link
<1>7. QED
  BY <1>1, <1>3, <1>5, <1>6, LinkKeeps DEF Carries

(* The timer ends: a new connection, with nothing queued. *)
LEMMA ReconnectKeeps == ASSUME IInv, NEW l \in Loops, Reconnect(l) PROVE IInv'
<1>1. /\ links[l].state = "timer" /\ links' = [links EXCEPT ![l] = Connecting] /\ wsRef' = l
      /\ UNCHANGED <<page, recorded, broadcast, loop, timerRef, wsConnected, cuts, fetch,
                     shown, lost>>
  BY DEF Reconnect
<1>2. l <= loop /\ l \in Nat /\ loop \in Nat
  BY <1>1, ActiveIsStarted
<1>3. /\ Connecting \in Link /\ Connecting.send = <<>> /\ Connecting.state = "connecting"
      /\ Len(Connecting.send) <= SendCap
  BY LiveAssumption DEF Link, Connecting
<1>4. /\ wsRef' \in 0..loop /\ timerRef' \in 0..loop /\ cuts' \in 0..MaxCuts
      /\ wsConnected' \in BOOLEAN
      /\ loop = 1 => wsConnected' = (links[1].state = "open")
  BY <1>1, <1>2 DEF IInv, LoopRuns
<1>5. loop = 1 => l = 1
  BY <1>2, LiveAssumption DEF Loops
<1>6. loop = 1 => wsConnected' = (Connecting.state = "open")
  BY <1>1, <1>3, <1>4, <1>5
<1>7. LoopRuns'
  BY <1>1, <1>2, <1>3, <1>4, <1>6, OneLink
<1>8. \A n : ~Carries(l, n)
  BY <1>1 DEF Carries, Listening
<1>9. QED
  BY <1>1, <1>3, <1>7, <1>8, LinkKeeps

(* An event leaves the hub for a listening socket, or is dropped. *)
LEMMA HubBroadcastKeeps == ASSUME IInv, HubBroadcast PROVE IInv'
<1> DEFINE n == Head(broadcast)
           Takes(l) == Registered(l) /\ Len(links[l].send) < SendCap
           took(l) == [links[l] EXCEPT !.send = Append(@, n)]
<1>1. /\ broadcast # <<>> /\ broadcast' = Tail(broadcast)
      /\ links' = [l \in Loops |-> IF Takes(l) THEN took(l) ELSE links[l]]
      /\ lost' = IF \E l \in Loops : Listening(l) /\ Takes(l) THEN lost ELSE lost \cup {n}
      /\ UNCHANGED <<page, recorded, loop, wsRef, timerRef, wsConnected, cuts, fetch, shown>>
  BY DEF HubBroadcast
<1>2. /\ broadcast \in Seq(Nat) /\ Len(broadcast) \in Nat /\ Len(broadcast) > 0
      /\ Len(broadcast) <= BroadcastCap
      /\ \A i \in 1..Len(broadcast) : broadcast[i] \in 1..Len(recorded)
  BY <1>1 DEF IInv, HubTyped
<1>3. /\ n = broadcast[1] /\ n \in Nat
      /\ broadcast' \in Seq(Nat) /\ Len(broadcast') = Len(broadcast) - 1
      /\ \A i \in 1..Len(broadcast') : broadcast'[i] = broadcast[i + 1]
  BY <1>1, <1>2
<1> HIDE DEF n
<1>4. HubTyped'
  <2>1. ASSUME NEW i \in 1..Len(broadcast') PROVE broadcast'[i] \in 1..Len(recorded)
    <3>1. i + 1 \in 1..Len(broadcast)
      BY <1>2, <1>3
    <3>2. QED
      BY <1>2, <1>3, <3>1
  <2>2. Len(broadcast') <= BroadcastCap
    BY <1>2, <1>3, LiveAssumption
  <2>3. QED
    BY <1>1, <1>3, <2>1, <2>2 DEF HubTyped
<1>5. ASSUME NEW l \in Loops
      PROVE  /\ links'[l] \in Link /\ Len(links'[l].send) <= SendCap
             /\ links'[l].state = links[l].state
             /\ ~Takes(l) => links'[l] = links[l]
             /\ Listening(l) => Listening(l)'
             /\ \A m : Contains(links[l].send, m) => Contains(links'[l].send, m)
             /\ Takes(l) => Contains(links'[l].send, n)
  <2>1. /\ links[l] \in Link /\ Len(links[l].send) <= SendCap
        /\ links[l].send \in Seq(Nat) /\ Len(links[l].send) \in Nat /\ SendCap \in Nat
    BY LiveAssumption DEF IInv, LoopRuns, Link
  <2>2. CASE ~Takes(l)
    <3>1. links'[l] = links[l]
      BY <1>1, <2>2
    <3>2. QED
      BY <2>1, <2>2, <3>1 DEF Listening, Registered
  <2>3. CASE Takes(l)
    <3> DEFINE s == links[l].send
               s1 == Append(s, n)
    <3>1. links'[l] = took(l)
      BY <1>1, <2>3
    <3>2. /\ s1 \in Seq(Nat) /\ Len(s1) = Len(s) + 1 /\ s1[Len(s) + 1] = n
          /\ \A i \in 1..Len(s) : s1[i] = s[i]
      BY <1>3, <2>1
    <3>3. Contains(s1, n) /\ \A m : Contains(s, m) => Contains(s1, m)
      <4> HIDE DEF s, s1
      <4>1. Len(s) \in Nat
        BY <2>1 DEF s
      <4>2. QED
        BY <3>2, <4>1 DEF Contains
    <3>4. Len(s1) <= SendCap
      BY <2>1, <2>3, <3>2
    <3> HIDE DEF s1
    <3>5. /\ took(l) \in Link /\ took(l).send = s1 /\ took(l).state = links[l].state
          /\ took(l).up = links[l].up /\ took(l).server = links[l].server
      BY <2>1, <3>2 DEF Link, s1
    <3> HIDE DEF took
    <3>6. Listening(l) => Listening(l)'
      BY <3>1, <3>5 DEF Listening, Registered
    <3>7. QED
      BY <2>3, <3>1, <3>3, <3>4, <3>5, <3>6
  <2>4. QED
    BY <2>2, <2>3
<1>6. LoopRuns'
  <2>1. /\ loop \in Loops /\ wsRef \in 0..loop /\ timerRef \in 0..loop
        /\ wsConnected \in BOOLEAN /\ cuts \in 0..MaxCuts
        /\ \A l \in Loops : l > loop => links[l] = Unstarted
        /\ links[loop].state \notin {"none", "closing"}
        /\ loop = 1 => wsConnected = (links[1].state = "open")
    BY DEF IInv, LoopRuns
  <2>2. \A l \in Loops : l > loop => links'[l] = Unstarted
    BY <1>5, <2>1 DEF Registered, Unstarted
  <2> HIDE DEF Takes, took
  <2>3. links' \in [Loops -> Link]
    BY <1>1, <1>5
  <2>4. loop = 1 => links'[1].state = links[1].state
    BY <1>5, <2>1
  <2>5. links'[loop].state = links[loop].state
    BY <1>5, <2>1
  <2>6. \A l \in Loops : Len(links'[l].send) <= SendCap
    BY <1>5
  <2>7. QED
    BY <1>1, <2>1, <2>2, <2>3, <2>4, <2>5, <2>6 DEF LoopRuns
<1> HIDE DEF Takes, took
<1>7. NothingForgotten'
  <2>1. ASSUME NEW m, Contains(broadcast, m)
        PROVE  m \in lost' \/ Contains(broadcast', m) \/ \E l \in Loops : Carries(l, m)'
    <3>1. PICK i \in 1..Len(broadcast) : broadcast[i] = m
      BY <2>1 DEF Contains
    <3>2. CASE i = 1
      <4>1. m = n
        BY <1>3, <3>1, <3>2
      <4>2. CASE \E l \in Loops : Listening(l) /\ Takes(l)
        BY <1>5, <4>1, <4>2 DEF Carries
      <4>3. CASE ~\E l \in Loops : Listening(l) /\ Takes(l)
        BY <1>1, <4>1, <4>3
      <4>4. QED
        BY <4>2, <4>3
    <3>3. CASE i # 1
      <4>1. i - 1 \in 1..Len(broadcast') /\ (i - 1) + 1 = i
        BY <1>2, <1>3, <3>1, <3>3
      <4>2. broadcast'[i - 1] = m
        BY <1>3, <3>1, <4>1
      <4>3. QED
        BY <4>1, <4>2 DEF Contains
    <3>4. QED
      BY <3>2, <3>3
  <2>2. \A l \in Loops : \A m : Carries(l, m) => Carries(l, m)'
    BY <1>5 DEF Carries
  <2>3. lost \subseteq lost'
    BY <1>1
  <2>4. QED
    BY <1>1, <2>1, <2>2, <2>3, StillOnTheWay
<1>8. QED
  BY <1>1, <1>4, <1>6, <1>7, PageKept DEF IInv

(* The cleanup stops at most one socket; the next loop is current. *)
LEMMA ChangeAddressKeeps == ASSUME IInv, ChangeAddress PROVE IInv'
<1> DEFINE Stopped(l) == l = timerRef /\ links[l].state = "timer"
           Left(l) == l = wsRef /\ links[l].state \in {"connecting", "open"}
           closed(l) == [links[l] EXCEPT !.state = "closing"]
<1>1. /\ loop <= MaxChanges
      /\ links' = [l \in Loops |-> IF l = loop + 1 THEN Connecting
                                   ELSE IF Stopped(l) THEN Unstarted
                                   ELSE IF Left(l) THEN closed(l) ELSE links[l]]
      /\ lost' = lost \cup UNION {ToSet(links[l].send) : l \in {k \in Loops : Left(k)}}
      /\ loop' = loop + 1 /\ wsRef' = loop + 1 /\ wsConnected' = FALSE
      /\ UNCHANGED <<page, recorded, broadcast, timerRef, cuts, fetch, shown>>
  BY DEF ChangeAddress
<1>2. /\ loop \in Loops /\ loop \in Nat \ {0} /\ loop + 1 \in Loops /\ MaxChanges \in Nat
      /\ timerRef \in 0..loop /\ wsRef \in 0..loop /\ cuts \in 0..MaxCuts
      /\ Loops \subseteq Nat \ {0}
      /\ \A l \in Loops : /\ links[l] \in Link /\ Len(links[l].send) <= SendCap
                          /\ l > loop => links[l] = Unstarted
  BY <1>1, LiveAssumption DEF IInv, LoopRuns, Loops
<1>3. /\ Connecting \in Link /\ Unstarted \in Link
      /\ Connecting.send = <<>> /\ Unstarted.send = <<>> /\ Connecting.state = "connecting"
      /\ Unstarted.state = "none" /\ Len(<<>>) <= SendCap
  BY LiveAssumption DEF Link, Connecting, Unstarted
<1>4. ASSUME NEW l \in Loops
      PROVE  /\ links'[l] \in Link /\ Len(links'[l].send) <= SendCap
             /\ l > loop + 1 => links'[l] = Unstarted
             /\ \A m : Carries(l, m) => Left(l) \/ Carries(l, m)'
  <2>1. CASE l = loop + 1
    <3>1. links'[l] = Connecting
      BY <1>1, <2>1
    <3>2. l > loop /\ ~(l > loop + 1)
      BY <1>2, <2>1
    <3>3. \A m : ~Carries(l, m)
      BY <1>2, <1>3, <3>2 DEF Carries, Listening
    <3>4. QED
      BY <1>3, <3>1, <3>2, <3>3
  <2>2. CASE l # loop + 1 /\ Stopped(l)
    <3>1. links'[l] = Unstarted
      BY <1>1, <2>2
    <3>2. \A m : ~Carries(l, m)
      BY <2>2 DEF Carries, Listening
    <3>3. QED
      BY <1>3, <3>1, <3>2
  <2>3. CASE l # loop + 1 /\ ~Stopped(l) /\ Left(l)
    <3>1. links'[l] = closed(l)
      BY <1>1, <2>3
    <3>2. closed(l) \in Link /\ closed(l).send = links[l].send
      BY <1>2 DEF Link
    <3>3. ~(l > loop + 1)
      <4>1. links[l] # Unstarted
        BY <1>3, <2>3
      <4>2. QED
        BY <1>2, <4>1
    <3> HIDE DEF closed
    <3>4. QED
      BY <1>2, <2>3, <3>1, <3>2, <3>3
  <2>4. CASE l # loop + 1 /\ ~Stopped(l) /\ ~Left(l)
    <3>1. links'[l] = links[l]
      BY <1>1, <2>4
    <3>2. l > loop + 1 => l > loop
      BY <1>2
    <3>3. \A m : Carries(l, m) => Carries(l, m)'
      BY <3>1 DEF Carries, Listening, Registered
    <3>4. QED
      BY <1>2, <3>1, <3>2, <3>3
  <2>5. QED
    BY <2>1, <2>2, <2>3, <2>4
<1>5. links'[loop'] = Connecting
  BY <1>1, <1>2
<1>6. LoopRuns'
  <2> HIDE DEF Stopped, Left, closed
  <2>1. links' \in [Loops -> Link]
    BY <1>1, <1>4
  <2>2. wsRef' \in 0..loop' /\ timerRef' \in 0..loop' /\ cuts' \in 0..MaxCuts /\ loop' # 1
    BY <1>1, <1>2
  <2>3. links'[loop'].state \notin {"none", "closing"}
    BY <1>3, <1>5
  <2>4. QED
    BY <1>1, <1>2, <1>4, <2>1, <2>2, <2>3 DEF LoopRuns
<1>7. NothingForgotten'
  <2>1. ASSUME NEW l \in Loops, NEW m, Carries(l, m) PROVE m \in lost' \/ Carries(l, m)'
    <3>1. CASE Left(l)
      <4>1. m \in ToSet(links[l].send)
        BY <2>1, <1>2 DEF Carries, Contains, ToSet, Link
      <4>2. QED
        BY <1>1, <3>1, <4>1
    <3>2. QED
      BY <1>4, <2>1, <3>1
  <2>2. lost \subseteq lost'
    BY <1>1
  <2>3. \A m : Contains(broadcast, m) => Contains(broadcast', m)
    BY <1>1
  <2>4. QED
    BY <1>1, <2>1, <2>2, <2>3, StillOnTheWay
<1>8. HubTyped'
  BY <1>1 DEF IInv, HubTyped
<1>9. QED
  BY <1>1, <1>6, <1>7, <1>8, PageKept DEF IInv

-----------------------------------------------------------------------------
(* Messages and refetches. *)

(* Every message starts a refetch that has not read yet. *)
LEMMA DeliverKeeps == ASSUME IInv, NEW l \in Loops, Deliver(l) PROVE IInv'
<1> DEFINE k == [links[l] EXCEPT !.send = Tail(@)]
<1>1. /\ Listening(l) /\ links[l].send # <<>> /\ links' = [links EXCEPT ![l] = k]
      /\ fetch' = Unread
      /\ UNCHANGED <<sent, txStore, failed, recorded, broadcast, loop, wsRef, timerRef,
                     wsConnected, cuts, shown, lost>>
  BY DEF Deliver, page
<1>2. /\ l <= loop /\ l \in Nat /\ loop \in Nat
      /\ links[l] \in Link /\ Len(links[l].send) <= SendCap
  BY <1>1, ActiveIsStarted DEF Listening
<1>3. k \in Link /\ Len(k.send) <= SendCap /\ k.state = links[l].state
  <2>1. links[l].send \in Seq(Nat) /\ SendCap \in Nat
    BY <1>2, LiveAssumption DEF Link
  <2> DEFINE t == Tail(links[l].send)
  <2>2. t \in Seq(Nat) /\ Len(t) <= SendCap
    BY <1>1, <1>2, <2>1
  <2> HIDE DEF t
  <2>3. k \in Link /\ k.send = t /\ k.state = links[l].state
    BY <1>2, <2>2 DEF Link, t
  <2>4. QED
    BY <2>2, <2>3
<1> HIDE DEF k
<1>4. /\ wsRef' \in 0..loop /\ timerRef' \in 0..loop /\ cuts' \in 0..MaxCuts
      /\ wsConnected' \in BOOLEAN /\ links[loop].state \notin {"none", "closing"}
      /\ loop = 1 => wsConnected' = (links[1].state = "open")
  BY <1>1 DEF IInv, LoopRuns
<1>5. loop = 1 => l = 1
  BY <1>2, LiveAssumption DEF Loops
<1>6. LoopRuns'
  BY <1>1, <1>2, <1>3, <1>4, <1>5, OneLink
<1>7. PageTyped' /\ StoreHasLatest' /\ HubTyped'
  BY <1>1 DEF IInv, PageTyped, StoreHasLatest, HubTyped
<1>8. RecordedOnce'
  BY <1>1 DEF IInv, RecordedOnce
<1>9. FetchIsAhead' /\ NothingForgotten'
  BY <1>1 DEF IInv, FetchIsAhead, NothingForgotten
<1>10. QED
  BY <1>6, <1>7, <1>8, <1>9 DEF IInv

(* A refetch reads all that is recorded; its answer shows no less than before. *)
LEMMA FetchKeeps == ASSUME IInv, FetchRead \/ FetchDone PROVE IInv'
<1>1. UNCHANGED <<sent, txStore, failed, recorded, broadcast, links, loop, wsRef, timerRef,
                  wsConnected, cuts, lost>>
  BY DEF FetchRead, FetchDone, page, sockets
<1>2. /\ recorded \in Seq(Nat) /\ Len(recorded) \in Nat /\ shown \in 0..Len(recorded)
      /\ fetch \in {NoFetch, Unread} \cup 0..Len(recorded)
      /\ fetch \notin {NoFetch, Unread} => shown <= fetch
  BY DEF IInv, RecordedOnce, FetchIsAhead
<1>3. PageTyped' /\ StoreHasLatest' /\ HubTyped'
  BY <1>1 DEF IInv, PageTyped, StoreHasLatest, HubTyped
<1>4. RecordedOnce' /\ LoopRuns'
  BY <1>1 DEF IInv, RecordedOnce, LoopRuns
<1>5. CASE FetchRead
  <2>1. fetch' = Len(recorded) /\ shown' = shown
    BY <1>5 DEF FetchRead
  <2>2. FetchIsAhead'
    BY <1>1, <1>2, <2>1 DEF FetchIsAhead
  <2>3. \A n \in DOMAIN recorded' : n <= fetch'
    BY <1>1, <1>2, <2>1
  <2>4. QED
    BY <1>3, <1>4, <2>2, <2>3 DEF IInv, NothingForgotten
<1>6. CASE FetchDone
  <2>1. /\ fetch \in 0..Len(recorded) /\ fetch # Unread /\ shown <= fetch
        /\ fetch' = NoFetch /\ shown' = fetch
    BY <1>2, <1>6 DEF FetchDone
  <2>2. FetchIsAhead'
    BY <1>1, <1>2, <2>1 DEF FetchIsAhead
  <2>3. ASSUME NEW n \in DOMAIN recorded'
        PROVE  \/ n \in lost' \/ Contains(broadcast', n)
               \/ \E l \in Loops : Carries(l, n)'
               \/ n <= shown'
    <3>1. \/ n \in lost \/ Contains(broadcast, n)
          \/ \E l \in Loops : Carries(l, n)
          \/ n <= fetch \/ n <= shown
      BY <1>1, <2>1, <2>3 DEF IInv, NothingForgotten, Carries
    <3>2. n \in Nat
      BY <1>1, <1>2
    <3>3. n <= shown => n <= shown'
      BY <1>2, <2>1, <3>2
    <3>4. QED
      BY <1>1, <2>1, <3>1, <3>3 DEF Carries, Listening, Registered
  <2>4. NothingForgotten'
    BY <2>3 DEF NothingForgotten, Carries
  <2>5. QED
    BY <1>3, <1>4, <2>2, <2>4 DEF IInv
<1>7. QED
  BY <1>5, <1>6

-----------------------------------------------------------------------------
(* Every step keeps the invariant, whatever the order of the events of     *)
(* the chain, the hub, the sockets and the answers, and however many       *)
(* connections break or addresses come and go.                             *)
THEOREM Inductive == Spec => []IInv
<1>1. IInv /\ [Next]_vars => IInv'
  <2>1. SUFFICES ASSUME IInv, [Next]_vars PROVE IInv'
    OBVIOUS
  <2>2. CASE SendTx \/ Revert
    BY <2>1, <2>2, SendTxKeeps, RevertKeeps
  <2>3. CASE RecordOwn
    <3>1. PICK h \in (1..sent) \ failed : ~Contains(recorded, h) /\ Record(h)
      BY <2>3 DEF RecordOwn
    <3>2. h \in 0..sent
      BY <2>1, <3>1 DEF IInv, PageTyped
    <3>3. QED
      BY <2>1, <3>1, <3>2, RecordKeeps
  <2>4. CASE RecordOther
    <3>1. 0 \in 0..sent /\ 0 \notin failed
      BY <2>1 DEF IInv, PageTyped
    <3>2. QED
      BY <2>1, <2>4, <3>1, RecordKeeps DEF RecordOther, Nobody
  <2>5. CASE HubBroadcast \/ ChangeAddress
    BY <2>1, <2>5, HubBroadcastKeeps, ChangeAddressKeeps
  <2>6. ASSUME NEW l \in Loops,
               OnOpen(l) \/ Register(l) \/ Cut(l) \/ OnClose(l) \/ Reconnect(l) \/ Deliver(l)
        PROVE  IInv'
    BY <2>1, <2>6, OnOpenKeeps, RegisterKeeps, CutKeeps, OnCloseKeeps, ReconnectKeeps,
       DeliverKeeps
  <2>7. CASE FetchRead \/ FetchDone
    BY <2>1, <2>7, FetchKeeps
  <2>8. CASE UNCHANGED vars
    <3>1. UNCHANGED <<sent, txStore, failed, recorded, broadcast, links, loop, wsRef, timerRef,
                      wsConnected, cuts, fetch, shown, lost>>
      BY <2>8 DEF vars, page, sockets
    <3>2. PageTyped' /\ StoreHasLatest' /\ HubTyped'
      BY <2>1, <3>1 DEF IInv, PageTyped, StoreHasLatest, HubTyped
    <3>3. RecordedOnce' /\ LoopRuns'
      BY <2>1, <3>1 DEF IInv, RecordedOnce, LoopRuns
    <3>4. FetchIsAhead' /\ NothingForgotten'
      BY <2>1, <3>1 DEF IInv, FetchIsAhead, NothingForgotten, Listening, Registered
    <3>5. QED
      BY <3>2, <3>3, <3>4 DEF IInv
  <2>9. QED
    BY <2>1, <2>2, <2>3, <2>4, <2>5, <2>6, <2>7, <2>8 DEF Next
<1>2. QED
  BY InitHolds, <1>1, PTL DEF Spec

(* The types of the page, the hub and the sockets; the queues and the      *)
(* store keep to their sizes, the current loop is never stopped, and what  *)
(* the hook says of the connection is right before the address changes.    *)
THEOREM TypeCorrect == Spec => []TypeOK
<1>1. IInv => TypeOK
  <2>1. SUFFICES ASSUME IInv PROVE TypeOK
    OBVIOUS
  <2>2. /\ ToSet(txStore) \subseteq 1..sent
        /\ ToSet(recorded) \subseteq ((1..sent) \ failed) \cup {Nobody}
        /\ ToSet(broadcast) \subseteq DOMAIN recorded
    <3>1. ToSet(txStore) \subseteq 1..sent
      BY <2>1 DEF IInv, PageTyped, ToSet
    <3>2. \A i \in 1..Len(recorded) : recorded[i] \in ((1..sent) \ failed) \cup {Nobody}
      BY <2>1 DEF IInv, PageTyped, RecordedOnce, Nobody
    <3>3. recorded \in Seq(Nat) /\ broadcast \in Seq(Nat)
      BY <2>1 DEF IInv, RecordedOnce, HubTyped
    <3>4. ToSet(recorded) \subseteq ((1..sent) \ failed) \cup {Nobody}
      BY <3>2, <3>3 DEF ToSet
    <3>5. \A i \in 1..Len(broadcast) : broadcast[i] \in DOMAIN recorded
      BY <2>1, <3>3 DEF IInv, HubTyped
    <3>6. ToSet(broadcast) \subseteq DOMAIN recorded
      BY <3>3, <3>5 DEF ToSet
    <3>7. QED
      BY <3>1, <3>4, <3>6
  <2>3. \A l \in Loops : /\ links[l].state \in {"none", "connecting", "open", "closing", "timer"}
                         /\ links[l].server \in {"none", "accepted", "registered"}
                         /\ Len(links[l].send) <= SendCap
    BY <2>1 DEF IInv, LoopRuns, Link
  <2>4. /\ sent \in 0..MaxTxs /\ failed \subseteq 1..sent /\ Len(txStore) <= StoreCap
        /\ Len(broadcast) <= BroadcastCap
    BY <2>1 DEF IInv, PageTyped, HubTyped
  <2>5. /\ loop \in Loops /\ {wsRef, timerRef} \subseteq 0..loop
        /\ wsConnected \in BOOLEAN /\ cuts \in 0..MaxCuts
        /\ links[loop].state \notin {"none", "closing"}
        /\ loop = 1 => wsConnected = (links[1].state = "open")
    BY <2>1 DEF IInv, LoopRuns
  <2>6. fetch \in {NoFetch, Unread} \cup 0..Len(recorded) /\ shown \in 0..Len(recorded)
    BY <2>1 DEF IInv, FetchIsAhead
  <2>7. QED
    BY <2>2, <2>3, <2>4, <2>5, <2>6 DEF TypeOK
<1>2. QED
  BY Inductive, <1>1, PTL

(* A transaction recorded is on its way to the page, shown by it, or was   *)
(* dropped where the code drops messages: no order of broadcasts, closed   *)
(* connections, changes of address and overlapping refetches forgets one.  *)
THEOREM NothingIsForgotten == Spec => []NothingForgotten
<1>1. IInv => NothingForgotten
  BY DEF IInv
<1>2. QED
  BY Inductive, <1>1, PTL

-----------------------------------------------------------------------------
(* The history: what the API lists of the recorded, after what the store   *)
(* has and the API's page does not.                                        *)

(* Latest first: the same entries, none twice if none was. *)
LEMMA ReverseIs ==
  ASSUME NEW T, NEW seq \in Seq(T)
  PROVE  /\ Reverse(seq) \in Seq(T) /\ (Distinct(seq) => Distinct(Reverse(seq)))
<1>1. Len(seq) \in Nat /\ seq \in [1..Len(seq) -> T]
  OBVIOUS
<1>2. ASSUME NEW i \in 1..Len(seq)
      PROVE  (Len(seq) - i) + 1 \in 1..Len(seq)
  BY <1>1
<1>3. Reverse(seq) = [i \in 1..Len(seq) |-> seq[(Len(seq) - i) + 1]]
  BY DEF Reverse
<1> DEFINE r == Reverse(seq)
<1>4. /\ r \in [1..Len(seq) -> T]
      /\ \A i \in 1..Len(seq) : r[i] = seq[(Len(seq) - i) + 1]
  <2> HIDE DEF r
  <2>1. r = [i \in 1..Len(seq) |-> seq[(Len(seq) - i) + 1]]
    BY <1>3 DEF r
  <2>2. QED
    BY <1>1, <1>2, <2>1
<1> HIDE DEF r
<1>5. r \in Seq(T) /\ Len(r) = Len(seq)
  BY <1>1, <1>4
<1>6. ASSUME Distinct(seq), NEW i \in 1..Len(r), NEW j \in 1..Len(r), r[i] = r[j] PROVE i = j
  <2>1. (Len(seq) - i) + 1 = (Len(seq) - j) + 1
    BY <1>2, <1>4, <1>5, <1>6 DEF Distinct
  <2>2. QED
    BY <1>1, <1>5, <2>1
<1>7. QED
  BY <1>5, <1>6 DEF r, Distinct

(* Without repetitions apart and with nothing in common, so together. *)
LEMMA DistinctTogether ==
  ASSUME NEW T, NEW a \in Seq(T), NEW b \in Seq(T), Distinct(a), Distinct(b),
         \A i \in 1..Len(a) : \A j \in 1..Len(b) : a[i] # b[j]
  PROVE  Distinct(a \o b)
<1> DEFINE c == a \o b
<1>1. /\ Len(a) \in Nat /\ Len(b) \in Nat /\ c \in Seq(T) /\ Len(c) = Len(a) + Len(b)
      /\ \A i \in 1..Len(a) : c[i] = a[i]
      /\ \A i \in 1..Len(c) : i > Len(a) => c[i] = b[i - Len(a)]
  OBVIOUS
<1> HIDE DEF c
<1>2. \A i \in 1..Len(c) : IF i > Len(a) THEN i - Len(a) \in 1..Len(b) ELSE i \in 1..Len(a)
  BY <1>1
<1>3. ASSUME NEW i \in 1..Len(c), NEW j \in 1..Len(c), c[i] = c[j] PROVE i = j
  <2>1. CASE i > Len(a) /\ j > Len(a)
    <3>1. i - Len(a) \in 1..Len(b) /\ j - Len(a) \in 1..Len(b)
      BY <1>2, <2>1
    <3>2. b[i - Len(a)] = b[j - Len(a)]
      BY <1>1, <1>3, <2>1
    <3>3. i - Len(a) = j - Len(a)
      BY <3>1, <3>2 DEF Distinct
    <3>4. QED
      BY <1>1, <3>3
  <2>2. CASE i > Len(a) /\ ~(j > Len(a))
    BY <1>1, <1>2, <1>3, <2>2
  <2>3. CASE ~(i > Len(a)) /\ j > Len(a)
    BY <1>1, <1>2, <1>3, <2>3
  <2>4. CASE ~(i > Len(a)) /\ ~(j > Len(a))
    BY <1>1, <1>2, <1>3, <2>4 DEF Distinct
  <2>5. QED
    BY <2>1, <2>2, <2>3, <2>4
<1>4. QED
  BY <1>3 DEF Distinct, c

(* What the API's page lists, no transaction twice. *)
LEMMA ApiItemsDistinct ==
  ASSUME IInv
  PROVE  ApiItems \in Seq(Nat) /\ Distinct(ApiItems) /\ Len(ApiItems) <= PageSize
<1> DEFINE seen == SubSeq(recorded, 1, shown)
           kept == Without(seen, {Nobody})
<1>1. recorded \in Seq(Nat) /\ shown \in 0..Len(recorded) /\ Once(recorded, {Nobody})
  BY DEF IInv, RecordedOnce, FetchIsAhead
<1>2. Len(recorded) \in Nat
  BY <1>1
<1>3. /\ seen \in Seq(Nat) /\ Len(seen) = shown
      /\ \A i \in 1..Len(seen) : seen[i] = recorded[i]
  BY <1>1, <1>2
<1> HIDE DEF seen
<1>4. Once(seen, {Nobody})
  BY <1>1, <1>2, <1>3 DEF Once
<1>5. kept \in Seq(Nat) /\ Distinct(kept)
  <2>1. KeepsOf(kept, Len(seen), seen, {Nobody}, Nat)
    BY <1>3, WithoutKeeps
  <2>2. QED
    BY <1>4, <2>1 DEF KeepsOf
<1> HIDE DEF kept
<1>6. Rows = Reverse(kept)
  BY DEF Rows, kept, seen
<1>7. Rows \in Seq(Nat) /\ Distinct(Rows)
  BY <1>5, <1>6, ReverseIs
<1>8. PageSize \in Nat
  BY LiveAssumption
<1>9. /\ ApiItems \in Seq(Nat) /\ Distinct(ApiItems)
      /\ Len(ApiItems) = IF Len(Rows) < PageSize THEN Len(Rows) ELSE PageSize
  BY <1>7, <1>8, FirstOfIs DEF ApiItems
<1>10. QED
  BY <1>7, <1>8, <1>9

(* What the store has and the API's page does not, the latest first. *)
LEMMA PendingLocalsDistinct ==
  ASSUME IInv
  PROVE  /\ PendingLocals \in Seq(Nat) /\ Distinct(PendingLocals)
         /\ Len(PendingLocals) <= PageSize
         /\ \A i \in 1..Len(PendingLocals) : \A j \in 1..Len(ApiItems) :
              PendingLocals[i] # ApiItems[j]
         /\ sent > 0 /\ ~Contains(ApiItems, sent) =>
              Len(PendingLocals) > 0 /\ PendingLocals[1] = sent
<1> DEFINE S == ToSet(ApiItems)
           rest == Without(txStore, S)
<1>1. /\ txStore \in Seq(Nat) /\ Len(txStore) \in Nat /\ Distinct(txStore)
      /\ sent > 0 => Len(txStore) > 0 /\ txStore[1] = sent
  BY DEF IInv, PageTyped, StoreHasLatest
<1>2. ApiItems \in Seq(Nat)
  BY ApiItemsDistinct
<1>3. \A x : x \in S <=> Contains(ApiItems, x)
  BY <1>2 DEF ToSet, Contains
<1> HIDE DEF S
<1>4. KeepsOf(rest, Len(txStore), txStore, S, Nat)
  BY <1>1, WithoutKeeps
<1>5. Once(txStore, S)
  BY <1>1 DEF Once, Distinct
<1>6. /\ rest \in Seq(Nat) /\ Len(rest) \in Nat /\ Distinct(rest)
      /\ \A i \in 1..Len(rest) : rest[i] \notin S
      /\ sent > 0 /\ sent \notin S => Len(rest) > 0 /\ rest[1] = sent
  <2> HIDE DEF rest
  <2>1. rest \in Seq(Nat) /\ Len(rest) \in Nat /\ Distinct(rest)
    BY <1>4, <1>5 DEF KeepsOf
  <2>2. \A i \in 1..Len(rest) : rest[i] \notin S
    BY <1>4 DEF KeepsOf, Contains
  <2>3. sent > 0 /\ sent \notin S => Len(rest) > 0 /\ rest[1] = sent
    BY <1>1, <1>4 DEF KeepsOf
  <2>4. QED
    BY <2>1, <2>2, <2>3
<1> HIDE DEF rest
<1>7. PageSize \in Nat \ {0}
  BY LiveAssumption
<1>8. PendingLocals = FirstOf(rest, PageSize)
  BY DEF PendingLocals, rest, S
<1>9. /\ PendingLocals \in Seq(Nat) /\ Distinct(PendingLocals)
      /\ Len(PendingLocals) = IF Len(rest) < PageSize THEN Len(rest) ELSE PageSize
      /\ \A i \in 1..Len(PendingLocals) : PendingLocals[i] = rest[i]
  BY <1>6, <1>7, <1>8, FirstOfIs
<1>10. Len(PendingLocals) <= PageSize /\ Len(PendingLocals) <= Len(rest)
  BY <1>6, <1>7, <1>9
<1>11. \A i \in 1..Len(PendingLocals) : PendingLocals[i] \notin S
  BY <1>6, <1>9, <1>10
<1>12. sent > 0 /\ sent \notin S => Len(PendingLocals) > 0 /\ PendingLocals[1] = sent
  BY <1>6, <1>7, <1>9
<1>13. QED
  BY <1>3, <1>9, <1>10, <1>11, <1>12 DEF Contains

(* The first page of the history lists no transaction twice and begins     *)
(* with the one sent last, unless the API's page lists it behind so many   *)
(* others that it falls off, whatever was dropped or is under way.         *)
THEOREM HistoryHasTheLatest == Spec => []HistoryShowsTheLatest
<1>1. ASSUME IInv PROVE HistoryShowsTheLatest
  <2> DEFINE P == PendingLocals
             A == ApiItems
             both == P \o A
  <2>1. /\ P \in Seq(Nat) /\ A \in Seq(Nat) /\ Len(P) \in Nat /\ Len(A) \in Nat
        /\ Len(P) <= PageSize /\ Distinct(P) /\ Distinct(A)
        /\ \A i \in 1..Len(P) : \A j \in 1..Len(A) : P[i] # A[j]
        /\ sent > 0 /\ ~Contains(A, sent) => Len(P) > 0 /\ P[1] = sent
    BY <1>1, ApiItemsDistinct, PendingLocalsDistinct
  <2>2. PageSize \in Nat \ {0} /\ Items = FirstOf(both, PageSize)
    BY LiveAssumption DEF Items
  <2> HIDE DEF P, A
  <2>3. Distinct(both)
    BY <2>1, DistinctTogether
  <2>4. /\ both \in Seq(Nat) /\ Len(both) = Len(P) + Len(A)
        /\ \A i \in 1..Len(P) : both[i] = P[i]
        /\ \A i \in 1..Len(A) : both[Len(P) + i] = A[i]
    BY <2>1
  <2> HIDE DEF both
  <2>5. /\ Items \in Seq(Nat) /\ Distinct(Items)
        /\ Len(Items) = IF Len(both) < PageSize THEN Len(both) ELSE PageSize
        /\ \A i \in 1..Len(Items) : Items[i] = both[i]
    BY <2>2, <2>3, <2>4, FirstOfIs
  <2>6. DOMAIN Items = 1..Len(Items) /\ DOMAIN A = 1..Len(A)
    BY <2>1, <2>5
  <2>7. \A i, j \in DOMAIN Items : Items[i] = Items[j] => i = j
    BY <2>5, <2>6 DEF Distinct
  <2>8. ASSUME sent > 0, ~Contains(Items, sent)
        PROVE  \E i \in DOMAIN A : A[i] = sent /\ Len(P) + i > PageSize
    <3>1. ASSUME Len(P) > 0, P[1] = sent PROVE FALSE
      <4>1. 1 \in 1..Len(Items) /\ 1 \in 1..Len(P)
        BY <2>1, <2>2, <2>4, <2>5, <3>1
      <4>2. Items[1] = sent
        BY <2>4, <2>5, <3>1, <4>1
      <4>3. QED
        BY <2>8, <4>1, <4>2 DEF Contains
    <3>2. PICK i \in 1..Len(A) : A[i] = sent
      BY <2>1, <2>8, <3>1 DEF Contains
    <3>3. ASSUME Len(P) + i <= PageSize PROVE FALSE
      <4>1. Len(P) + i \in 1..Len(Items)
        BY <2>1, <2>2, <2>4, <2>5, <3>2, <3>3
      <4>2. Items[Len(P) + i] = sent
        BY <2>4, <2>5, <3>2, <4>1
      <4>3. QED
        BY <2>8, <4>1, <4>2 DEF Contains
    <3>4. Len(P) + i > PageSize
      BY <2>1, <2>2, <3>2, <3>3
    <3>5. QED
      BY <2>6, <3>2, <3>4
  <2>9. QED
    BY <2>7, <2>8 DEF HistoryShowsTheLatest, P, A
<1>2. QED
  BY Inductive, <1>1, PTL
=============================================================================
