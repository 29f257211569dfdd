-------------------------- MODULE LiveTransactions --------------------------
(***************************************************************************)
(* How a recorded transaction reaches a page that is open: the WebSocket   *)
(* hub (backend/internal/v2/ws/hub.go), the page's sockets                 *)
(* (hooks/useTxSocket.ts), the refetch of what it shows, and the history   *)
(* in the navigation bar (hooks/useTxHistory.ts), which puts transactions  *)
(* just sent (store/useTxStore.ts) before those the API lists.             *)
(*   - Each run of useTxSocket's effect, one per address, is a loop of     *)
(*     connections of its own.  Its cleanup closes what wsRef holds and    *)
(*     stops the timer reconnectTimeoutRef holds, which need not be its    *)
(*     own; a loop it does not stop goes on for the old address.           *)
(*   - The hub never waits: what does not fit in a queue is dropped.       *)
(* The server's side of a connection that broke is left out: the hub does  *)
(* not wait for it either.                                                 *)
(***************************************************************************)
EXTENDS Integers, FiniteSets, SequencesExt, Lists

CONSTANTS
  BroadcastCap, \* events the hub holds: 256
  SendCap,      \* messages it holds for a client: 128
  StoreCap,     \* transactions the store keeps: 50
  PageSize,     \* entries of a page of the history: 5
  MaxTxs,       \* bound: transactions the user sends
  MaxRecorded,  \* bound: transactions the indexer records, of anybody
  MaxChanges,   \* bound: changes of the address
  MaxCuts       \* bound: connections that fail or break

ASSUME LiveAssumption ==
  /\ {BroadcastCap, SendCap, StoreCap, PageSize} \subseteq Nat \ {0}
  /\ {MaxTxs, MaxRecorded, MaxChanges, MaxCuts} \subseteq Nat

VARIABLES
  sent,      \* transactions sent: hashes are 1..sent
  txStore,   \* hashes the store keeps, the latest first
  failed,    \* hashes whose transaction reverted
  recorded,  \* what the indexer wrote: hashes in order, 0 of somebody else
  broadcast, \* the hub's queue, of positions in recorded
  links,     \* of each loop its connection: [state, up, server, send]
  loop,      \* the effect run that is current
  wsRef,     \* the loop whose socket the ref holds, or NoLoop
  timerRef,  \* the loop whose timer the ref holds, or NoLoop
  wsConnected,
  cuts,      \* how many connections failed or broke
  fetch,     \* the refetch under way: what the server has read, Unread before
  shown,     \* how much of recorded the page shows
  lost       \* history: positions dropped, or sent where nobody listened

page == <<sent, txStore, failed>>
sockets == <<links, loop, wsRef, timerRef, wsConnected, cuts>>
vars == <<page, recorded, broadcast, sockets, fetch, shown, lost>>

Loops == 1..(MaxChanges + 1)
NoLoop == 0
Nobody == 0
NoFetch == -2
Unread == -1

Unstarted == [state |-> "none", up |-> FALSE, server |-> "none", send |-> <<>>]
Connecting == [state |-> "connecting", up |-> TRUE, server |-> "none", send |-> <<>>]

Init ==
  /\ sent = 0 /\ txStore = <<>> /\ failed = {}
  /\ recorded = <<>> /\ broadcast = <<>>
  /\ links = [l \in Loops |-> IF l = 1 THEN Connecting ELSE Unstarted]
  /\ loop = 1 /\ wsRef = 1 /\ timerRef = NoLoop
  /\ wsConnected = FALSE /\ cuts = 0
  /\ fetch = NoFetch /\ shown = 0
  /\ lost = {}

Registered(l) == links[l].server = "registered"
Listening(l) == links[l].state = "open" /\ links[l].up /\ Registered(l)

-----------------------------------------------------------------------------
\* Mutant: a transaction is added behind the others, and the cap cuts it off.
AddTxLast(hash) ==
  FirstOf(Append(Without(txStore, {hash}), hash), StoreCap)

(* The store behind txToast: the pending toast of a form adds.  The status *)
(* later toasts write into an entry is left out: it decides nothing here.  *)
AddTx(hash) ==
  FirstOf(<<hash>> \o Without(txStore, {hash}), StoreCap)

SendTx ==
  /\ sent < MaxTxs
  /\ sent' = sent + 1
  /\ txStore' = AddTx(sent + 1)
  /\ UNCHANGED <<failed, recorded, broadcast, sockets, fetch, shown, lost>>

(* A transaction that reverts is never recorded. *)
Revert == \E h \in 1..sent :
  /\ h \notin failed /\ ~Contains(recorded, h)
  /\ failed' = failed \cup {h}
  /\ UNCHANGED <<sent, txStore, recorded, broadcast, sockets, fetch, shown, lost>>

-----------------------------------------------------------------------------
(* The indexer writes a transaction, then posts it to the API process; the *)
(* call may fail, and BroadcastEvent drops what the queue cannot hold.     *)
Record(h) ==
  LET n == Len(recorded) + 1 IN
  /\ n <= MaxRecorded
  /\ recorded' = Append(recorded, h)
  /\ \/ /\ Len(broadcast) < BroadcastCap
        /\ broadcast' = Append(broadcast, n)
        /\ UNCHANGED lost
     \/ /\ lost' = lost \cup {n}
        /\ UNCHANGED broadcast
  /\ UNCHANGED <<page, sockets, fetch, shown>>

RecordOwn == \E h \in (1..sent) \ failed : ~Contains(recorded, h) /\ Record(h)
RecordOther == Record(Nobody)

(* Run hands an event to every client, of whatever address. *)
HubBroadcast ==
  LET n == Head(broadcast)
      Takes(l) == Registered(l) /\ Len(links[l].send) < SendCap
  IN /\ broadcast # <<>>
     /\ broadcast' = Tail(broadcast)
     /\ links' = [l \in Loops |-> IF Takes(l) THEN [links[l] EXCEPT !.send = Append(@, n)]
                                  ELSE links[l]]
     /\ lost' = IF \E l \in Loops : Listening(l) /\ Takes(l) THEN lost ELSE lost \cup {n}
     /\ UNCHANGED <<page, recorded, loop, wsRef, timerRef, wsConnected, cuts, fetch, shown>>

-----------------------------------------------------------------------------
(* A connection: opened, registered with the hub, broken. *)
OnOpen(l) ==
  /\ links[l].state = "connecting"
  /\ links' = [links EXCEPT ![l].state = "open", ![l].server = "accepted"]
  /\ wsConnected' = TRUE
  /\ UNCHANGED <<page, recorded, broadcast, loop, wsRef, timerRef, cuts, fetch, shown, lost>>

Register(l) ==
  /\ links[l].server = "accepted" /\ links[l].up
  /\ links' = [links EXCEPT ![l].server = "registered"]
  /\ UNCHANGED <<page, recorded, broadcast, loop, wsRef, timerRef, wsConnected, cuts,
                 fetch, shown, lost>>

Cut(l) ==
  /\ links[l].state \in {"connecting", "open"} /\ links[l].up /\ cuts < MaxCuts
  /\ cuts' = cuts + 1
  /\ links' = [links EXCEPT ![l].up = FALSE]
  /\ lost' = lost \cup ToSet(links[l].send)
  /\ UNCHANGED <<page, recorded, broadcast, loop, wsRef, timerRef, wsConnected, fetch, shown>>

\* Mutant: no other connection when the ref is empty, as a cleanup leaves it.
OnCloseUnlessCleaned(l) ==
  LET again == IF wsRef = NoLoop THEN "none" ELSE "timer" IN
  /\ \/ links[l].state = "closing"
     \/ links[l].state \in {"connecting", "open"} /\ ~links[l].up
  /\ links' = [links EXCEPT ![l] = [Unstarted EXCEPT !.state = again]]
  /\ wsRef' = NoLoop /\ timerRef' = l /\ wsConnected' = FALSE
  /\ lost' = lost \cup ToSet(links[l].send)
  /\ UNCHANGED <<page, recorded, broadcast, loop, cuts, fetch, shown>>

(* onclose, whoever closed the socket, and the timer it starts. *)
OnClose(l) ==
  /\ \/ links[l].state = "closing"
     \/ links[l].state \in {"connecting", "open"} /\ ~links[l].up
  /\ links' = [links EXCEPT ![l] = [Unstarted EXCEPT !.state = "timer"]]
  /\ wsRef' = NoLoop /\ timerRef' = l /\ wsConnected' = FALSE
  /\ lost' = lost \cup ToSet(links[l].send)
  /\ UNCHANGED <<page, recorded, broadcast, loop, cuts, fetch, shown>>

Reconnect(l) ==
  /\ links[l].state = "timer"
  /\ links' = [links EXCEPT ![l] = Connecting]
  /\ wsRef' = l
  /\ UNCHANGED <<page, recorded, broadcast, loop, timerRef, wsConnected, cuts, fetch, shown, lost>>

(* Another address: the cleanup, and the effect's next run. *)
ChangeAddress ==
  LET Stopped(l) == l = timerRef /\ links[l].state = "timer"
      Left(l) == l = wsRef /\ links[l].state \in {"connecting", "open"}
  IN /\ loop <= MaxChanges
     /\ links' = [l \in Loops |-> IF l = loop + 1 THEN Connecting
                                  ELSE IF Stopped(l) THEN Unstarted
                                  ELSE IF Left(l) THEN [links[l] EXCEPT !.state = "closing"]
                                  ELSE links[l]]
     /\ lost' = lost \cup UNION {ToSet(links[l].send) : l \in {k \in Loops : Left(k)}}
     /\ loop' = loop + 1 /\ wsRef' = loop + 1
     /\ wsConnected' = FALSE
     /\ UNCHANGED <<page, recorded, broadcast, timerRef, cuts, fetch, shown>>

-----------------------------------------------------------------------------
\* Mutant: a refetch under way is left to answer for the message too.
DeliverUnlessFetching(l) ==
  /\ Listening(l) /\ links[l].send # <<>>
  /\ links' = [links EXCEPT ![l].send = Tail(@)]
  /\ fetch' = IF fetch = NoFetch THEN Unread ELSE fetch
  /\ UNCHANGED <<page, recorded, broadcast, loop, wsRef, timerRef, wsConnected, cuts, shown, lost>>

(* A message makes the queries stale: a refetch under way is cancelled and *)
(* another one started.  Its answer is what the server read.               *)
Deliver(l) ==
  /\ Listening(l) /\ links[l].send # <<>>
  /\ links' = [links EXCEPT ![l].send = Tail(@)]
  /\ fetch' = Unread
  /\ UNCHANGED <<page, recorded, broadcast, loop, wsRef, timerRef, wsConnected, cuts, shown, lost>>

FetchRead ==
  /\ fetch = Unread
  /\ fetch' = Len(recorded)
  /\ UNCHANGED <<page, recorded, broadcast, sockets, shown, lost>>
FetchDone ==
  /\ fetch \notin {NoFetch, Unread}
  /\ shown' = fetch /\ fetch' = NoFetch
  /\ UNCHANGED <<page, recorded, broadcast, sockets, lost>>

Next ==
  \/ SendTx \/ Revert \/ RecordOwn \/ RecordOther \/ HubBroadcast
  \/ \E l \in Loops : OnOpen(l) \/ Register(l) \/ Cut(l) \/ OnClose(l) \/ Reconnect(l) \/ Deliver(l)
  \/ ChangeAddress \/ FetchRead \/ FetchDone

(* The goroutines of the hub and of its clients, the browser's events and  *)
(* timers, and answers to requests come; the user and the chain need not.  *)
Fairness ==
  /\ WF_vars(HubBroadcast) /\ WF_vars(FetchRead) /\ WF_vars(FetchDone)
  /\ \A l \in Loops : /\ WF_vars(OnOpen(l)) /\ WF_vars(Register(l)) /\ WF_vars(Deliver(l))
                      /\ WF_vars(OnClose(l)) /\ WF_vars(Reconnect(l))

Spec == Init /\ [][Next]_vars /\ Fairness

-----------------------------------------------------------------------------
(* useTxHistory: the history as of the last answer, two pages of it.  The  *)
(* first one begins with transactions of the store it does not list.       *)
Rows == Reverse(Without(SubSeq(recorded, 1, shown), {Nobody}))
ApiItems == FirstOf(Rows, PageSize)
PendingLocals ==
  FirstOf(Without(txStore, ToSet(ApiItems)), PageSize)
Items == FirstOf(PendingLocals \o ApiItems, PageSize)

-----------------------------------------------------------------------------
(* Types; the queues and the store keep to their sizes, and the current   *)
(* loop is never stopped: it has a connection or a timer for the next.     *)
(* What the hook says of the connection is right before the address       *)
(* changes; later another loop may say so of its own.                      *)
TypeOK ==
  /\ sent \in 0..MaxTxs /\ failed \subseteq 1..sent
  /\ Len(txStore) <= StoreCap
  /\ ToSet(txStore) \subseteq 1..sent
  /\ ToSet(recorded) \subseteq ((1..sent) \ failed) \cup {Nobody}
  /\ Len(broadcast) <= BroadcastCap /\ ToSet(broadcast) \subseteq DOMAIN recorded
  /\ loop \in Loops /\ {wsRef, timerRef} \subseteq 0..loop
  /\ wsConnected \in BOOLEAN /\ cuts \in 0..MaxCuts
  /\ \A l \in Loops :
       /\ links[l].state \in {"none", "connecting", "open", "closing", "timer"}
       /\ links[l].server \in {"none", "accepted", "registered"}
       /\ Len(links[l].send) <= SendCap
  /\ links[loop].state \notin {"none", "closing"}
  /\ loop = 1 => wsConnected = (links[1].state = "open")
  /\ fetch \in {NoFetch, Unread} \cup 0..Len(recorded) /\ shown \in 0..Len(recorded)

(* Whatever the hub dropped and however often the address changed, the     *)
(* page always comes to listen again, and every transaction that was not   *)
(* dropped before it reached a listening socket is shown at last.          *)
PageKeepsUp ==
  /\ []<>Listening(loop)
  /\ \A n \in 1..MaxRecorded :
       (Len(recorded) >= n) ~> (shown >= n \/ n \in lost)

(* No transaction recorded is forgotten on its way to the page: it waits   *)
(* in the hub or at a socket the page listens to, a refetch will have it,  *)
(* it is shown, or it was dropped where the code drops messages.           *)
NothingForgotten ==
  \A n \in DOMAIN recorded :
    \/ n \in lost \/ Contains(broadcast, n)
    \/ \E l \in Loops : Listening(l) /\ Contains(links[l].send, n)
    \/ fetch = Unread \/ n <= fetch \/ n <= shown

(* The first page of the history lists no transaction twice, and the one   *)
(* sent last is on it, unless the API's first page lists it and so many    *)
(* come before it there, or are in the store and not listed, that it falls *)
(* off: they failed, were recorded later, or are not recorded yet.         *)
HistoryShowsTheLatest ==
  /\ \A i, j \in DOMAIN Items : Items[i] = Items[j] => i = j
  /\ sent > 0 /\ ~Contains(Items, sent) =>
       \E i \in DOMAIN ApiItems : ApiItems[i] = sent /\ Len(PendingLocals) + i > PageSize
=============================================================================
