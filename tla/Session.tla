------------------------------ MODULE Session ------------------------------
(***************************************************************************)
(* What the pages of the frontend share: the page shown, the wallet, the   *)
(* chain with the allowances it keeps, the answers React Query has cached  *)
(* about them, and the toast of each transaction.  Wallet and chain are    *)
(* external, modelled from how the hooks use wagmi:                        *)
(*   - writeContractAsync opens a request in the wallet.  The user signs   *)
(*     it, and the hook goes on with the hash, or rejects it; either may   *)
(*     come after the page that asked was left;                            *)
(*   - a transaction is mined, with success or reverted, at any later time,*)
(*     and useWaitForTransactionReceipt tells which.                       *)
(* A call of the wallet is a record with an op, the allowances it grants   *)
(* and the allowances it spends, functions from some of the tokens.        *)
(***************************************************************************)
EXTENDS Naturals, Sequences, FiniteSets

CONSTANTS
  Pages,       \* the pages of the session
  Forms,       \* the forms that ask for transactions, some of them in modals
  Tokens,      \* ERC20 tokens, each with one spender: its router or staking contract
  Amounts,     \* what the forms may hold; 0 stands for the empty form
  Granted,     \* the allowance each token has from earlier sessions
  MaxRequests, \* bound, of each page: requests opened in the wallet by then
  MaxUnderway, \* bound: requests and transactions not settled at a time
  MaxEdits,    \* bound, of each page: changes made to forms by then
  MaxVisits    \* bound, of each page: pages and modals opened by then

ASSUME SessionAssumption ==
  /\ Granted \in [Tokens -> Nat]
  /\ Amounts \subseteq Nat /\ 0 \in Amounts
  /\ MaxRequests \in [Pages -> Nat] /\ MaxUnderway \in Nat /\ MaxEdits \in [Pages -> Nat]
  /\ MaxVisits \in [Pages -> Nat]

VARIABLES
  page,      \* the page shown
  visit,     \* how many pages and modals were opened
  mounts,    \* of each form, how often it was closed: the hooks it had are gone
  requests,  \* requests the user has not answered
  asked,     \* how many requests were opened
  edits,     \* how many changes forms have seen
  txs,       \* transactions sent, a hash is a position; each with its toast
  allowance, \* of each token, on the chain
  known      \* of each token, the allowance read last: {} before the first answer

session == <<page, visit, mounts, requests, asked, edits, txs, allowance, known>>

NoHash == 0
NewHash == Len(txs) + 1
Nothing == [t \in {} |-> 0]
Of(t, n) == [x \in {t} |-> n]

InitSession ==
  /\ page \in Pages
  /\ visit = 1 /\ mounts = [f \in Forms |-> 0]
  /\ requests = {} /\ asked = 0 /\ edits = 0
  /\ txs = <<>>
  /\ allowance = Granted
  /\ known = [t \in Tokens |-> {}]

\* Mutant: any receipt counts as a success.
HasReceipt(h) == h # NoHash /\ txs[h].status # "pending"

(* The receipt of a hash a hook holds: there to be told, or known to it. *)
Succeeded(h) == h # NoHash /\ txs[h].status = "success"
Reverted(h) == h # NoHash /\ txs[h].status = "reverted"
Waiting(h) == h # NoHash /\ ~txs[h].told
Confirmed(h) == Succeeded(h) /\ txs[h].told

\* Mutant: an allowance that is still being read counts as enough.
KnownOrLoading(t, n) == known[t] = {} \/ \E a \in known[t] : a >= n

(* The allowance a hook compares with: unknown while it is being read. *)
Checking(t) == known[t] = {}
KnownToCover(t, n) == \E a \in known[t] : a >= n
KnownToMiss(t, n) == \E a \in known[t] : a < n

Open(form) == {r \in requests : r.form = form}
Current(r) == r.mount = mounts[r.form]

(* One request is opened in the wallet. *)
Unmined == {h \in DOMAIN txs : txs[h].status = "pending"}
Ask(form, call) ==
  /\ asked < MaxRequests[page]
  /\ Cardinality(requests) + Cardinality(Unmined) < MaxUnderway
  /\ asked' = asked + 1
  /\ requests' = requests \cup
       {[id |-> asked + 1, form |-> form, mount |-> mounts[form], call |-> call]}
  /\ UNCHANGED <<page, visit, mounts, edits, txs, allowance, known>>

(* The user signs: a hash, and the toast the hook shows at once. *)
Send(r, call) ==
  /\ requests' = requests \ {r}
  /\ txs' = Append(txs, [form |-> r.form, mount |-> r.mount, call |-> call,
                         status |-> "pending", toast |-> "pending", told |-> FALSE])
  /\ UNCHANGED <<page, visit, mounts, asked, edits, allowance, known>>

Reject(r) ==
  /\ requests' = requests \ {r}
  /\ UNCHANGED <<page, visit, mounts, asked, edits, txs, allowance, known>>

(* The receipt reaches the hook, whose effect runs at once: with txToast, *)
(* the pending toast gives way to its outcome, and a form may be closed;  *)
(* or it has nothing to do.                                               *)
Closed(forms) == [f \in Forms |-> IF f \in forms THEN mounts[f] + 1 ELSE mounts[f]]
ToastClosing(h, kind, forms) ==
  /\ txs' = [txs EXCEPT ![h].toast = kind, ![h].told = TRUE]
  /\ mounts' = Closed(forms)
  /\ UNCHANGED <<page, visit, requests, asked, edits, allowance, known>>
Toast(h, kind) == ToastClosing(h, kind, {})
Learn(h) ==
  /\ txs[h].status # "pending" /\ ~txs[h].told
  /\ txs' = [txs EXCEPT ![h].told = TRUE]
  /\ UNCHANGED <<page, visit, mounts, requests, asked, edits, allowance, known>>

(* A transaction is mined; it can only succeed on the allowance it needs, *)
(* and a vote or an execution only once.                                  *)
Done == {txs[h].call.op : h \in {i \in DOMAIN txs : txs[i].status = "success"}}
MineTx(h) ==
  LET c == txs[h].call IN
  /\ txs[h].status = "pending"
  /\ \/ /\ \A t \in DOMAIN c.spends : allowance[t] >= c.spends[t]
        /\ c.op \in {"vote", "execute"} => c.op \notin Done
        /\ txs' = [txs EXCEPT ![h].status = "success"]
        /\ allowance' = [t \in Tokens |->
             IF t \in DOMAIN c.grants THEN c.grants[t]
             ELSE IF t \in DOMAIN c.spends THEN allowance[t] - c.spends[t]
             ELSE allowance[t]]
     \/ /\ txs' = [txs EXCEPT ![h].status = "reverted"]
        /\ UNCHANGED allowance
  /\ UNCHANGED <<page, visit, mounts, requests, asked, edits, known>>

(* The allowance is read: on mounting, and again when the window gets focus. *)
ReadAllowance(t) ==
  /\ known' = [known EXCEPT ![t] = {allowance[t]}]
  /\ UNCHANGED <<page, visit, mounts, requests, asked, edits, txs, allowance>>

(* The user changes a form. *)
Editing ==
  /\ edits < MaxEdits[page]
  /\ edits' = edits + 1
  /\ UNCHANGED <<page, visit, mounts, requests, asked, txs, allowance, known>>

(* Modals and pages are opened, and closed or left with the hooks they had. *)
Mount ==
  /\ visit < MaxVisits[page]
  /\ visit' = visit + 1
  /\ UNCHANGED <<page, mounts, requests, asked, edits, txs, allowance, known>>

Unmount(form) ==
  /\ mounts' = Closed({form})
  /\ UNCHANGED <<page, visit, requests, asked, edits, txs, allowance, known>>

Navigate(p, left) ==
  /\ visit < MaxVisits[page] /\ p # page
  /\ visit' = visit + 1
  /\ page' = p
  /\ mounts' = Closed(left)
  /\ UNCHANGED <<requests, asked, edits, txs, allowance, known>>
=============================================================================
