--------------------------- MODULE FrontendProofs ---------------------------
(***************************************************************************)
(* The safety of the pages for any tokens, amounts, pools and bounds, and  *)
(* any order of edits, answers of the wallet, receipts and navigation.     *)
(*                                                                         *)
(* A step does two things.  To the session it does one of a few, all of    *)
(* them about the forms of the page (StepOf), and what every such step     *)
(* keeps is shown once.  And it moves its own form's state; for each form  *)
(* an invariant says which of its requests and transactions its step, hash *)
(* and flags stand for, and a step of other forms does not disturb it.     *)
(***************************************************************************)
EXTENDS Frontend, Groundwork, SequenceTheorems, TLAPS

-----------------------------------------------------------------------------
(* The session.  A call moves allowances of tokens; m says how often each  *)
(* form was closed.                                                        *)
CallOk(call) ==
  /\ DOMAIN call.grants \subseteq Tokens /\ DOMAIN call.spends \subseteq Tokens
  /\ \A t \in DOMAIN call.grants : call.grants[t] \in Nat
  /\ \A t \in DOMAIN call.spends : call.spends[t] \in Nat

RequestOk(r, m) == r.form \in Forms /\ r.mount \in 0 .. m[r.form] /\ CallOk(r.call)

Governed(form) == form \in Governance!GovernanceForms

(* Outside the governance page a receipt is what tells a hook anything.    *)
TxOk(tx, m) ==
  /\ DOMAIN tx = {"form", "mount", "call", "status", "toast", "told"}
  /\ tx.form \in Forms /\ tx.mount \in 0 .. m[tx.form] /\ CallOk(tx.call)
  /\ tx.status \in {"pending", "success", "reverted"}
  /\ tx.toast \in {"pending", "success", "error"}
  /\ tx.told => tx.status # "pending" \/ Governed(tx.form)

TxsAreList == \E S : txs \in Seq(S)

SessionOk ==
  /\ page \in Pages /\ visit \in Nat /\ edits \in Nat /\ asked \in Nat
  /\ mounts \in [Forms -> Nat]
  /\ allowance \in [Tokens -> Nat] /\ known \in [Tokens -> SUBSET Nat]
  /\ IsFiniteSet(requests) /\ Cardinality(requests) <= asked
  /\ \A r \in requests : RequestOk(r, mounts)
  /\ \A h \in DOMAIN txs : TxOk(txs[h], mounts)

(* A token no transaction of the session has touched has the allowance it  *)
(* had, and so knows every hook that has read it.                          *)
Touched(t) ==
  \E h \in DOMAIN txs :
    txs[h].status = "success" /\ t \in DOMAIN txs[h].call.spends \cup DOMAIN txs[h].call.grants
AfterFailure(call) == call.op = "deposit" /\ call.after = "failed"

AllowancesKnown ==
  \A t \in Tokens : ~Touched(t) => allowance[t] = Granted[t] /\ known[t] \subseteq {Granted[t]}
AskedWithinGranted ==
  \A r \in requests : \A t \in DOMAIN r.call.spends :
    Touched(t) \/ AfterFailure(r.call) \/ r.call.spends[t] <= Granted[t]

-----------------------------------------------------------------------------
(* The requests of a form as it is mounted now, its transactions that have *)
(* no outcome on the screen yet, and hashes it may hold.                   *)
Asking(form) == {r \in requests : r.form = form /\ r.mount = mounts[form]}
Announced(form) ==
  {h \in DOMAIN txs : txs[h].form = form /\ txs[h].mount = mounts[form] /\ txs[h].toast = "pending"}
AtRest(form) == Asking(form) = {} /\ Announced(form) = {}

IsOf(h, forms) == h = NoHash \/ (h \in DOMAIN txs /\ txs[h].form \in forms)
One(S) == \A x, y \in S : x = y

SwapSteps ==
  {"idle", "needsApprove", "quoted", "approving", "signing", "pending", "confirmed", "failed"}
SwapTokens == Swap!Offered \cup {Swap!NoToken}
SwapTyped ==
  /\ market \in Markets
  /\ swapStore \in [tokenIn : SwapTokens, tokenOut : SwapTokens, amountIn : Amounts,
                    slippage : Slippages, step : SwapSteps, hash : Nat]
  /\ swapPanel \in [selected : 1 .. 2, approveHash : Nat,
                    ran : {<<>>} \cup (Nat \X SwapTokens)]
  /\ refetches \subseteq [mount : Nat, token : SwapTokens]
  /\ overtaken \in BOOLEAN
  /\ IsOf(swapPanel.approveHash, {"swap"}) /\ IsOf(swapStore.hash, {"swap"})

(* The store outlives the page, so a swap is followed whatever is mounted. *)
SwapsSent == {h \in DOMAIN txs : txs[h].form = "swap" /\ txs[h].call.op = "swap"}
ApprovalsAnnounced == {h \in Announced("swap") : txs[h].call.op # "swap"}

SwapUnderway == swapStore.step = "pending" \/ \E r \in Open("swap") : r.call.op = "swap"
ApprovalUnderway ==
  \/ swapPanel.approveHash # NoHash \/ refetches # {}
  \/ \E r \in Open("swap") : r.call.op = "approve"

SwapFollowed ==
  /\ One(Open("swap"))
  /\ ~(SwapUnderway /\ ApprovalUnderway)
  /\ \A r \in Open("swap") :
       /\ r.call.op = "approve" => /\ swapStore.step = "approving"
                                   /\ swapPanel.approveHash = NoHash /\ refetches = {}
       /\ r.call.op = "swap" => swapStore.step = "signing"
       /\ swapStore.hash = NoHash \/ Reverted(swapStore.hash)
  /\ swapStore.step # "pending" => ~Waiting(swapStore.hash)
  /\ \A h \in ApprovalsAnnounced : h = swapPanel.approveHash
  /\ \A h \in SwapsSent : txs[h].toast = "pending" =>
       h = swapStore.hash /\ swapStore.step = "pending" /\ ~txs[h].told
  /\ \A f \in refetches : f.mount = mounts["swap"] /\ swapPanel.approveHash # NoHash =>
       txs[swapPanel.approveHash].toast # "pending"

SwapOk ==
  /\ \A r \in Open("swap") : r.call.op \in {"approve", "swap"}
  /\ \A f \in refetches : f.mount <= mounts["swap"]
  /\ page # "swap" => /\ AtRest("swap")
                      /\ \A f \in refetches : f.mount # mounts["swap"]
  /\ ~overtaken => SwapFollowed

-----------------------------------------------------------------------------
(* The two modals of the liquidity page. *)
Approving == {"approving0", "approving1"}
AddSteps == Approving \cup {"idle", "needsApprove0", "needsApprove1", "ready", "signing",
                            "pending", "confirmed", "failed"}
AddTokens == Liquidity!Choices \cup {Liquidity!NoToken}
ModalTyped == modal \in {"closed", "add", "remove"} /\ (modal # "closed" => page = "liquidity")
AddTyped ==
  /\ addStore \in [token0 : AddTokens, token1 : AddTokens, amount0 : Nat, amount1 : Nat,
                   step : AddSteps, hash : Nat]
  /\ addHook \in [approveHash : Nat, ran : {<<>>} \cup (Nat \X AddSteps), addHash : Nat]
  /\ addRefetches \subseteq [mount : Nat, token : AddTokens]
  /\ displaced \in BOOLEAN
  /\ IsOf(addHook.approveHash, {"add"}) /\ IsOf(addHook.addHash, {"add"})
  /\ IsOf(addStore.hash, {"add"})
RemoveTyped ==
  /\ removal \in [percent : Percents \cup {0}, confirming : BOOLEAN,
                  step : {"idle", "signing", "pending", "confirmed", "failed"}, hash : Nat]
  /\ IsOf(removal.hash, {"remove"})
LiquidityTyped == ModalTyped /\ AddTyped /\ RemoveTyped

AddFollowed ==
  /\ \A r \in Open("add") :
       /\ r.mount = mounts["add"]
       /\ addStore.step \in (IF r.call.op = "approve" THEN Approving ELSE {"signing"})
       /\ addHook.approveHash = NoHash /\ addRefetches = {}
  /\ addHook.approveHash # NoHash => addStore.step \in Approving
  /\ addRefetches # {} => /\ addHook.ran = <<addHook.approveHash, addStore.step>>
                          /\ Succeeded(addHook.approveHash)
                          /\ txs[addHook.approveHash].toast # "pending"
  /\ One(addRefetches)
  /\ \A f \in addRefetches : f.mount = mounts["add"]
  /\ \A h \in Announced("add") :
       IF txs[h].call.op = "approve" THEN h = addHook.approveHash
       ELSE h = addHook.addHash /\ addStore.step = "pending"

AddOk ==
  /\ modal # "add" => AtRest("add")
  /\ ~displaced => One(Open("add")) /\ (modal = "add" => AddFollowed)

RemoveOk ==
  /\ modal # "remove" => AtRest("remove")
  /\ modal = "remove" =>
       /\ One(Asking("remove"))
       /\ Asking("remove") # {} => removal.step = "signing" /\ ~removal.confirming
                                   /\ removal.hash = NoHash
       /\ removal.confirming => removal.step = "idle" /\ removal.hash = NoHash
       /\ \A h \in Announced("remove") : h = removal.hash /\ removal.step = "pending"

-----------------------------------------------------------------------------
(* The panel and the modals of the staking page. *)
StakePanels ==
  [tab : {"stake", "unstake"}, amount : Amounts,
   step : {"idle", "needsApprove", "approving", "signing", "pending", "confirmed", "failed"},
   hash : Nat, action : {"none", "deposit", "withdraw", "claim"}, approveHash : Nat, ran : Nat]
Funds == [amount : Amounts, step : {"idle", "approving", "signing", "confirming", "done"},
          approveHash : Nat, hash : Nat]
Admins == [active : {"none", "pause", "rate", "cap", "resume", "add"}, hash : Nat]

StakeTyped ==
  /\ pool \in {"active", "paused", "closed"}
  /\ panel \in StakePanels /\ stakeRefetch \subseteq Nat /\ dropped \in BOOLEAN
  /\ IsOf(panel.hash, {"stake"}) /\ IsOf(panel.approveHash, {"stake"})
  /\ IsOf(panel.ran, {"stake"})
DialogTyped ==
  dialog \in {"none", "fund", "manage", "addPool"} /\ (dialog # "none" => page = "staking")
FundTyped == fund \in Funds /\ IsOf(fund.hash, {"fund"}) /\ IsOf(fund.approveHash, {"fund"})
AdminTyped == admin \in Admins /\ IsOf(admin.hash, {"manage", "addPool"})
StakingTyped == StakeTyped /\ DialogTyped /\ FundTyped /\ AdminTyped

Refetching == mounts["stake"] \in stakeRefetch

StakeFollowed ==
  /\ One(Asking("stake"))
  /\ \A r \in Asking("stake") :
       /\ panel.step = IF r.call.op = "approve" THEN "approving" ELSE "signing"
       /\ panel.approveHash = NoHash /\ ~Refetching
  /\ panel.approveHash # NoHash => panel.step = "approving"
  /\ Refetching => /\ panel.ran = panel.approveHash
                   /\ Succeeded(panel.approveHash)
                   /\ txs[panel.approveHash].toast # "pending"
  /\ \A h \in Announced("stake") :
       IF txs[h].call.op = "approve" THEN h = panel.approveHash
       ELSE h = panel.hash /\ panel.step = "pending" /\ ~txs[h].told

StakeOk ==
  /\ \A m \in stakeRefetch : m <= mounts["stake"]
  /\ page # "staking" => AtRest("stake") /\ ~Refetching
  /\ ~dropped => StakeFollowed

FundOk ==
  /\ dialog # "fund" => AtRest("fund")
  /\ dialog = "fund" =>
       /\ One(Asking("fund"))
       /\ \A r \in Asking("fund") :
            fund.step = IF r.call.op = "approve" THEN "approving" ELSE "signing"
       /\ \A h \in Announced("fund") : txs[h].call.op # "approve" =>
            h = fund.hash /\ fund.step = "confirming"

AdminOk(form) ==
  /\ dialog # form => AtRest(form)
  /\ dialog = form =>
       /\ One(Asking(form))
       /\ \A r \in Asking(form) : admin.active = r.call.op /\ ~Waiting(admin.hash)
       /\ \A r \in Asking(form) : r.call.op # "none"
       /\ \A h \in Announced(form) : h = admin.hash /\ ~txs[h].told

-----------------------------------------------------------------------------
(* The governance page: what is under way there, from the request to the   *)
(* outcome, is one thing of each form, and the form knows.                 *)
GovernanceTyped ==
  /\ ended \in BOOLEAN /\ creating \in BOOLEAN
  /\ facts \in [Governance!Facts -> SUBSET BOOLEAN]
  /\ card \in [confirming : BOOLEAN, loading : BOOLEAN, voted : BOOLEAN, success : BOOLEAN]
  /\ busy \subseteq {"execute", "delegate", "create"}
  /\ creating => page = "governance"

Busy(form) ==
  /\ page = "governance"
  /\ form = "vote" => card.confirming /\ card.loading
  /\ form = "create" => creating
  /\ form # "vote" => form \in busy

GovernanceOk(form) ==
  /\ ~Busy(form) => AtRest(form)
  /\ One(Asking(form)) /\ One(Announced(form))
  /\ Asking(form) = {} \/ Announced(form) = {}

-----------------------------------------------------------------------------
FlowsTyped == SwapTyped /\ LiquidityTyped /\ StakingTyped /\ GovernanceTyped
FormsOk ==
  /\ SwapOk /\ AddOk /\ RemoveOk
  /\ StakeOk /\ FundOk /\ AdminOk("manage") /\ AdminOk("addPool")
  /\ \A form \in Governance!GovernanceForms : GovernanceOk(form)

IInv ==
  /\ SessionOk /\ TxsAreList
  /\ ToastsTellTheOutcome /\ AllowancesKnown /\ AskedWithinGranted
  /\ FlowsTyped /\ FormsOk

-----------------------------------------------------------------------------
(* What the steps of a page may do to the session: S are its forms.        *)
Affordable(call) ==
  \A t \in DOMAIN call.spends : AfterFailure(call) \/ KnownToCover(t, call.spends[t])
Truthful(h, kind) ==
  \/ kind = "success" /\ (Succeeded(h) \/ (Governed(txs[h].form) /\ Reverted(h)))
  \/ kind = "error" /\ (Reverted(h) \/ Governed(txs[h].form))

(* One request more, whatever the bounds on them. *)
Request(form, call) ==
  /\ asked' = asked + 1
  /\ requests' = requests \cup
       {[id |-> asked + 1, form |-> form, mount |-> mounts[form], call |-> call]}
  /\ UNCHANGED <<page, visit, mounts, edits, txs, allowance, known>>

AskStep(S) ==
  \E form \in S : \E call : CallOk(call) /\ Affordable(call) /\ Request(form, call)
SendStep(S) ==
  \E r \in requests : \E call : r.form \in S /\ CallOk(call) /\ Send(r, call)
RejectStep(S) == \E r \in requests : r.form \in S /\ Reject(r)
ToastStep(S) ==
  \E h \in DOMAIN txs : \E kind : \E forms \in SUBSET S :
    txs[h].form \in S /\ Truthful(h, kind) /\ ToastClosing(h, kind, forms)
LearnStep(S) == \E h \in DOMAIN txs : txs[h].form \in S /\ Learn(h)
CloseStep(S) ==
  \/ \E form \in S : Unmount(form)
  \/ \E p \in Pages : \E left \in SUBSET S : Navigate(p, left)
MineStep == \E h \in DOMAIN txs : MineTx(h)
ReadStep == \E t \in Tokens : ReadAllowance(t)

StepOf(S) ==
  \/ AskStep(S) \/ SendStep(S) \/ RejectStep(S) \/ ToastStep(S) \/ LearnStep(S) \/ CloseStep(S)
  \/ MineStep \/ ReadStep \/ Editing \/ Mount
  \/ UNCHANGED session

(* Transactions are never forgotten, nor what is known of them.            *)
TxKept(h) ==
  /\ h \in DOMAIN txs'
  /\ txs'[h].form = txs[h].form /\ txs'[h].mount = txs[h].mount /\ txs'[h].call = txs[h].call
  /\ txs[h].status # "pending" => txs'[h].status = txs[h].status
  /\ txs[h].told => txs'[h].told
  /\ txs[h].toast # "pending" => txs'[h].toast # "pending"
HistoryKept == \A h \in DOMAIN txs : TxKept(h)

(* A form that a step leaves alone: only its transactions may be mined.    *)
Same(form) ==
  /\ mounts'[form] = mounts[form]
  /\ Open(form)' = Open(form)
  /\ \A h \in DOMAIN txs : txs[h].form = form =>
       txs'[h].toast = txs[h].toast /\ txs'[h].told = txs[h].told
  /\ \A h \in DOMAIN txs' : txs'[h].form = form => h \in DOMAIN txs

LEMMA AppendIs ==
  ASSUME NEW S, NEW s \in Seq(S), NEW e
  PROVE  /\ Len(s) + 1 \in Nat \ {0} /\ Len(s) + 1 \notin DOMAIN s
         /\ DOMAIN Append(s, e) = DOMAIN s \cup {Len(s) + 1}
         /\ Append(s, e)[Len(s) + 1] = e
         /\ \A h \in DOMAIN s : Append(s, e)[h] = s[h]
         /\ Append(s, e) \in Seq(S \cup {e})
<1>1. s \in Seq(S \cup {e}) /\ e \in S \cup {e}
  OBVIOUS
<1>2. Append(s, e) \in Seq(S \cup {e})
  BY <1>1
<1>3. QED
  BY <1>2

LEMMA UpdateIs ==
  ASSUME NEW S, NEW s \in Seq(S), NEW t, t = [h \in DOMAIN s |-> t[h]]
  PROVE  \E T : t \in Seq(T)
<1> DEFINE T == {t[h] : h \in DOMAIN s}
<1>1. DOMAIN s = 1 .. Len(s) /\ Len(s) \in Nat
  OBVIOUS
<1>2. t \in [1 .. Len(s) -> T]
  BY <1>1
<1>3. t \in Seq(T)
  BY <1>1, <1>2, SeqDef
<1>4. QED
  BY <1>3

LEMMA SendIs ==
  ASSUME TxsAreList, NEW r, NEW call, Send(r, call)
  PROVE  /\ TxsAreList'
         /\ NewHash \in Nat \ {0} /\ NewHash \notin DOMAIN txs
         /\ DOMAIN txs' = DOMAIN txs \cup {NewHash}
         /\ txs'[NewHash] = [form |-> r.form, mount |-> r.mount, call |-> call,
                             status |-> "pending", toast |-> "pending", told |-> FALSE]
         /\ \A h \in DOMAIN txs : txs'[h] = txs[h]
         /\ requests' = requests \ {r}
         /\ page' = page /\ mounts' = mounts /\ asked' = asked /\ edits' = edits
         /\ visit' = visit /\ allowance' = allowance /\ known' = known
<1>1. PICK S : txs \in Seq(S)
  BY DEF TxsAreList
<1> DEFINE e == [form |-> r.form, mount |-> r.mount, call |-> call,
                 status |-> "pending", toast |-> "pending", told |-> FALSE]
<1>2. txs' = Append(txs, e) /\ NewHash = Len(txs) + 1
  BY DEF Send, NewHash
<1> HIDE DEF e
<1>3. /\ Len(txs) + 1 \in Nat \ {0} /\ Len(txs) + 1 \notin DOMAIN txs
      /\ DOMAIN Append(txs, e) = DOMAIN txs \cup {Len(txs) + 1}
      /\ Append(txs, e)[Len(txs) + 1] = e
      /\ \A h \in DOMAIN txs : Append(txs, e)[h] = txs[h]
      /\ Append(txs, e) \in Seq(S \cup {e})
  BY <1>1, AppendIs
<1>4. TxsAreList'
  BY <1>2, <1>3 DEF TxsAreList
<1>5. QED
  BY <1>2, <1>3, <1>4 DEF e, Send

LEMMA ToastIs ==
  ASSUME TxsAreList, SessionOk, NEW h \in DOMAIN txs, NEW kind, NEW forms,
         ToastClosing(h, kind, forms)
  PROVE  /\ TxsAreList' /\ DOMAIN txs' = DOMAIN txs
         /\ txs'[h].toast = kind /\ txs'[h].told
         /\ DOMAIN txs'[h] = DOMAIN txs[h]
         /\ txs'[h].form = txs[h].form /\ txs'[h].mount = txs[h].mount
         /\ txs'[h].call = txs[h].call /\ txs'[h].status = txs[h].status
         /\ \A g \in DOMAIN txs : g # h => txs'[g] = txs[g]
         /\ requests' = requests
         /\ mounts' = [f \in Forms |-> IF f \in forms THEN mounts[f] + 1 ELSE mounts[f]]
         /\ page' = page /\ asked' = asked /\ edits' = edits
         /\ visit' = visit /\ allowance' = allowance /\ known' = known
<1>1. PICK S : txs \in Seq(S)
  BY DEF TxsAreList
<1>2. txs' = [txs EXCEPT ![h].toast = kind, ![h].told = TRUE]
  BY DEF ToastClosing
<1>3. DOMAIN txs[h] = {"form", "mount", "call", "status", "toast", "told"}
  BY DEF SessionOk, TxOk
<1>4. txs' = [g \in DOMAIN txs |-> txs'[g]]
  BY <1>2
<1>5. TxsAreList'
  BY <1>1, <1>4, UpdateIs DEF TxsAreList
<1>6. QED
  BY <1>2, <1>3, <1>5 DEF ToastClosing, Closed

LEMMA LearnIs ==
  ASSUME TxsAreList, SessionOk, NEW h \in DOMAIN txs, Learn(h)
  PROVE  /\ TxsAreList' /\ DOMAIN txs' = DOMAIN txs
         /\ txs[h].status # "pending" /\ ~txs[h].told
         /\ txs'[h] = [txs[h] EXCEPT !.told = TRUE] /\ txs'[h].told
         /\ DOMAIN txs'[h] = DOMAIN txs[h]
         /\ txs'[h].form = txs[h].form /\ txs'[h].mount = txs[h].mount
         /\ txs'[h].call = txs[h].call /\ txs'[h].status = txs[h].status
         /\ txs'[h].toast = txs[h].toast
         /\ \A g \in DOMAIN txs : g # h => txs'[g] = txs[g]
         /\ requests' = requests /\ mounts' = mounts
         /\ page' = page /\ asked' = asked /\ edits' = edits
         /\ visit' = visit /\ allowance' = allowance /\ known' = known
<1>1. PICK S : txs \in Seq(S)
  BY DEF TxsAreList
<1>2. txs' = [txs EXCEPT ![h].told = TRUE]
  BY DEF Learn
<1>3. DOMAIN txs[h] = {"form", "mount", "call", "status", "toast", "told"}
  BY DEF SessionOk, TxOk
<1>4. txs' = [g \in DOMAIN txs |-> txs'[g]]
  BY <1>2
<1>5. TxsAreList'
  BY <1>1, <1>4, UpdateIs DEF TxsAreList
<1>6. QED
  BY <1>2, <1>3, <1>5 DEF Learn

LEMMA MineIs ==
  ASSUME TxsAreList, SessionOk, NEW h \in DOMAIN txs, MineTx(h)
  PROVE  /\ TxsAreList' /\ DOMAIN txs' = DOMAIN txs
         /\ txs[h].status = "pending" /\ txs'[h].status \in {"success", "reverted"}
         /\ DOMAIN txs'[h] = DOMAIN txs[h]
         /\ txs'[h].form = txs[h].form /\ txs'[h].mount = txs[h].mount
         /\ txs'[h].call = txs[h].call /\ txs'[h].toast = txs[h].toast
         /\ txs'[h].told = txs[h].told
         /\ \A g \in DOMAIN txs : g # h => txs'[g] = txs[g]
         /\ requests' = requests /\ mounts' = mounts
         /\ page' = page /\ asked' = asked /\ edits' = edits
         /\ visit' = visit /\ known' = known
<1>1. PICK S : txs \in Seq(S)
  BY DEF TxsAreList
<1>2. PICK status \in {"success", "reverted"} : txs' = [txs EXCEPT ![h].status = status]
  BY DEF MineTx
<1>3. DOMAIN txs[h] = {"form", "mount", "call", "status", "toast", "told"}
  BY DEF SessionOk, TxOk
<1>4. txs' = [g \in DOMAIN txs |-> txs'[g]]
  BY <1>2
<1>5. TxsAreList'
  BY <1>1, <1>4, UpdateIs DEF TxsAreList
<1>6. QED
  BY <1>2, <1>3, <1>5 DEF MineTx

-----------------------------------------------------------------------------
(* What every step keeps of the session. *)
MountsGrow == mounts' \in [Forms -> Nat] /\ \A f \in Forms : mounts[f] <= mounts'[f]

LEMMA ClosedGrows ==
  ASSUME SessionOk, NEW forms,
         mounts' = [f \in Forms |-> IF f \in forms THEN mounts[f] + 1 ELSE mounts[f]]
  PROVE  MountsGrow
BY DEF SessionOk, MountsGrow

LEMMA RecordsStay ==
  ASSUME SessionOk, MountsGrow
  PROVE  /\ \A r \in requests : RequestOk(r, mounts')
         /\ \A h \in DOMAIN txs : \A tx :
              /\ DOMAIN tx = DOMAIN txs[h] /\ tx.form = txs[h].form /\ tx.mount = txs[h].mount
              /\ tx.call = txs[h].call
              /\ tx.status \in {"pending", "success", "reverted"}
              /\ tx.toast \in {"pending", "success", "error"}
              /\ tx.told => tx.status # "pending" \/ Governed(tx.form)
              => TxOk(tx, mounts')
         /\ \A h \in DOMAIN txs : TxOk(txs[h], mounts')
<1>1. ASSUME NEW n, NEW f \in Forms, n \in 0 .. mounts[f] PROVE n \in 0 .. mounts'[f]
  BY <1>1 DEF SessionOk, MountsGrow
<1>2. ASSUME NEW r \in requests PROVE RequestOk(r, mounts')
  BY <1>1 DEF SessionOk, RequestOk, CallOk
<1>3. ASSUME NEW h \in DOMAIN txs, NEW tx,
             DOMAIN tx = DOMAIN txs[h], tx.form = txs[h].form, tx.mount = txs[h].mount,
             tx.call = txs[h].call,
             tx.status \in {"pending", "success", "reverted"},
             tx.toast \in {"pending", "success", "error"},
             tx.told => tx.status # "pending" \/ Governed(tx.form)
      PROVE  TxOk(tx, mounts')
  <2>1. TxOk(txs[h], mounts)
    BY DEF SessionOk
  <2>2. QED
    BY <1>1, <1>3, <2>1 DEF TxOk, CallOk, Governed, Governance!GovernanceForms
<1>4. ASSUME NEW h \in DOMAIN txs PROVE TxOk(txs[h], mounts')
  <2>1. TxOk(txs[h], mounts)
    BY DEF SessionOk
  <2>2. QED
    BY <1>1, <2>1 DEF TxOk, CallOk, Governed, Governance!GovernanceForms
<1>5. QED
  BY <1>2, <1>3, <1>4

LEMMA AskKeeps ==
  ASSUME SessionOk, TxsAreList, NEW form \in Forms, NEW call, CallOk(call), Request(form, call)
  PROVE  SessionOk' /\ TxsAreList' /\ HistoryKept
<1> DEFINE r == [id |-> asked + 1, form |-> form, mount |-> mounts[form], call |-> call]
<1>1. /\ requests' = requests \cup {r} /\ asked' = asked + 1
      /\ page' = page /\ visit' = visit /\ mounts' = mounts /\ edits' = edits
      /\ txs' = txs /\ allowance' = allowance /\ known' = known
  BY DEF Request
<1>2. MountsGrow
  BY <1>1 DEF MountsGrow, SessionOk
<1>3. RequestOk(r, mounts')
  BY <1>1 DEF RequestOk, CallOk, SessionOk
<1>4. RequestOk(r, mounts') /\ \A q \in requests : RequestOk(q, mounts')
  BY <1>2, <1>3, RecordsStay
<1> HIDE DEF r
<1>5. IsFiniteSet(requests') /\ Cardinality(requests') <= asked'
  <2>1. IsFiniteSet(requests) /\ Cardinality(requests) \in Nat /\ asked \in Nat
        /\ Cardinality(requests) <= asked
    BY FS_CardinalityType DEF SessionOk
  <2>2. CASE r \in requests
    <3>1. requests' = requests
      BY <1>1, <2>2
    <3>2. QED
      BY <1>1, <2>1, <3>1
  <2>3. CASE r \notin requests
    <3>1. IsFiniteSet(requests \cup {r}) /\ Cardinality(requests \cup {r}) = Cardinality(requests) + 1
      BY <2>1, <2>3, FS_AddElement
    <3>2. QED
      BY <1>1, <2>1, <3>1
  <2>4. QED
    BY <2>2, <2>3
<1>6. \A h \in DOMAIN txs' : TxOk(txs'[h], mounts')
  BY <1>1 DEF SessionOk, TxOk, CallOk
<1>7. SessionOk'
  BY <1>1, <1>4, <1>5, <1>6 DEF SessionOk
<1>8. TxsAreList' /\ HistoryKept
  BY <1>1 DEF TxsAreList, HistoryKept, TxKept
<1>9. QED
  BY <1>7, <1>8

(* Fewer requests are no more than were asked. *)
LEMMA FewerRequests ==
  ASSUME SessionOk, NEW r
  PROVE  IsFiniteSet(requests \ {r}) /\ Cardinality(requests \ {r}) <= asked
<1>1. IsFiniteSet(requests) /\ Cardinality(requests) \in Nat /\ asked \in Nat
      /\ Cardinality(requests) <= asked
  BY FS_CardinalityType DEF SessionOk
<1>2. requests \ {r} \subseteq requests
  OBVIOUS
<1>3. IsFiniteSet(requests \ {r}) /\ Cardinality(requests \ {r}) <= Cardinality(requests)
      /\ Cardinality(requests \ {r}) \in Nat
  BY <1>1, <1>2, FS_Subset, FS_CardinalityType
<1>4. QED
  BY <1>1, <1>3

LEMMA SendKeeps ==
  ASSUME SessionOk, TxsAreList, NEW r \in requests, NEW call, CallOk(call), Send(r, call)
  PROVE  SessionOk' /\ TxsAreList' /\ HistoryKept
<1>1. /\ TxsAreList'
      /\ NewHash \in Nat \ {0} /\ NewHash \notin DOMAIN txs
      /\ DOMAIN txs' = DOMAIN txs \cup {NewHash}
      /\ txs'[NewHash] = [form |-> r.form, mount |-> r.mount, call |-> call,
                          status |-> "pending", toast |-> "pending", told |-> FALSE]
      /\ \A h \in DOMAIN txs : txs'[h] = txs[h]
      /\ requests' = requests \ {r}
      /\ page' = page /\ mounts' = mounts /\ asked' = asked /\ edits' = edits
      /\ visit' = visit /\ allowance' = allowance /\ known' = known
  BY SendIs
<1>2. TxOk(txs'[NewHash], mounts')
  BY <1>1 DEF SessionOk, RequestOk, TxOk, CallOk
<1>3. \A h \in DOMAIN txs : TxOk(txs'[h], mounts')
  BY <1>1 DEF SessionOk, TxOk, CallOk
<1>4. \A q \in requests' : RequestOk(q, mounts')
  BY <1>1 DEF SessionOk, RequestOk, CallOk
<1>5. IsFiniteSet(requests') /\ Cardinality(requests') <= asked'
  BY <1>1, FewerRequests
<1>6. SessionOk'
  BY <1>1, <1>2, <1>3, <1>4, <1>5 DEF SessionOk
<1>7. HistoryKept
  BY <1>1 DEF HistoryKept, TxKept
<1>8. QED
  BY <1>1, <1>6, <1>7

LEMMA RejectKeeps ==
  ASSUME SessionOk, TxsAreList, NEW r \in requests, Reject(r)
  PROVE  SessionOk' /\ TxsAreList' /\ HistoryKept
<1>1. /\ requests' = requests \ {r} /\ txs' = txs
      /\ page' = page /\ mounts' = mounts /\ asked' = asked /\ edits' = edits
      /\ visit' = visit /\ allowance' = allowance /\ known' = known
  BY DEF Reject
<1>2. IsFiniteSet(requests') /\ Cardinality(requests') <= asked'
  BY <1>1, FewerRequests
<1>3. (\A h \in DOMAIN txs' : TxOk(txs'[h], mounts')) /\ (\A q \in requests' : RequestOk(q, mounts'))
  BY <1>1 DEF SessionOk, TxOk, RequestOk, CallOk
<1>4. QED
  BY <1>1, <1>2, <1>3 DEF SessionOk, HistoryKept, TxKept, TxsAreList

LEMMA ToastKeeps ==
  ASSUME SessionOk, TxsAreList, NEW h \in DOMAIN txs, NEW kind, NEW forms,
         Truthful(h, kind), ToastClosing(h, kind, forms)
  PROVE  SessionOk' /\ TxsAreList' /\ HistoryKept
<1>1. /\ TxsAreList' /\ DOMAIN txs' = DOMAIN txs
      /\ txs'[h].toast = kind /\ txs'[h].told
      /\ DOMAIN txs'[h] = DOMAIN txs[h]
      /\ txs'[h].form = txs[h].form /\ txs'[h].mount = txs[h].mount
      /\ txs'[h].call = txs[h].call /\ txs'[h].status = txs[h].status
      /\ \A g \in DOMAIN txs : g # h => txs'[g] = txs[g]
      /\ requests' = requests
      /\ mounts' = [f \in Forms |-> IF f \in forms THEN mounts[f] + 1 ELSE mounts[f]]
      /\ page' = page /\ asked' = asked /\ edits' = edits
      /\ visit' = visit /\ allowance' = allowance /\ known' = known
  BY ToastIs
<1>2. MountsGrow
  BY <1>1, ClosedGrows
<1>3. /\ kind \in {"success", "error"}
      /\ txs[h].status # "pending" \/ Governed(txs[h].form)
  BY DEF Truthful, Succeeded, Reverted
<1>4. TxOk(txs[h], mounts) /\ \A g \in DOMAIN txs : TxOk(txs[g], mounts)
  BY DEF SessionOk
<1>5. TxOk(txs'[h], mounts')
  <2>1. txs[h].status \in {"pending", "success", "reverted"}
    BY <1>4 DEF TxOk
  <2>2. QED
    BY <1>1, <1>2, <1>3, <2>1, RecordsStay
<1>6. ASSUME NEW g \in DOMAIN txs, g # h PROVE TxOk(txs'[g], mounts')
  <2>1. txs'[g] = txs[g]
    BY <1>1, <1>6
  <2>2. QED
    BY <1>2, <2>1, RecordsStay
<1>7. \A q \in requests' : RequestOk(q, mounts')
  BY <1>1, <1>2, RecordsStay
<1>8. SessionOk'
  BY <1>1, <1>2, <1>5, <1>6, <1>7 DEF SessionOk, MountsGrow
<1>9. HistoryKept
  BY <1>1, <1>3 DEF HistoryKept, TxKept
<1>10. QED
  BY <1>1, <1>8, <1>9

LEMMA LearnKeeps ==
  ASSUME SessionOk, TxsAreList, NEW h \in DOMAIN txs, Learn(h)
  PROVE  SessionOk' /\ TxsAreList' /\ HistoryKept
<1>1. /\ TxsAreList' /\ DOMAIN txs' = DOMAIN txs
      /\ txs[h].status # "pending" /\ txs'[h].told
      /\ DOMAIN txs'[h] = DOMAIN txs[h]
      /\ txs'[h].form = txs[h].form /\ txs'[h].mount = txs[h].mount
      /\ txs'[h].call = txs[h].call /\ txs'[h].status = txs[h].status
      /\ txs'[h].toast = txs[h].toast
      /\ \A g \in DOMAIN txs : g # h => txs'[g] = txs[g]
      /\ requests' = requests /\ mounts' = mounts
      /\ page' = page /\ asked' = asked /\ edits' = edits
      /\ visit' = visit /\ allowance' = allowance /\ known' = known
  BY LearnIs
<1>2. \A g \in DOMAIN txs : TxOk(txs[g], mounts)
  BY DEF SessionOk
<1>3. TxOk(txs'[h], mounts')
  BY <1>1, <1>2 DEF TxOk
<1>4. SessionOk'
  BY <1>1, <1>2, <1>3 DEF SessionOk
<1>5. HistoryKept
  BY <1>1 DEF HistoryKept, TxKept
<1>6. QED
  BY <1>1, <1>4, <1>5

(* On the chain an allowance is granted, or spent as far as it goes. *)
LEMMA MineKeeps ==
  ASSUME SessionOk, TxsAreList, NEW h \in DOMAIN txs, MineTx(h)
  PROVE  SessionOk' /\ TxsAreList' /\ HistoryKept
<1>1. /\ TxsAreList' /\ DOMAIN txs' = DOMAIN txs
      /\ txs[h].status = "pending" /\ txs'[h].status \in {"success", "reverted"}
      /\ DOMAIN txs'[h] = DOMAIN txs[h]
      /\ txs'[h].form = txs[h].form /\ txs'[h].mount = txs[h].mount
      /\ txs'[h].call = txs[h].call /\ txs'[h].toast = txs[h].toast
      /\ txs'[h].told = txs[h].told
      /\ \A g \in DOMAIN txs : g # h => txs'[g] = txs[g]
      /\ requests' = requests /\ mounts' = mounts
      /\ page' = page /\ asked' = asked /\ edits' = edits
      /\ visit' = visit /\ known' = known
  BY MineIs
<1>2. \A g \in DOMAIN txs : TxOk(txs[g], mounts)
  BY DEF SessionOk
<1>3. TxOk(txs'[h], mounts')
  BY <1>1, <1>2 DEF TxOk
<1>4. allowance' \in [Tokens -> Nat]
  <2>1. allowance \in [Tokens -> Nat] /\ CallOk(txs[h].call)
    BY <1>2 DEF SessionOk, TxOk
  <2>2. CASE allowance' = allowance
    BY <2>1, <2>2
  <2>3. CASE allowance' # allowance
    <3> DEFINE c == txs[h].call
    <3>1. \A t \in DOMAIN c.spends : allowance[t] >= c.spends[t]
      BY <2>3 DEF MineTx
    <3>2. allowance' = [t \in Tokens |->
                IF t \in DOMAIN c.grants THEN c.grants[t]
                ELSE IF t \in DOMAIN c.spends THEN allowance[t] - c.spends[t]
                ELSE allowance[t]]
      BY <2>3 DEF MineTx
    <3>3. \A t \in DOMAIN c.spends : allowance[t] - c.spends[t] \in Nat
      BY <2>1, <3>1 DEF CallOk
    <3>4. QED
      BY <2>1, <3>2, <3>3 DEF CallOk
  <2>4. QED
    BY <2>2, <2>3
<1>5. SessionOk'
  BY <1>1, <1>2, <1>3, <1>4 DEF SessionOk
<1>6. HistoryKept
  BY <1>1 DEF HistoryKept, TxKept
<1>7. QED
  BY <1>1, <1>5, <1>6

LEMMA CloseKeeps ==
  ASSUME SessionOk, TxsAreList, NEW S \in SUBSET Forms, CloseStep(S)
  PROVE  SessionOk' /\ TxsAreList' /\ HistoryKept
<1>1. PICK forms \in SUBSET Forms :
        mounts' = [f \in Forms |-> IF f \in forms THEN mounts[f] + 1 ELSE mounts[f]]
  BY DEF CloseStep, Unmount, Navigate, Closed
<1>2. /\ requests' = requests /\ txs' = txs /\ asked' = asked /\ edits' = edits
      /\ allowance' = allowance /\ known' = known
      /\ page' \in Pages /\ visit' \in Nat
  <2>1. CASE \E form \in S : Unmount(form)
    BY <2>1 DEF Unmount, SessionOk
  <2>2. CASE \E p \in Pages : \E left \in SUBSET S : Navigate(p, left)
    BY <2>2 DEF Navigate, SessionOk
  <2>3. QED
    BY <2>1, <2>2 DEF CloseStep
<1>3. MountsGrow
  BY <1>1, ClosedGrows
<1>4. SessionOk'
  BY <1>2, <1>3, RecordsStay DEF SessionOk, MountsGrow
<1>5. QED
  BY <1>2, <1>4 DEF TxsAreList, HistoryKept, TxKept

LEMMA ReadKeeps ==
  ASSUME SessionOk, TxsAreList, ReadStep \/ Editing \/ Mount \/ UNCHANGED session
  PROVE  SessionOk' /\ TxsAreList' /\ HistoryKept
<1>1. /\ requests' = requests /\ txs' = txs /\ asked' = asked /\ mounts' = mounts
      /\ allowance' = allowance /\ page' = page
      /\ visit' \in Nat /\ edits' \in Nat /\ known' \in [Tokens -> SUBSET Nat]
  BY DEF ReadStep, ReadAllowance, Editing, Mount, session, SessionOk
<1>2. SessionOk'
  BY <1>1 DEF SessionOk
<1>3. QED
  BY <1>1, <1>2 DEF TxsAreList, HistoryKept, TxKept

LEMMA SessionKept ==
  ASSUME SessionOk, TxsAreList, NEW S \in SUBSET Forms, StepOf(S)
  PROVE  SessionOk' /\ TxsAreList' /\ HistoryKept
<1>1. CASE AskStep(S)
  BY <1>1, AskKeeps DEF AskStep
<1>2. CASE SendStep(S)
  BY <1>2, SendKeeps DEF SendStep
<1>3. CASE RejectStep(S)
  BY <1>3, RejectKeeps DEF RejectStep
<1>4. CASE ToastStep(S)
  BY <1>4, ToastKeeps DEF ToastStep
<1>5. CASE LearnStep(S)
  BY <1>5, LearnKeeps DEF LearnStep
<1>6. CASE CloseStep(S)
  BY <1>6, CloseKeeps
<1>7. CASE MineStep
  BY <1>7, MineKeeps DEF MineStep
<1>8. CASE ReadStep \/ Editing \/ Mount \/ UNCHANGED session
  BY <1>8, ReadKeeps
<1>9. QED
  BY <1>1, <1>2, <1>3, <1>4, <1>5, <1>6, <1>7, <1>8 DEF StepOf

-----------------------------------------------------------------------------
(* Toasts and allowances. *)
LEMMA ToastsKept ==
  ASSUME SessionOk, TxsAreList, ToastsTellTheOutcome, NEW S \in SUBSET Forms, StepOf(S)
  PROVE  ToastsTellTheOutcome'
<1> DEFINE Tells(tx) ==
             /\ tx.toast = "success" => tx.status = "success"
                                        \/ (Governed(tx.form) /\ tx.status = "reverted")
             /\ tx.toast = "error" => tx.status = "reverted" \/ Governed(tx.form)
<1>1. \A h \in DOMAIN txs : Tells(txs[h])
  BY DEF ToastsTellTheOutcome, Governed
<1>2. ASSUME \A h \in DOMAIN txs' : Tells(txs'[h]) PROVE ToastsTellTheOutcome'
  BY <1>2 DEF ToastsTellTheOutcome, Governed, Governance!GovernanceForms
<1> HIDE DEF Tells
<1>3. CASE txs' = txs
  BY <1>1, <1>2, <1>3
<1>4. CASE SendStep(S)
  <2>1. PICK r \in requests : \E call : Send(r, call)
    BY <1>4 DEF SendStep
  <2>2. PICK call : Send(r, call)
    BY <2>1
  <2>3. /\ DOMAIN txs' = DOMAIN txs \cup {NewHash}
        /\ txs'[NewHash] = [form |-> r.form, mount |-> r.mount, call |-> call,
                            status |-> "pending", toast |-> "pending", told |-> FALSE]
        /\ \A h \in DOMAIN txs : txs'[h] = txs[h]
    BY <2>2, SendIs
  <2>4. Tells(txs'[NewHash])
    BY <2>3 DEF Tells
  <2>5. QED
    BY <1>1, <1>2, <2>3, <2>4
<1>5. CASE ToastStep(S)
  <2>1. PICK h \in DOMAIN txs : \E kind, forms : Truthful(h, kind) /\ ToastClosing(h, kind, forms)
    BY <1>5 DEF ToastStep
  <2>2. PICK kind, forms : Truthful(h, kind) /\ ToastClosing(h, kind, forms)
    BY <2>1
  <2>3. /\ DOMAIN txs' = DOMAIN txs
        /\ txs'[h].toast = kind
        /\ txs'[h].form = txs[h].form /\ txs'[h].status = txs[h].status
        /\ \A g \in DOMAIN txs : g # h => txs'[g] = txs[g]
    BY <2>2, ToastIs
  <2>4. Tells(txs'[h])
    BY <2>2, <2>3 DEF Tells, Truthful, Succeeded, Reverted
  <2>5. QED
    BY <1>1, <1>2, <2>3, <2>4
<1>6. CASE LearnStep(S)
  <2>1. PICK h \in DOMAIN txs : Learn(h)
    BY <1>6 DEF LearnStep
  <2>2. /\ DOMAIN txs' = DOMAIN txs
        /\ txs'[h].toast = txs[h].toast
        /\ txs'[h].form = txs[h].form /\ txs'[h].status = txs[h].status
        /\ \A g \in DOMAIN txs : g # h => txs'[g] = txs[g]
    BY <2>1, LearnIs
  <2>3. Tells(txs'[h])
    BY <1>1, <2>2 DEF Tells
  <2>4. QED
    BY <1>1, <1>2, <2>2, <2>3
<1>7. CASE MineStep
  <2>1. PICK h \in DOMAIN txs : MineTx(h)
    BY <1>7 DEF MineStep
  <2>2. /\ DOMAIN txs' = DOMAIN txs
        /\ txs'[h].toast = txs[h].toast /\ txs[h].status = "pending"
        /\ txs'[h].form = txs[h].form
        /\ \A g \in DOMAIN txs : g # h => txs'[g] = txs[g]
    BY <2>1, MineIs
  <2>3. Tells(txs'[h])
    BY <1>1, <2>2 DEF Tells
  <2>4. QED
    BY <1>1, <1>2, <2>2, <2>3
<1>8. QED
  BY <1>3, <1>4, <1>5, <1>6, <1>7
     DEF StepOf, AskStep, RejectStep, CloseStep, ReadStep, Request, Reject, Unmount, Navigate,
         ReadAllowance, Editing, Mount, session

(* A mined transaction touches the tokens it names, and no other.          *)
LEMMA TouchedStays ==
  ASSUME HistoryKept, NEW t, Touched(t)
  PROVE  Touched(t)'
BY DEF HistoryKept, TxKept, Touched

LEMMA AllowancesStay ==
  ASSUME SessionOk, TxsAreList, AllowancesKnown, NEW S \in SUBSET Forms, StepOf(S)
  PROVE  AllowancesKnown'
<1>1. HistoryKept
  BY SessionKept
<1>2. CASE MineStep
  <2>1. PICK h \in DOMAIN txs : MineTx(h)
    BY <1>2 DEF MineStep
  <2>2. known' = known /\ DOMAIN txs' = DOMAIN txs /\ txs'[h].call = txs[h].call
    BY <2>1, MineIs
  <2>3. SUFFICES ASSUME NEW t \in Tokens, ~Touched(t)'
                 PROVE  allowance'[t] = Granted[t] /\ known'[t] \subseteq {Granted[t]}
    BY DEF AllowancesKnown
  <2>4. ~Touched(t)
    BY <1>1, <2>3, TouchedStays
  <2>5. allowance[t] = Granted[t] /\ known[t] \subseteq {Granted[t]}
    BY <2>4 DEF AllowancesKnown
  <2>6. CASE txs'[h].status = "success"
    <3>1. t \notin DOMAIN txs[h].call.spends \cup DOMAIN txs[h].call.grants
      BY <2>2, <2>3, <2>6 DEF Touched
    <3>2. allowance'[t] = allowance[t]
      BY <2>1, <3>1 DEF MineTx
    <3>3. QED
      BY <2>2, <2>5, <3>2
  <2>7. CASE txs'[h].status # "success"
    <3>1. DOMAIN txs[h] = {"form", "mount", "call", "status", "toast", "told"}
      BY DEF SessionOk, TxOk
    <3>2. txs' # [txs EXCEPT ![h].status = "success"]
      BY <2>7, <3>1
    <3>3. allowance' = allowance
      BY <2>1, <3>2 DEF MineTx
    <3>4. QED
      BY <2>2, <2>5, <3>3
  <2>8. QED
    BY <2>6, <2>7
<1>3. CASE ReadStep
  <2>1. PICK x \in Tokens : ReadAllowance(x)
    BY <1>3 DEF ReadStep
  <2>2. allowance' = allowance /\ txs' = txs /\ known' = [known EXCEPT ![x] = {allowance[x]}]
    BY <2>1 DEF ReadAllowance
  <2>3. \A t \in Tokens : Touched(t)' <=> Touched(t)
    BY <2>2 DEF Touched
  <2>4. QED
    BY <2>2, <2>3 DEF AllowancesKnown, SessionOk
<1>4. CASE ~MineStep /\ ~ReadStep
  <2>1. allowance' = allowance /\ known' = known
    BY <1>4
       DEF StepOf, AskStep, SendStep, RejectStep, ToastStep, LearnStep, CloseStep, Request, Send,
           Reject, ToastClosing, Learn, Unmount, Navigate, Editing, Mount, session
  <2>2. \A t \in Tokens : ~Touched(t)' => ~Touched(t)
    BY <1>1, TouchedStays
  <2>3. QED
    BY <2>1, <2>2 DEF AllowancesKnown
<1>5. QED
  BY <1>2, <1>3, <1>4

(* A hook asks to spend what it knows to be approved.                      *)
LEMMA AsksWithinGranted ==
  ASSUME SessionOk, TxsAreList, AllowancesKnown, AskedWithinGranted,
         NEW S \in SUBSET Forms, StepOf(S)
  PROVE  AskedWithinGranted'
<1>1. HistoryKept
  BY SessionKept
<1>2. \A t : Touched(t) => Touched(t)'
  BY <1>1, TouchedStays
<1> DEFINE Within(r) == \A t \in DOMAIN r.call.spends :
             Touched(t) \/ AfterFailure(r.call) \/ r.call.spends[t] <= Granted[t]
<1>3. \A r \in requests : Within(r)
  BY DEF AskedWithinGranted
<1>4. ASSUME NEW r, Within(r)
      PROVE  \A t \in DOMAIN r.call.spends :
               Touched(t)' \/ AfterFailure(r.call) \/ r.call.spends[t] <= Granted[t]
  BY <1>2, <1>4
<1>5. CASE AskStep(S)
  <2>1. PICK form \in S : \E call : CallOk(call) /\ Affordable(call) /\ Request(form, call)
    BY <1>5 DEF AskStep
  <2>2. PICK call : CallOk(call) /\ Affordable(call) /\ Request(form, call)
    BY <2>1
  <2> DEFINE r == [id |-> asked + 1, form |-> form, mount |-> mounts[form], call |-> call]
  <2>3. requests' = requests \cup {r}
    BY <2>2 DEF Request
  <2>4. Within(r)
    <3>1. SUFFICES ASSUME NEW t \in DOMAIN call.spends, ~Touched(t), ~AfterFailure(call)
                   PROVE  call.spends[t] <= Granted[t]
      OBVIOUS
    <3>2. t \in Tokens /\ call.spends[t] \in Nat /\ Granted[t] \in Nat
      BY <2>2, SessionAssumption DEF CallOk
    <3>3. PICK n \in known[t] : n >= call.spends[t]
      BY <2>2, <3>1 DEF Affordable, KnownToCover
    <3>4. n = Granted[t]
      BY <3>1, <3>2, <3>3 DEF AllowancesKnown
    <3>5. QED
      BY <3>2, <3>3, <3>4
  <2> HIDE DEF r, Within
  <2>5. \A q \in requests' : Within(q)
    BY <1>3, <2>3, <2>4
  <2>6. QED
    BY <1>4, <2>5 DEF AskedWithinGranted
<1>6. CASE ~AskStep(S)
  <2>1. requests' \subseteq requests
    <3>1. CASE SendStep(S) \/ RejectStep(S)
      BY <3>1 DEF SendStep, RejectStep, Send, Reject
    <3>2. CASE ToastStep(S) \/ LearnStep(S) \/ CloseStep(S)
      BY <3>2 DEF ToastStep, LearnStep, CloseStep, ToastClosing, Learn, Unmount, Navigate
    <3>3. CASE MineStep \/ ReadStep \/ Editing \/ Mount \/ UNCHANGED session
      BY <3>3 DEF MineStep, ReadStep, MineTx, ReadAllowance, Editing, Mount, session
    <3>4. QED
      BY <1>6, <3>1, <3>2, <3>3 DEF StepOf
  <2> HIDE DEF Within
  <2>2. QED
    BY <1>3, <1>4, <2>1 DEF AskedWithinGranted
<1>7. QED
  BY <1>5, <1>6

-----------------------------------------------------------------------------
(* The forms a step leaves alone. *)
LEMMA OthersAreSame ==
  ASSUME SessionOk, TxsAreList, NEW S \in SUBSET Forms, StepOf(S), NEW G \in Forms \ S
  PROVE  Same(G)
<1>1. G \in Forms /\ mounts \in [Forms -> Nat]
  BY DEF SessionOk
<1>2. CASE AskStep(S) \/ RejectStep(S)
  BY <1>1, <1>2 DEF AskStep, RejectStep, Request, Reject, Same, Open
<1>3. CASE SendStep(S)
  <2>1. PICK r \in requests : r.form \in S /\ \E call : Send(r, call)
    BY <1>3 DEF SendStep
  <2>2. PICK call : Send(r, call)
    BY <2>1
  <2>3. /\ DOMAIN txs' = DOMAIN txs \cup {NewHash}
        /\ txs'[NewHash] = [form |-> r.form, mount |-> r.mount, call |-> call,
                            status |-> "pending", toast |-> "pending", told |-> FALSE]
        /\ \A h \in DOMAIN txs : txs'[h] = txs[h]
        /\ requests' = requests \ {r} /\ mounts' = mounts
    BY <2>2, SendIs
  <2>4. txs'[NewHash].form \in S
    BY <2>1, <2>3
  <2>5. Open(G)' = Open(G)
    BY <2>1, <2>3 DEF Open
  <2>6. QED
    BY <2>3, <2>4, <2>5 DEF Same
<1>4. CASE ToastStep(S)
  <2>1. PICK h \in DOMAIN txs : txs[h].form \in S /\ \E kind : \E forms \in SUBSET S :
               ToastClosing(h, kind, forms)
    BY <1>4 DEF ToastStep
  <2>2. PICK kind : \E forms \in SUBSET S : ToastClosing(h, kind, forms)
    BY <2>1
  <2>3. PICK forms \in SUBSET S : ToastClosing(h, kind, forms)
    BY <2>2
  <2>4. /\ DOMAIN txs' = DOMAIN txs
        /\ \A g \in DOMAIN txs : g # h => txs'[g] = txs[g]
        /\ requests' = requests
        /\ mounts' = [f \in Forms |-> IF f \in forms THEN mounts[f] + 1 ELSE mounts[f]]
    BY <2>3, ToastIs
  <2>5. QED
    BY <1>1, <2>1, <2>4 DEF Same, Open
<1>5. CASE LearnStep(S)
  <2>1. PICK h \in DOMAIN txs : txs[h].form \in S /\ Learn(h)
    BY <1>5 DEF LearnStep
  <2>2. /\ DOMAIN txs' = DOMAIN txs
        /\ \A g \in DOMAIN txs : g # h => txs'[g] = txs[g]
        /\ requests' = requests /\ mounts' = mounts
    BY <2>1, LearnIs
  <2>3. QED
    BY <2>1, <2>2 DEF Same, Open
<1>6. CASE CloseStep(S)
  <2>1. PICK forms \in SUBSET S :
          mounts' = [f \in Forms |-> IF f \in forms THEN mounts[f] + 1 ELSE mounts[f]]
    BY <1>6 DEF CloseStep, Unmount, Navigate, Closed
  <2>2. requests' = requests /\ txs' = txs
    BY <1>6 DEF CloseStep, Unmount, Navigate
  <2>3. QED
    BY <1>1, <2>1, <2>2 DEF Same, Open
<1>7. CASE MineStep
  <2>1. PICK h \in DOMAIN txs : MineTx(h)
    BY <1>7 DEF MineStep
  <2>2. /\ DOMAIN txs' = DOMAIN txs
        /\ txs'[h].toast = txs[h].toast /\ txs'[h].told = txs[h].told
        /\ \A g \in DOMAIN txs : g # h => txs'[g] = txs[g]
        /\ requests' = requests /\ mounts' = mounts
    BY <2>1, MineIs
  <2>3. QED
    BY <2>2 DEF Same, Open
<1>8. CASE ReadStep \/ Editing \/ Mount \/ UNCHANGED session
  BY <1>8 DEF ReadStep, ReadAllowance, Editing, Mount, session, Same, Open
<1>9. QED
  BY <1>2, <1>3, <1>4, <1>5, <1>6, <1>7, <1>8 DEF StepOf

LEMMA SameViews ==
  ASSUME SessionOk, HistoryKept, NEW G, Same(G)
  PROVE  /\ Asking(G)' = Asking(G) /\ Announced(G)' = Announced(G)
         /\ AtRest(G)' <=> AtRest(G)
<1>1. Asking(G)' = Asking(G)
  BY DEF Asking, Same, Open
<1>2. Announced(G)' = Announced(G)
  BY DEF Announced, Same, HistoryKept, TxKept
<1>3. QED
  BY <1>1, <1>2 DEF AtRest

LEMMA SameHashes ==
  ASSUME HistoryKept, NEW h, NEW forms, IsOf(h, forms)
  PROVE  IsOf(h, forms)'
BY DEF HistoryKept, TxKept, IsOf, NoHash

-----------------------------------------------------------------------------
(* What a step of a form does to what it asks for and announces.           *)
LEMMA HashesAreCounted ==
  ASSUME TxsAreList
  PROVE  NoHash \notin DOMAIN txs
BY DEF TxsAreList, NoHash

LEMMA AskView ==
  ASSUME SessionOk, NEW form \in Forms, NEW call, Request(form, call)
  PROVE  /\ \E r : /\ r.form = form /\ r.mount = mounts[form] /\ r.call = call
                   /\ requests' = requests \cup {r}
                   /\ Open(form)' = Open(form) \cup {r}
                   /\ Asking(form)' = Asking(form) \cup {r}
         /\ Announced(form)' = Announced(form)
         /\ txs' = txs /\ mounts' = mounts /\ page' = page
<1> DEFINE r == [id |-> asked + 1, form |-> form, mount |-> mounts[form], call |-> call]
<1>1. r.form = form /\ r.mount = mounts[form] /\ r.call = call
  OBVIOUS
<1>2. requests' = requests \cup {r} /\ txs' = txs /\ mounts' = mounts /\ page' = page
  BY DEF Request
<1> HIDE DEF r
<1>3. Open(form)' = Open(form) \cup {r} /\ Asking(form)' = Asking(form) \cup {r}
  BY <1>1, <1>2 DEF Open, Asking
<1>4. Announced(form)' = Announced(form)
  BY <1>2 DEF Announced
<1>5. QED
  BY <1>1, <1>2, <1>3, <1>4

LEMMA SendView ==
  ASSUME SessionOk, TxsAreList, NEW r \in requests, NEW call, Send(r, call)
  PROVE  /\ Open(r.form)' = Open(r.form) \ {r} /\ Asking(r.form)' = Asking(r.form) \ {r}
         /\ Announced(r.form)' = Announced(r.form) \cup {h \in {NewHash} : Current(r)}
         /\ NewHash \in Nat \ {0} /\ NewHash \notin DOMAIN txs
         /\ DOMAIN txs' = DOMAIN txs \cup {NewHash}
         /\ txs'[NewHash].form = r.form /\ txs'[NewHash].mount = r.mount
         /\ txs'[NewHash].call = call /\ txs'[NewHash].status = "pending"
         /\ txs'[NewHash].toast = "pending" /\ ~txs'[NewHash].told
         /\ \A h \in DOMAIN txs : txs'[h] = txs[h]
         /\ mounts' = mounts /\ page' = page /\ known' = known
<1>1. /\ NewHash \in Nat \ {0} /\ NewHash \notin DOMAIN txs
      /\ DOMAIN txs' = DOMAIN txs \cup {NewHash}
      /\ txs'[NewHash] = [form |-> r.form, mount |-> r.mount, call |-> call,
                          status |-> "pending", toast |-> "pending", told |-> FALSE]
      /\ \A h \in DOMAIN txs : txs'[h] = txs[h]
      /\ requests' = requests \ {r} /\ mounts' = mounts /\ page' = page /\ known' = known
  BY SendIs
<1>2. Open(r.form)' = Open(r.form) \ {r} /\ Asking(r.form)' = Asking(r.form) \ {r}
  BY <1>1 DEF Open, Asking
<1>3. /\ txs'[NewHash].form = r.form /\ txs'[NewHash].mount = r.mount
      /\ txs'[NewHash].call = call /\ txs'[NewHash].status = "pending"
      /\ txs'[NewHash].toast = "pending" /\ ~txs'[NewHash].told
  BY <1>1
<1>4. Announced(r.form)' = Announced(r.form) \cup {h \in {NewHash} : Current(r)}
  BY <1>1, <1>3 DEF Announced, Current
<1>5. QED
  BY <1>1, <1>2, <1>3, <1>4

LEMMA RejectView ==
  ASSUME NEW r \in requests, Reject(r)
  PROVE  /\ Open(r.form)' = Open(r.form) \ {r} /\ Asking(r.form)' = Asking(r.form) \ {r}
         /\ Announced(r.form)' = Announced(r.form)
         /\ txs' = txs /\ mounts' = mounts /\ page' = page /\ known' = known
BY DEF Reject, Open, Asking, Announced

LEMMA ToastView ==
  ASSUME SessionOk, TxsAreList, NEW h \in DOMAIN txs, NEW kind \in {"success", "error"},
         NEW form, ToastClosing(h, kind, {})
  PROVE  /\ Open(form)' = Open(form) /\ Asking(form)' = Asking(form)
         /\ Announced(form)' = Announced(form) \ {h}
         /\ DOMAIN txs' = DOMAIN txs /\ txs'[h].told /\ txs'[h].toast = kind
         /\ txs'[h].form = txs[h].form /\ txs'[h].mount = txs[h].mount
         /\ txs'[h].call = txs[h].call /\ txs'[h].status = txs[h].status
         /\ \A g \in DOMAIN txs : g # h => txs'[g] = txs[g]
         /\ mounts' = mounts /\ page' = page
<1>1. /\ DOMAIN txs' = DOMAIN txs
      /\ txs'[h].toast = kind /\ txs'[h].told
      /\ txs'[h].form = txs[h].form /\ txs'[h].mount = txs[h].mount
      /\ txs'[h].call = txs[h].call /\ txs'[h].status = txs[h].status
      /\ \A g \in DOMAIN txs : g # h => txs'[g] = txs[g]
      /\ requests' = requests /\ page' = page
  BY ToastIs
<1>2. mounts' = mounts
  BY DEF ToastClosing, Closed, SessionOk
<1>3. Open(form)' = Open(form) /\ Asking(form)' = Asking(form)
  BY <1>1, <1>2 DEF Open, Asking
<1>4. Announced(form)' = Announced(form) \ {h}
  BY <1>1, <1>2 DEF Announced
<1>5. QED
  BY <1>1, <1>2, <1>3, <1>4

LEMMA LearnView ==
  ASSUME SessionOk, TxsAreList, NEW h \in DOMAIN txs, NEW form, Learn(h)
  PROVE  /\ Open(form)' = Open(form) /\ Asking(form)' = Asking(form)
         /\ Announced(form)' = Announced(form)
         /\ mounts' = mounts /\ page' = page
<1>1. /\ DOMAIN txs' = DOMAIN txs
      /\ txs'[h].form = txs[h].form /\ txs'[h].mount = txs[h].mount
      /\ txs'[h].toast = txs[h].toast
      /\ \A g \in DOMAIN txs : g # h => txs'[g] = txs[g]
      /\ requests' = requests /\ mounts' = mounts /\ page' = page
  BY LearnIs
<1>2. QED
  BY <1>1 DEF Open, Asking, Announced

(* A form that was closed has nothing under way any more. *)
LEMMA ClosedView ==
  ASSUME SessionOk, NEW form \in Forms, mounts'[form] = mounts[form] + 1,
         requests' = requests, DOMAIN txs' = DOMAIN txs,
         \A h \in DOMAIN txs : txs'[h].form = txs[h].form /\ txs'[h].mount = txs[h].mount
  PROVE  AtRest(form)'
<1>1. mounts[form] \in Nat
  BY DEF SessionOk
<1>2. \A r \in requests : r.form = form => r.mount # mounts'[form]
  BY <1>1 DEF SessionOk, RequestOk
<1>3. \A h \in DOMAIN txs : txs[h].form = form => txs[h].mount # mounts'[form]
  BY <1>1 DEF SessionOk, TxOk
<1>4. QED
  BY <1>2, <1>3 DEF AtRest, Asking, Announced

-----------------------------------------------------------------------------
(* The calls the forms make. *)
LEMMA NothingMoves ==
  ASSUME NEW call, call.grants = Nothing, call.spends = Nothing
  PROVE  CallOk(call) /\ Affordable(call)
BY DEF Nothing, CallOk, Affordable

LEMMA ApprovalOk ==
  ASSUME NEW t \in Tokens, NEW n \in Nat, NEW call,
         call.grants = Of(t, n), call.spends = Nothing
  PROVE  CallOk(call) /\ Affordable(call)
BY DEF Nothing, Of, CallOk, Affordable

LEMMA SpendingOk ==
  ASSUME NEW t \in Tokens, NEW n \in Nat, NEW call,
         call.grants = Nothing, call.spends = Of(t, n),
         AfterFailure(call) \/ KnownToCover(t, n)
  PROVE  CallOk(call) /\ Affordable(call)
BY DEF Nothing, Of, CallOk, Affordable

-----------------------------------------------------------------------------
(* The swap page. *)
LEMMA SwapTerms ==
  /\ Swap!NoHash = NoHash /\ Swap!NewHash = NewHash /\ Swap!Nothing = Nothing
  /\ \A t, n : Swap!Of(t, n) = Of(t, n) /\ (Swap!KnownToCover(t, n) <=> KnownToCover(t, n))
  /\ \A h : /\ Swap!Succeeded(h) <=> Succeeded(h)
            /\ Swap!Reverted(h) <=> Reverted(h)
            /\ Swap!Waiting(h) <=> Waiting(h)
            /\ Swap!Confirmed(h) <=> Confirmed(h)
  /\ \A f : Swap!Open(f) = Open(f)
  /\ \A r : Swap!Current(r) <=> Current(r)
BY DEF Swap!NoHash, NoHash, Swap!NewHash, NewHash, Swap!Nothing, Nothing, Swap!Of, Of,
       Swap!KnownToCover, KnownToCover, Swap!Succeeded, Succeeded, Swap!Reverted, Reverted,
       Swap!Waiting, Waiting, Swap!Confirmed, Confirmed, Swap!Open, Open, Swap!Current, Current

LEMMA SwapEffects ==
  /\ \A f, c : Swap!Ask(f, c) => Request(f, c)
  /\ \A r, c : Swap!Send(r, c) => Send(r, c)
  /\ \A r : Swap!Reject(r) => Reject(r)
  /\ \A h, k : Swap!Toast(h, k) => ToastClosing(h, k, {})
  /\ \A h : Swap!Learn(h) => Learn(h)
  /\ \A t : Swap!ReadAllowance(t) => ReadAllowance(t)
  /\ Swap!Editing => Editing
  /\ Swap!session' = Swap!session => session' = session
<1>1. ASSUME NEW f, NEW c, Swap!Ask(f, c) PROVE Request(f, c)
  BY <1>1 DEF Swap!Ask, Request
<1>2. ASSUME NEW r, NEW c, Swap!Send(r, c) PROVE Send(r, c)
  BY <1>2 DEF Swap!Send, Send
<1>3. ASSUME NEW r, Swap!Reject(r) PROVE Reject(r)
  BY <1>3 DEF Swap!Reject, Reject
<1>4. ASSUME NEW h, NEW k, Swap!Toast(h, k) PROVE ToastClosing(h, k, {})
  BY <1>4 DEF Swap!Toast, Swap!ToastClosing, ToastClosing, Swap!Closed, Closed
<1>5. ASSUME NEW h, Swap!Learn(h) PROVE Learn(h)
  BY <1>5 DEF Swap!Learn, Learn
<1>6. ASSUME NEW t, Swap!ReadAllowance(t) PROVE ReadAllowance(t)
  BY <1>6 DEF Swap!ReadAllowance, ReadAllowance
<1>7. Swap!Editing => Editing
  BY DEF Swap!Editing, Editing
<1>8. Swap!session' = Swap!session => session' = session
  BY DEF Swap!session, session
<1>9. QED
  BY <1>1, <1>2, <1>3, <1>4, <1>5, <1>6, <1>7, <1>8

LEMMA SwapApproveSteps ==
  ASSUME IInv,
         \/ Swap!HandleApprove \/ Swap!ApproveMined \/ Swap!ApproveReverted
         \/ \E f \in refetches : Swap!RefetchDone(f)
         \/ \E r \in Open("swap") : Swap!ApproveSigned(r) \/ Swap!ApproveRejected(r)
  PROVE  StepOf({"swap"}) /\ page' = page
<1> USE DEF IInv
<1>1. CASE Swap!HandleApprove
  <2> DEFINE call == [op |-> "approve", grants |-> Of(swapStore.tokenIn, swapStore.amountIn),
                      spends |-> Nothing]
  <2>1. Request("swap", call)
    BY <1>1, SwapTerms, SwapEffects DEF Swap!HandleApprove, Swap!s
  <2>2. swapStore.tokenIn \in Tokens /\ swapStore.amountIn \in Nat
    BY <1>1, SessionAssumption
       DEF Swap!HandleApprove, Swap!ApproveOffered, Swap!NeedsApproval, Swap!s, FlowsTyped, SwapTyped
  <2>3. CallOk(call) /\ Affordable(call)
    BY <2>2, ApprovalOk
  <2> HIDE DEF call
  <2>4. QED
    BY <2>1, <2>3 DEF StepOf, AskStep, Request
<1>2. CASE Swap!ApproveMined
  <2> DEFINE h == swapPanel.approveHash
  <2>1. Succeeded(h) /\ ToastClosing(h, "success", {})
    BY <1>2, SwapTerms, SwapEffects DEF Swap!ApproveMined
  <2>2. h \in DOMAIN txs /\ txs[h].form = "swap"
    BY <2>1 DEF Succeeded, FlowsTyped, SwapTyped, IsOf
  <2> HIDE DEF h
  <2>3. ToastStep({"swap"})
    BY <2>1, <2>2 DEF ToastStep, Truthful
  <2>4. QED
    BY <2>1, <2>3 DEF StepOf, ToastClosing
<1>3. CASE Swap!ApproveReverted
  <2> DEFINE h == swapPanel.approveHash
  <2>1. Reverted(h) /\ ToastClosing(h, "error", {})
    BY <1>3, SwapTerms, SwapEffects DEF Swap!ApproveReverted
  <2>2. h \in DOMAIN txs /\ txs[h].form = "swap"
    BY <2>1 DEF Reverted, FlowsTyped, SwapTyped, IsOf
  <2> HIDE DEF h
  <2>3. ToastStep({"swap"})
    BY <2>1, <2>2 DEF ToastStep, Truthful
  <2>4. QED
    BY <2>1, <2>3 DEF StepOf, ToastClosing
<1>4. ASSUME NEW f \in refetches, Swap!RefetchDone(f) PROVE StepOf({"swap"}) /\ page' = page
  <2>1. (f.token \in Tokens /\ ReadAllowance(f.token)) \/ UNCHANGED session
    BY <1>4, SwapEffects DEF Swap!RefetchDone
  <2>2. QED
    BY <2>1 DEF StepOf, ReadStep, ReadAllowance, session
<1>5. ASSUME NEW r \in Open("swap"), Swap!ApproveSigned(r) PROVE StepOf({"swap"}) /\ page' = page
  <2>1. Send(r, r.call)
    BY <1>5, SwapEffects DEF Swap!ApproveSigned
  <2>2. r \in requests /\ r.form = "swap" /\ CallOk(r.call)
    BY DEF Open, SessionOk, RequestOk
  <2>3. QED
    BY <2>1, <2>2 DEF StepOf, SendStep, Send
<1>6. ASSUME NEW r \in Open("swap"), Swap!ApproveRejected(r) PROVE StepOf({"swap"}) /\ page' = page
  <2>1. Reject(r)
    BY <1>6, SwapEffects DEF Swap!ApproveRejected
  <2>2. r \in requests /\ r.form = "swap"
    BY DEF Open
  <2>3. QED
    BY <2>1, <2>2 DEF StepOf, RejectStep, Reject
<1>7. QED
  BY <1>1, <1>2, <1>3, <1>4, <1>5, <1>6

LEMMA SwapSwapSteps ==
  ASSUME IInv,
         \/ Swap!HandleSwap \/ Swap!SwapMined \/ Swap!CloseConfirmed
         \/ \E r \in Open("swap") : Swap!SwapSigned(r) \/ Swap!SwapRejected(r)
  PROVE  StepOf({"swap"}) /\ page' = page
<1> USE DEF IInv
<1>1. CASE Swap!HandleSwap
  <2>1. PICK call : /\ Request("swap", call) /\ call.grants = Nothing /\ call.op = "swap"
                    /\ call.spends = IF swapStore.tokenIn = Weth THEN Nothing
                                     ELSE Of(swapStore.tokenIn, swapStore.amountIn)
    BY <1>1, SwapTerms, SwapEffects DEF Swap!HandleSwap, Swap!s
  <2>2. CallOk(call) /\ Affordable(call)
    <3>1. CASE swapStore.tokenIn = Weth
      BY <2>1, <3>1, NothingMoves
    <3>2. CASE swapStore.tokenIn # Weth
      <4>1. swapStore.tokenIn \in Tokens /\ swapStore.amountIn \in Nat
        BY <1>1, <3>2, SessionAssumption, FrontendAssumption
           DEF Swap!HandleSwap, Swap!SwapOffered, Swap!Ready, Swap!s, FlowsTyped, SwapTyped,
               SwapTokens, Swap!Offered
      <4>2. KnownToCover(swapStore.tokenIn, swapStore.amountIn)
        BY <1>1, <4>1, SwapTerms
           DEF Swap!HandleSwap, Swap!SwapOffered, Swap!NeedsApproval, Swap!s
      <4>3. call.spends = Of(swapStore.tokenIn, swapStore.amountIn)
        BY <2>1, <3>2
      <4>4. QED
        BY <2>1, <4>1, <4>2, <4>3, SpendingOk
    <3>3. QED
      BY <3>1, <3>2
  <2>3. QED
    BY <2>1, <2>2 DEF StepOf, AskStep, Request
<1>2. CASE Swap!SwapMined
  <2> DEFINE h == swapStore.hash
  <2>1. h \in DOMAIN txs /\ txs[h].form = "swap"
    BY <1>2, SwapTerms DEF Swap!SwapMined, Swap!s, FlowsTyped, SwapTyped, IsOf
  <2>2. \/ Succeeded(h) /\ ToastClosing(h, "success", {})
        \/ Reverted(h) /\ ToastClosing(h, "error", {})
        \/ Learn(h)
    BY <1>2, SwapTerms, SwapEffects DEF Swap!SwapMined, Swap!s
  <2> HIDE DEF h
  <2>3. ToastStep({"swap"}) \/ LearnStep({"swap"})
    BY <2>1, <2>2 DEF ToastStep, LearnStep, Truthful
  <2>4. QED
    BY <2>2, <2>3 DEF StepOf, ToastClosing, Learn
<1>3. CASE Swap!CloseConfirmed
  BY <1>3, SwapEffects DEF Swap!CloseConfirmed, StepOf, session
<1>4. ASSUME NEW r \in Open("swap"), Swap!SwapSigned(r) PROVE StepOf({"swap"}) /\ page' = page
  <2>1. PICK call : Send(r, call) /\ call.grants = Nothing /\ call.spends = r.call.spends
    BY <1>4, SwapTerms, SwapEffects DEF Swap!SwapSigned
  <2>2. r \in requests /\ r.form = "swap" /\ CallOk(r.call)
    BY DEF Open, SessionOk, RequestOk
  <2>3. CallOk(call)
    BY <2>1, <2>2 DEF CallOk, Nothing
  <2>4. QED
    BY <2>1, <2>2, <2>3 DEF StepOf, SendStep, Send
<1>5. ASSUME NEW r \in Open("swap"), Swap!SwapRejected(r) PROVE StepOf({"swap"}) /\ page' = page
  <2>1. Reject(r)
    BY <1>5, SwapEffects DEF Swap!SwapRejected
  <2>2. r \in requests /\ r.form = "swap"
    BY DEF Open
  <2>3. QED
    BY <2>1, <2>2 DEF StepOf, RejectStep, Reject
<1>6. QED
  BY <1>1, <1>2, <1>3, <1>4, <1>5

(* What the form itself changes: neither step nor hashes, unless the step  *)
(* is idle.                                                                *)
SwapForm ==
  /\ UNCHANGED <<market, refetches, overtaken>>
  /\ swapStore'.hash = swapStore.hash /\ swapPanel'.approveHash = swapPanel.approveHash
  /\ \/ swapStore'.step = swapStore.step
     \/ swapStore.step = "idle" /\ swapStore'.step \in {"needsApprove", "quoted"}

LEMMA SwapFormSteps ==
  ASSUME IInv,
         \/ Swap!SetAmountIn \/ Swap!SetTokenIn \/ Swap!SetTokenOut \/ Swap!Flip
         \/ Swap!SetSlippage \/ Swap!SelectRoute \/ Swap!FollowForm
  PROVE  StepOf({"swap"}) /\ page' = page /\ UNCHANGED <<requests, txs, mounts>> /\ SwapForm
<1>1. swapStore \in [tokenIn : SwapTokens, tokenOut : SwapTokens, amountIn : Amounts,
                     slippage : Slippages, step : SwapSteps, hash : Nat]
      /\ swapPanel \in [selected : 1 .. 2, approveHash : Nat,
                        ran : {<<>>} \cup (Nat \X SwapTokens)]
  BY DEF IInv, FlowsTyped, SwapTyped
<1>2. ASSUME NEW store, Swap!Edit(store), store.hash = swapStore.hash, store.step = swapStore.step
      PROVE  Editing /\ SwapForm
  BY <1>1, <1>2, SwapEffects DEF Swap!Edit, SwapForm
<1>3. CASE Swap!SetAmountIn \/ Swap!SetTokenIn \/ Swap!SetTokenOut \/ Swap!Flip
  <2>1. CASE Swap!SetAmountIn
    <3>1. PICK n \in Amounts : Swap!Edit([swapStore EXCEPT !.amountIn = n])
      BY <2>1 DEF Swap!SetAmountIn, Swap!s
    <3>2. QED
      BY <1>1, <1>2, <3>1 DEF StepOf, Editing
  <2>2. CASE Swap!SetTokenIn
    <3>1. PICK t \in Swap!Offered :
            Swap!Edit(IF t = swapStore.tokenOut
                      THEN [swapStore EXCEPT !.tokenIn = t, !.tokenOut = swapStore.tokenIn]
                      ELSE [swapStore EXCEPT !.tokenIn = t])
      BY <2>2 DEF Swap!SetTokenIn, Swap!s
    <3>2. Editing /\ SwapForm
      <4>1. CASE t = swapStore.tokenOut
        BY <1>1, <1>2, <3>1, <4>1
      <4>2. CASE t # swapStore.tokenOut
        BY <1>1, <1>2, <3>1, <4>2
      <4>3. QED
        BY <4>1, <4>2
    <3>3. QED
      BY <3>2 DEF StepOf, Editing
  <2>3. CASE Swap!SetTokenOut
    <3>1. PICK t \in Swap!Offered :
            Swap!Edit(IF t = swapStore.tokenIn
                      THEN [swapStore EXCEPT !.tokenOut = t, !.tokenIn = swapStore.tokenOut]
                      ELSE [swapStore EXCEPT !.tokenOut = t])
      BY <2>3 DEF Swap!SetTokenOut, Swap!s
    <3>2. Editing /\ SwapForm
      <4>1. CASE t = swapStore.tokenIn
        BY <1>1, <1>2, <3>1, <4>1
      <4>2. CASE t # swapStore.tokenIn
        BY <1>1, <1>2, <3>1, <4>2
      <4>3. QED
        BY <4>1, <4>2
    <3>3. QED
      BY <3>2 DEF StepOf, Editing
  <2>4. CASE Swap!Flip
    <3>1. Swap!Edit([swapStore EXCEPT !.tokenIn = swapStore.tokenOut,
                                      !.tokenOut = swapStore.tokenIn])
      BY <2>4 DEF Swap!Flip, Swap!s
    <3>2. QED
      BY <1>1, <1>2, <3>1 DEF StepOf, Editing
  <2>5. QED
    BY <1>3, <2>1, <2>2, <2>3, <2>4
<1>4. CASE Swap!SetSlippage \/ Swap!SelectRoute
  BY <1>1, <1>4, SwapEffects
     DEF Swap!SetSlippage, Swap!SelectRoute, Swap!s, StepOf, Editing, SwapForm
<1>5. CASE Swap!FollowForm
  BY <1>1, <1>5, SwapEffects
     DEF Swap!FollowForm, Swap!SetStep, Swap!s, Swap!Idle, StepOf, session, SwapForm
<1>6. QED
  BY <1>3, <1>4, <1>5

LEMMA SwapStepsOf ==
  ASSUME IInv, Swap!NextSwap
  PROVE  StepOf({"swap"}) /\ page' = page
<1>1. \A r : r \in Swap!Open("swap") => r \in Open("swap")
  BY SwapTerms
<1>2. QED
  BY <1>1, SwapApproveSteps, SwapSwapSteps, SwapFormSteps DEF Swap!NextSwap

StoreTypes == [tokenIn : SwapTokens, tokenOut : SwapTokens, amountIn : Amounts,
               slippage : Slippages, step : SwapSteps, hash : Nat]
PanelTypes == [selected : 1 .. 2, approveHash : Nat, ran : {<<>>} \cup (Nat \X SwapTokens)]

LEMMA SwapTypesKept ==
  ASSUME IInv, Swap!NextSwap
  PROVE  SwapTyped'
<1>1. StepOf({"swap"}) /\ HistoryKept /\ SessionOk'
  <2>1. StepOf({"swap"})
    BY SwapStepsOf
  <2>2. {"swap"} \in SUBSET Forms
    BY FrontendAssumption
  <2>3. QED
    BY <2>1, <2>2, SessionKept DEF IInv
<1>2. /\ market \in Markets /\ swapStore \in StoreTypes /\ swapPanel \in PanelTypes
      /\ refetches \subseteq [mount : Nat, token : SwapTokens] /\ overtaken \in BOOLEAN
      /\ IsOf(swapPanel.approveHash, {"swap"}) /\ IsOf(swapStore.hash, {"swap"})
  BY DEF IInv, FlowsTyped, SwapTyped, StoreTypes, PanelTypes
<1>3. mounts["swap"] \in Nat
  BY FrontendAssumption DEF IInv, SessionOk
<1> DEFINE Held(h) == h = NoHash \/ (h \in DOMAIN txs' /\ txs'[h].form = "swap")
<1>4. Held(NoHash) /\ Held(swapPanel.approveHash) /\ Held(swapStore.hash)
  BY <1>1, <1>2 DEF IsOf, HistoryKept, TxKept
<1>5. ASSUME NEW r \in Open("swap"), NEW call, Send(r, call)
      PROVE  NewHash \in Nat /\ Held(NewHash)
  <2>1. /\ NewHash \in Nat \ {0} /\ DOMAIN txs' = DOMAIN txs \cup {NewHash}
        /\ txs'[NewHash] = [form |-> r.form, mount |-> r.mount, call |-> call,
                            status |-> "pending", toast |-> "pending", told |-> FALSE]
    BY <1>5, SendIs DEF IInv
  <2>2. QED
    BY <2>1 DEF Open
<1>6. SUFFICES /\ market' \in Markets /\ swapStore' \in StoreTypes /\ swapPanel' \in PanelTypes
               /\ refetches' \subseteq [mount : Nat, token : SwapTokens] /\ overtaken' \in BOOLEAN
               /\ Held(swapPanel'.approveHash) /\ Held(swapStore'.hash)
  BY DEF SwapTyped, IsOf, StoreTypes, PanelTypes, NoHash
<1> HIDE DEF Held
<1> USE DEF Swap!s, Swap!SetStep, Swap!Idle
<1>7. ASSUME NEW step \in SwapSteps PROVE [swapStore EXCEPT !.step = step] \in StoreTypes
                                          /\ [swapStore EXCEPT !.step = step].hash = swapStore.hash
  BY <1>2 DEF StoreTypes
<1>8. {"idle", "needsApprove", "quoted", "approving", "signing", "pending", "confirmed",
       "failed"} \subseteq SwapSteps
  BY DEF SwapSteps
<1>9. ASSUME NEW store, Swap!Edit(store), store \in StoreTypes, store.hash = swapStore.hash
      PROVE  /\ market' \in Markets /\ swapStore' \in StoreTypes /\ swapPanel' \in PanelTypes
             /\ refetches' = refetches /\ overtaken' = overtaken
             /\ Held(swapPanel'.approveHash) /\ Held(swapStore'.hash)
  BY <1>2, <1>4, <1>9 DEF Swap!Edit, PanelTypes
<1>10. CASE Swap!SetAmountIn \/ Swap!SetTokenIn \/ Swap!SetTokenOut \/ Swap!Flip
  <2>1. CASE Swap!SetAmountIn
    <3>1. PICK n \in Amounts : Swap!Edit([swapStore EXCEPT !.amountIn = n])
      BY <2>1 DEF Swap!SetAmountIn
    <3>2. [swapStore EXCEPT !.amountIn = n] \in StoreTypes
      BY <1>2 DEF StoreTypes
    <3>3. QED
      BY <1>2, <1>9, <3>1, <3>2 DEF StoreTypes
  <2>2. ASSUME NEW t \in Swap!Offered
        PROVE  /\ [swapStore EXCEPT !.tokenIn = t] \in StoreTypes
               /\ [swapStore EXCEPT !.tokenOut = t] \in StoreTypes
               /\ [swapStore EXCEPT !.tokenIn = t, !.tokenOut = swapStore.tokenIn] \in StoreTypes
               /\ [swapStore EXCEPT !.tokenOut = t, !.tokenIn = swapStore.tokenOut] \in StoreTypes
    BY <1>2 DEF StoreTypes, SwapTokens
  <2>3. CASE Swap!SetTokenIn
    <3>1. PICK t \in Swap!Offered :
            Swap!Edit(IF t = swapStore.tokenOut
                      THEN [swapStore EXCEPT !.tokenIn = t, !.tokenOut = swapStore.tokenIn]
                      ELSE [swapStore EXCEPT !.tokenIn = t])
      BY <2>3 DEF Swap!SetTokenIn
    <3>2. CASE t = swapStore.tokenOut
      BY <1>2, <1>9, <2>2, <3>1, <3>2 DEF StoreTypes
    <3>3. CASE t # swapStore.tokenOut
      BY <1>2, <1>9, <2>2, <3>1, <3>3 DEF StoreTypes
    <3>4. QED
      BY <3>2, <3>3
  <2>4. CASE Swap!SetTokenOut
    <3>1. PICK t \in Swap!Offered :
            Swap!Edit(IF t = swapStore.tokenIn
                      THEN [swapStore EXCEPT !.tokenOut = t, !.tokenIn = swapStore.tokenOut]
                      ELSE [swapStore EXCEPT !.tokenOut = t])
      BY <2>4 DEF Swap!SetTokenOut
    <3>2. CASE t = swapStore.tokenIn
      BY <1>2, <1>9, <2>2, <3>1, <3>2 DEF StoreTypes
    <3>3. CASE t # swapStore.tokenIn
      BY <1>2, <1>9, <2>2, <3>1, <3>3 DEF StoreTypes
    <3>4. QED
      BY <3>2, <3>3
  <2>5. CASE Swap!Flip
    <3>1. [swapStore EXCEPT !.tokenIn = swapStore.tokenOut,
                            !.tokenOut = swapStore.tokenIn] \in StoreTypes
      BY <1>2 DEF StoreTypes
    <3>2. QED
      BY <1>2, <1>9, <2>5, <3>1 DEF StoreTypes, Swap!Flip
  <2>6. QED
    BY <1>2, <1>10, <2>1, <2>3, <2>4, <2>5
<1>11. CASE Swap!SetSlippage
  BY <1>2, <1>4, <1>11 DEF Swap!SetSlippage, StoreTypes
<1>12. CASE Swap!SelectRoute
  BY <1>2, <1>4, <1>12 DEF Swap!SelectRoute, Swap!R!MaxOptions, PanelTypes
<1>13. CASE Swap!FollowForm
  BY <1>2, <1>4, <1>7, <1>8, <1>13 DEF Swap!FollowForm
<1>14. CASE Swap!HandleApprove \/ Swap!HandleSwap
  BY <1>2, <1>4, <1>7, <1>8, <1>14 DEF Swap!HandleApprove, Swap!HandleSwap
<1>15. CASE Swap!ApproveMined
  BY <1>2, <1>3, <1>4, <1>15 DEF Swap!ApproveMined, PanelTypes, StoreTypes
<1>16. CASE Swap!ApproveReverted
  BY <1>2, <1>4, <1>7, <1>8, <1>16, SwapTerms DEF Swap!ApproveReverted, PanelTypes, NoHash
<1>17. CASE Swap!SwapMined
  BY <1>2, <1>4, <1>7, <1>8, <1>17 DEF Swap!SwapMined
<1>18. CASE Swap!CloseConfirmed
  <2>1. 0 \in Amounts
    BY SessionAssumption
  <2>2. QED
    BY <1>2, <1>4, <1>8, <1>18, <2>1, SwapTerms DEF Swap!CloseConfirmed, StoreTypes, NoHash
<1>19. ASSUME NEW f \in refetches, Swap!RefetchDone(f)
       PROVE  /\ market' \in Markets /\ swapStore' \in StoreTypes /\ swapPanel' \in PanelTypes
              /\ refetches' \subseteq [mount : Nat, token : SwapTokens] /\ overtaken' \in BOOLEAN
              /\ Held(swapPanel'.approveHash) /\ Held(swapStore'.hash)
  BY <1>2, <1>4, <1>7, <1>8, <1>19, SwapTerms DEF Swap!RefetchDone, PanelTypes, NoHash
<1>20. ASSUME NEW r \in Open("swap"),
              \/ Swap!ApproveSigned(r) \/ Swap!ApproveRejected(r)
              \/ Swap!SwapSigned(r) \/ Swap!SwapRejected(r)
       PROVE  /\ market' \in Markets /\ swapStore' \in StoreTypes /\ swapPanel' \in PanelTypes
              /\ refetches' \subseteq [mount : Nat, token : SwapTokens] /\ overtaken' \in BOOLEAN
              /\ Held(swapPanel'.approveHash) /\ Held(swapStore'.hash)
  <2>1. CASE Swap!ApproveSigned(r)
    <3>1. NewHash \in Nat /\ Held(NewHash)
      BY <1>5, <2>1, SwapEffects DEF Swap!ApproveSigned
    <3>2. QED
      BY <1>2, <1>4, <2>1, <3>1, SwapTerms DEF Swap!ApproveSigned, PanelTypes
  <2>2. CASE Swap!SwapSigned(r)
    <3>1. NewHash \in Nat /\ Held(NewHash)
      <4>1. PICK call : Send(r, call)
        BY <2>2, SwapEffects DEF Swap!SwapSigned
      <4>2. QED
        BY <1>5, <4>1
    <3>2. QED
      BY <1>2, <1>4, <1>8, <2>2, <3>1, SwapTerms DEF Swap!SwapSigned, StoreTypes
  <2>3. CASE Swap!ApproveRejected(r) \/ Swap!SwapRejected(r)
    BY <1>2, <1>4, <1>7, <1>8, <2>3 DEF Swap!ApproveRejected, Swap!SwapRejected
  <2>4. QED
    BY <1>20, <2>1, <2>2, <2>3
<1>21. QED
  <2>1. \A r : r \in Swap!Open("swap") => r \in Open("swap")
    BY SwapTerms
  <2>2. QED
    BY <1>10, <1>11, <1>12, <1>13, <1>14, <1>15, <1>16, <1>17, <1>18, <1>19, <1>20, <2>1
       DEF Swap!NextSwap

-----------------------------------------------------------------------------
(* A swap and an approval are never under way together.                    *)
LEMMA SwapGoing ==
  /\ Swap!SwapGoesOn <=> SwapUnderway
  /\ Swap!ApprovalGoesOn <=> ApprovalUnderway
BY SwapTerms DEF Swap!SwapGoesOn, Swap!ApprovalGoesOn, Swap!s, SwapUnderway, ApprovalUnderway

(* A hash that is neither waited for nor confirmed stays so.               *)
LEMMA SettledHash ==
  ASSUME IInv, ~Waiting(swapStore.hash), ~Confirmed(swapStore.hash)
  PROVE  swapStore.hash = NoHash \/ Reverted(swapStore.hash)
<1>1. SUFFICES ASSUME swapStore.hash # NoHash PROVE Reverted(swapStore.hash)
  OBVIOUS
<1>2. /\ swapStore.hash \in DOMAIN txs /\ txs[swapStore.hash].form = "swap"
      /\ TxOk(txs[swapStore.hash], mounts)
  BY <1>1 DEF IInv, FlowsTyped, SwapTyped, IsOf, SessionOk
<1>3. txs[swapStore.hash].told /\ txs[swapStore.hash].status # "success"
  BY <1>1 DEF Waiting, Confirmed, Succeeded
<1>4. QED
  BY <1>1, <1>2, <1>3 DEF TxOk, Governed, Governance!GovernanceForms, Reverted

(* What the cases below take from the invariant.                           *)
LEMMA SwapFacts ==
  ASSUME IInv
  PROVE  /\ SessionOk /\ TxsAreList /\ SwapOk /\ "swap" \in Forms /\ mounts["swap"] \in Nat
         /\ swapStore \in StoreTypes /\ swapPanel \in PanelTypes
         /\ swapStore.hash = NoHash \/ swapStore.hash \in DOMAIN txs
         /\ swapPanel.approveHash = NoHash \/ swapPanel.approveHash \in DOMAIN txs
         /\ NoHash \notin DOMAIN txs
         /\ refetches \subseteq [mount : Nat, token : SwapTokens]
BY HashesAreCounted, FrontendAssumption
   DEF IInv, FormsOk, SessionOk, FlowsTyped, SwapTyped, IsOf, StoreTypes, PanelTypes

LEMMA HandleApproveKeeps ==
  ASSUME IInv, Swap!HandleApprove
  PROVE  SwapOk'
<1> DEFINE call == [op |-> "approve", grants |-> Of(swapStore.tokenIn, swapStore.amountIn),
                    spends |-> Nothing]
<1>1. Request("swap", call) /\ call.op = "approve"
  BY SwapTerms, SwapEffects DEF Swap!HandleApprove, Swap!s
<1> HIDE DEF call
<1>2. PICK r : /\ r.form = "swap" /\ r.mount = mounts["swap"] /\ r.call = call
               /\ Open("swap")' = Open("swap") \cup {r}
  BY <1>1, AskView, SwapFacts
<1>3. /\ Announced("swap")' = Announced("swap")
      /\ txs' = txs /\ mounts' = mounts /\ page' = page
  BY <1>1, AskView, SwapFacts
<1>4. /\ page = "swap" /\ swapStore'.step = "approving" /\ swapStore'.hash = swapStore.hash
      /\ ~Confirmed(swapStore.hash) /\ refetches' = refetches /\ swapPanel' = swapPanel
      /\ overtaken' = (overtaken \/ SwapUnderway \/ ApprovalUnderway)
  BY SwapTerms, SwapFacts, SwapGoing
     DEF Swap!HandleApprove, Swap!SetStep, Swap!s, Swap!ApproveOffered, Swap!Ready,
         Swap!FormShown, Swap!IsConfirmed, StoreTypes
<1>5. ASSUME ~overtaken' PROVE SwapFollowed'
  <2>1. SwapFollowed /\ ~SwapUnderway /\ ~ApprovalUnderway
    BY <1>4, <1>5, SwapFacts DEF SwapOk
  <2>2. /\ swapStore.step # "pending" /\ swapPanel.approveHash = NoHash /\ refetches = {}
        /\ Open("swap") = {}
    BY <2>1, SwapFacts DEF SwapOk, SwapUnderway, ApprovalUnderway
  <2>3. ~Waiting(swapStore.hash)
    BY <2>1, <2>2 DEF SwapFollowed
  <2>4. swapStore.hash = NoHash \/ Reverted(swapStore.hash)
    BY <1>4, <2>3, SettledHash
  <2>5. Open("swap")' = {r}
    BY <1>2, <2>2
  <2>6. ~SwapUnderway'
    BY <1>1, <1>2, <1>4, <2>5 DEF SwapUnderway
  <2>7. \A h \in SwapsSent' : txs[h].toast # "pending"
    BY <1>3, <2>1, <2>2 DEF SwapFollowed, SwapsSent
  <2>8. ApprovalsAnnounced' = ApprovalsAnnounced
    BY <1>3 DEF ApprovalsAnnounced
  <2>9. \A q \in Open("swap")' : q.call.op = "approve" /\ One(Open("swap")')
    BY <1>1, <1>2, <2>5 DEF One
  <2>10. (swapStore.hash = NoHash \/ Reverted(swapStore.hash))' /\ ~Waiting(swapStore.hash)'
    BY <1>3, <1>4, <2>3, <2>4 DEF Reverted, Waiting
  <2>11. (\A h \in ApprovalsAnnounced' : h = swapPanel'.approveHash)
         /\ refetches' = {} /\ swapPanel'.approveHash = NoHash
    BY <1>4, <2>1, <2>2, <2>8 DEF SwapFollowed
  <2>12. QED
    BY <1>3, <1>4, <2>6, <2>7, <2>9, <2>10, <2>11
       DEF SwapFollowed, One, Waiting, Reverted
<1>6. QED
  BY <1>1, <1>2, <1>3, <1>4, <1>5, SwapFacts DEF SwapOk

LEMMA HandleSwapKeeps ==
  ASSUME IInv, Swap!HandleSwap
  PROVE  SwapOk'
<1>1. PICK call : Request("swap", call) /\ call.op = "swap"
  BY SwapEffects DEF Swap!HandleSwap
<1>2. PICK r : /\ r.form = "swap" /\ r.mount = mounts["swap"] /\ r.call = call
               /\ Open("swap")' = Open("swap") \cup {r}
  BY <1>1, AskView, SwapFacts
<1>3. /\ Announced("swap")' = Announced("swap")
      /\ txs' = txs /\ mounts' = mounts /\ page' = page
  BY <1>1, AskView, SwapFacts
<1>4. /\ page = "swap" /\ swapStore'.step = "signing" /\ swapStore'.hash = swapStore.hash
      /\ swapStore.step # "signing"
      /\ ~Confirmed(swapStore.hash) /\ ~Waiting(swapStore.hash)
      /\ refetches' = refetches /\ swapPanel' = swapPanel
      /\ overtaken' = (overtaken \/ ApprovalUnderway)
  BY SwapTerms, SwapFacts, SwapGoing
     DEF Swap!HandleSwap, Swap!SetStep, Swap!s, Swap!SwapOffered, Swap!Ready, Swap!FormShown,
         Swap!IsConfirmed, Swap!IsConfirming, StoreTypes
<1>5. ASSUME ~overtaken' PROVE SwapFollowed'
  <2>1. SwapFollowed /\ ~ApprovalUnderway
    BY <1>4, <1>5, SwapFacts DEF SwapOk
  <2>2. swapPanel.approveHash = NoHash /\ refetches = {} /\ Open("swap") = {}
    BY <1>4, <2>1, SwapFacts DEF SwapOk, SwapFollowed, ApprovalUnderway
  <2>3. swapStore.hash = NoHash \/ Reverted(swapStore.hash)
    BY <1>4, SettledHash
  <2>4. Open("swap")' = {r}
    BY <1>2, <2>2
  <2>5. ~ApprovalUnderway'
    BY <1>1, <1>2, <1>4, <2>2, <2>4 DEF ApprovalUnderway, NoHash
  <2>6. \A h \in SwapsSent' : txs[h].toast # "pending"
    BY <1>3, <1>4, <2>1, SwapFacts DEF SwapFollowed, SwapsSent, Waiting
  <2>7. ApprovalsAnnounced' = ApprovalsAnnounced
    BY <1>3 DEF ApprovalsAnnounced
  <2>8. \A q \in Open("swap")' : q.call.op = "swap" /\ One(Open("swap")')
    BY <1>1, <1>2, <2>4 DEF One
  <2>9. (swapStore.hash = NoHash \/ Reverted(swapStore.hash))' /\ ~Waiting(swapStore.hash)'
    BY <1>3, <1>4, <2>3 DEF Reverted, Waiting
  <2>10. (\A h \in ApprovalsAnnounced' : h = swapPanel'.approveHash)
         /\ refetches' = {} /\ swapPanel'.approveHash = NoHash
    BY <1>4, <2>1, <2>2, <2>7 DEF SwapFollowed
  <2>11. QED
    BY <1>3, <1>4, <2>5, <2>6, <2>8, <2>9, <2>10
       DEF SwapFollowed, One, Waiting, Reverted
<1>6. QED
  BY <1>1, <1>2, <1>3, <1>4, <1>5, SwapFacts DEF SwapOk

LEMMA ApproveSignedKeeps ==
  ASSUME IInv, NEW r \in Open("swap"), Swap!ApproveSigned(r)
  PROVE  SwapOk'
<1>1. Send(r, r.call) /\ r \in requests /\ r.form = "swap" /\ r.call.op = "approve"
  BY SwapEffects DEF Swap!ApproveSigned, Open
<1>2. /\ Open("swap")' = Open("swap") \ {r} /\ Asking("swap")' = Asking("swap") \ {r}
      /\ Announced("swap")' = Announced("swap") \cup {h \in {NewHash} : Current(r)}
      /\ NewHash \in Nat \ {0} /\ NewHash \notin DOMAIN txs
      /\ DOMAIN txs' = DOMAIN txs \cup {NewHash}
      /\ txs'[NewHash].call.op = "approve"
      /\ \A h \in DOMAIN txs : txs'[h] = txs[h]
      /\ mounts' = mounts /\ page' = page
  BY <1>1, SendView, SwapFacts
<1>3. /\ swapStore' = swapStore /\ refetches' = refetches /\ overtaken' = overtaken
      /\ Current(r) => swapPanel'.approveHash = NewHash
      /\ ~Current(r) => swapPanel'.approveHash = swapPanel.approveHash
  BY SwapTerms, SwapFacts DEF Swap!ApproveSigned, PanelTypes
<1>4. ASSUME ~overtaken' PROVE SwapFollowed'
  <2>1. SwapFollowed
    BY <1>3, <1>4, SwapFacts DEF SwapOk
  <2>2. Open("swap")' = {} /\ swapStore.step = "approving" /\ swapPanel.approveHash = NoHash
        /\ refetches = {}
    BY <1>1, <1>2, <2>1 DEF SwapFollowed, One
  <2>3. ~SwapUnderway'
    BY <1>3, <2>2 DEF SwapUnderway
  <2>4. \A h \in SwapsSent' : txs'[h].toast # "pending"
    BY <1>2, <2>1, <2>2 DEF SwapFollowed, SwapsSent
  <2>5. ~Waiting(swapStore.hash)'
    BY <1>2, <1>3, <2>1, <2>2, SwapFacts DEF SwapFollowed, Waiting
  <2>6. ApprovalsAnnounced = {}
    BY <2>1, <2>2, SwapFacts DEF SwapFollowed, ApprovalsAnnounced, Announced
  <2>7. \A h \in ApprovalsAnnounced' : h = NewHash /\ Current(r)
    BY <1>2, <2>6 DEF ApprovalsAnnounced, Announced
  <2>8. QED
    BY <1>3, <2>2, <2>3, <2>4, <2>5, <2>7 DEF SwapFollowed, One, Waiting
<1>5. page # "swap" => ~Current(r)
  BY <1>1, SwapFacts DEF SwapOk, AtRest, Asking, Current
<1>6. page # "swap" => AtRest("swap")'
  BY <1>2, <1>5, SwapFacts DEF SwapOk, AtRest
<1>7. QED
  BY <1>2, <1>3, <1>4, <1>6, SwapFacts DEF SwapOk

LEMMA SwapSignedKeeps ==
  ASSUME IInv, NEW r \in Open("swap"), Swap!SwapSigned(r)
  PROVE  SwapOk'
<1>1. PICK call : Send(r, call) /\ call.op = "swap"
  BY SwapEffects DEF Swap!SwapSigned
<1>2. r \in requests /\ r.form = "swap" /\ r.call.op = "swap"
  BY DEF Swap!SwapSigned, Open
<1>3. /\ Open("swap")' = Open("swap") \ {r} /\ Asking("swap")' = Asking("swap") \ {r}
      /\ Announced("swap")' = Announced("swap") \cup {h \in {NewHash} : Current(r)}
      /\ NewHash \in Nat \ {0} /\ NewHash \notin DOMAIN txs
      /\ DOMAIN txs' = DOMAIN txs \cup {NewHash}
      /\ txs'[NewHash].call.op = "swap" /\ ~txs'[NewHash].told
      /\ \A h \in DOMAIN txs : txs'[h] = txs[h]
      /\ mounts' = mounts /\ page' = page
  BY <1>1, <1>2, SendView, SwapFacts
<1>4. /\ swapStore'.step = "pending" /\ swapStore'.hash = NewHash
      /\ refetches' = refetches /\ overtaken' = overtaken /\ swapPanel' = swapPanel
  BY SwapTerms, SwapFacts DEF Swap!SwapSigned, Swap!s, StoreTypes
<1>5. ASSUME ~overtaken' PROVE SwapFollowed'
  <2>1. SwapFollowed
    BY <1>4, <1>5, SwapFacts DEF SwapOk
  <2>2. Open("swap")' = {} /\ swapStore.step = "signing" /\ ~ApprovalUnderway
    BY <1>2, <1>3, <2>1 DEF SwapFollowed, One, SwapUnderway
  <2>3. ~ApprovalUnderway'
    BY <1>4, <2>2 DEF ApprovalUnderway, NoHash
  <2>4. \A h \in SwapsSent' : txs'[h].toast = "pending" => h = NewHash
    BY <1>3, <2>1, <2>2 DEF SwapFollowed, SwapsSent
  <2>5. ApprovalsAnnounced' \subseteq ApprovalsAnnounced
    BY <1>3 DEF ApprovalsAnnounced, Announced
  <2>6. refetches = {}
    BY <2>2 DEF ApprovalUnderway
  <2>7. QED
    BY <1>3, <1>4, <2>1, <2>2, <2>3, <2>4, <2>5, <2>6 DEF SwapFollowed, One
<1>6. page # "swap" => ~Current(r)
  BY <1>2, SwapFacts DEF SwapOk, AtRest, Asking, Current
<1>7. page # "swap" => AtRest("swap")'
  BY <1>3, <1>6, SwapFacts DEF SwapOk, AtRest
<1>8. QED
  BY <1>3, <1>4, <1>5, <1>7, SwapFacts DEF SwapOk

LEMMA SwapRejectedKeeps ==
  ASSUME IInv, NEW r \in Open("swap"), Swap!ApproveRejected(r) \/ Swap!SwapRejected(r)
  PROVE  SwapOk'
<1>1. Reject(r) /\ r \in requests /\ r.form = "swap"
  BY SwapEffects DEF Swap!ApproveRejected, Swap!SwapRejected, Open
<1>2. /\ Open("swap")' = Open("swap") \ {r} /\ Asking("swap")' = Asking("swap") \ {r}
      /\ Announced("swap")' = Announced("swap")
      /\ txs' = txs /\ mounts' = mounts /\ page' = page
  BY <1>1, RejectView
<1>3. /\ swapStore'.step = "failed" /\ swapStore'.hash = swapStore.hash
      /\ refetches' = refetches /\ overtaken' = overtaken /\ swapPanel' = swapPanel
  BY SwapFacts DEF Swap!ApproveRejected, Swap!SwapRejected, Swap!SetStep, Swap!s, StoreTypes
<1>4. ASSUME ~overtaken' PROVE SwapFollowed'
  <2>1. SwapFollowed
    BY <1>3, <1>4, SwapFacts DEF SwapOk
  <2>2. Open("swap")' = {} /\ swapStore.step # "pending"
    BY <1>1, <1>2, <2>1, SwapFacts DEF SwapFollowed, One, SwapOk
  <2>3. ~SwapUnderway'
    BY <1>3, <2>2 DEF SwapUnderway
  <2>4. \A h \in SwapsSent' : txs'[h].toast # "pending"
    BY <1>2, <2>1, <2>2 DEF SwapFollowed, SwapsSent
  <2>5. ~Waiting(swapStore.hash)'
    BY <1>2, <1>3, <2>1, <2>2 DEF SwapFollowed, Waiting
  <2>6. ApprovalsAnnounced' = ApprovalsAnnounced
    BY <1>2 DEF ApprovalsAnnounced
  <2>7. QED
    BY <1>2, <1>3, <2>1, <2>2, <2>3, <2>4, <2>5, <2>6 DEF SwapFollowed, One, Waiting
<1>5. QED
  BY <1>2, <1>3, <1>4, SwapFacts DEF SwapOk, AtRest

(* While an approval is looked at nothing is asked for.                    *)
LEMMA NothingAsked ==
  ASSUME IInv, ~overtaken, swapPanel.approveHash # NoHash \/ refetches # {}
  PROVE  SwapFollowed /\ Open("swap") = {} /\ swapStore.step # "pending"
<1>1. SwapFollowed /\ ~SwapUnderway
  BY SwapFacts DEF SwapOk, SwapFollowed, ApprovalUnderway
<1>2. QED
  BY <1>1, SwapFacts DEF SwapOk, SwapFollowed, SwapUnderway

LEMMA ApproveMinedKeeps ==
  ASSUME IInv, Swap!ApproveMined
  PROVE  SwapOk'
<1> DEFINE h == swapPanel.approveHash
<1>1. /\ page = "swap" /\ h # NoHash /\ h \in DOMAIN txs /\ ToastClosing(h, "success", {})
  BY SwapTerms, SwapEffects, SwapFacts DEF Swap!ApproveMined, Succeeded
<1>2. /\ swapStore' = swapStore /\ swapPanel'.approveHash = h /\ overtaken' = overtaken
      /\ refetches' = refetches \cup {[mount |-> mounts["swap"], token |-> swapStore.tokenIn]}
  BY SwapFacts DEF Swap!ApproveMined, Swap!s, PanelTypes
<1> HIDE DEF h
<1>3. /\ Open("swap")' = Open("swap") /\ Announced("swap")' = Announced("swap") \ {h}
      /\ DOMAIN txs' = DOMAIN txs /\ txs'[h].told /\ txs'[h].toast = "success"
      /\ txs'[h].form = txs[h].form /\ txs'[h].call = txs[h].call
      /\ \A g \in DOMAIN txs : g # h => txs'[g] = txs[g]
      /\ mounts' = mounts /\ page' = page
  BY <1>1, ToastView, SwapFacts
<1>4. ASSUME ~overtaken' PROVE SwapFollowed'
  <2>1. SwapFollowed /\ Open("swap") = {} /\ swapStore.step # "pending"
    BY <1>1, <1>2, <1>4, NothingAsked DEF h
  <2>2. ~SwapUnderway'
    BY <1>2, <1>3, <2>1 DEF SwapUnderway
  <2>3. \A g \in SwapsSent' : txs'[g].toast # "pending"
    BY <1>3, <2>1 DEF SwapFollowed, SwapsSent
  <2>4. ~Waiting(swapStore.hash)'
    BY <1>2, <1>3, <2>1, SwapFacts DEF SwapFollowed, Waiting
  <2>5. ApprovalsAnnounced' \subseteq ApprovalsAnnounced
    BY <1>3 DEF ApprovalsAnnounced, Announced
  <2>6. txs'[swapPanel'.approveHash].toast # "pending" /\ Open("swap")' = {}
    BY <1>2, <1>3, <2>1
  <2>7. \A g \in ApprovalsAnnounced' : g = swapPanel'.approveHash
    BY <1>2, <2>1, <2>5 DEF SwapFollowed, h
  <2>8. QED
    BY <1>2, <2>1, <2>2, <2>3, <2>4, <2>6, <2>7 DEF SwapFollowed, One, Waiting
<1>5. \A f \in refetches' : f.mount <= mounts'["swap"]
  BY <1>2, <1>3, SwapFacts DEF SwapOk
<1>6. QED
  BY <1>1, <1>2, <1>3, <1>4, <1>5, SwapFacts DEF SwapOk

LEMMA ApproveRevertedKeeps ==
  ASSUME IInv, Swap!ApproveReverted
  PROVE  SwapOk'
<1> DEFINE h == swapPanel.approveHash
<1>1. /\ page = "swap" /\ h # NoHash /\ h \in DOMAIN txs /\ ToastClosing(h, "error", {})
  BY SwapTerms, SwapEffects, SwapFacts DEF Swap!ApproveReverted, Reverted
<1>2. /\ swapStore'.step = "failed" /\ swapStore'.hash = swapStore.hash
      /\ swapPanel'.approveHash = NoHash /\ overtaken' = overtaken /\ refetches' = refetches
  BY SwapTerms, SwapFacts DEF Swap!ApproveReverted, Swap!SetStep, Swap!s, PanelTypes, StoreTypes
<1>3. /\ Open("swap")' = Open("swap") /\ Announced("swap")' = Announced("swap") \ {h}
      /\ DOMAIN txs' = DOMAIN txs /\ txs'[h].told /\ txs'[h].toast = "error"
      /\ txs'[h].form = txs[h].form /\ txs'[h].call = txs[h].call
      /\ \A g \in DOMAIN txs : g # h => txs'[g] = txs[g]
      /\ mounts' = mounts /\ page' = page
  BY <1>1, ToastView, SwapFacts
<1>4. ASSUME ~overtaken' PROVE SwapFollowed'
  <2>1. SwapFollowed /\ Open("swap") = {} /\ swapStore.step # "pending"
    BY <1>1, <1>2, <1>4, NothingAsked
  <2>2. ~SwapUnderway'
    BY <1>2, <1>3, <2>1 DEF SwapUnderway
  <2>3. \A g \in SwapsSent' : txs'[g].toast # "pending"
    BY <1>3, <2>1 DEF SwapFollowed, SwapsSent
  <2>4. ~Waiting(swapStore.hash)'
    BY <1>2, <1>3, <2>1, SwapFacts DEF SwapFollowed, Waiting
  <2>5. ApprovalsAnnounced' = {}
    BY <1>3, <2>1 DEF SwapFollowed, ApprovalsAnnounced, Announced
  <2>6. swapPanel'.approveHash = NoHash /\ NoHash' = NoHash /\ Open("swap")' = {}
    BY <1>2, <1>3, <2>1 DEF NoHash
  <2>7. QED
    BY <2>2, <2>3, <2>4, <2>5, <2>6 DEF SwapFollowed, One, Waiting
<1>5. QED
  BY <1>1, <1>2, <1>3, <1>4, SwapFacts DEF SwapOk

LEMMA RefetchDoneKeeps ==
  ASSUME IInv, NEW f \in refetches, Swap!RefetchDone(f)
  PROVE  SwapOk'
<1>1. requests' = requests /\ txs' = txs /\ mounts' = mounts /\ page' = page
  BY SwapEffects DEF Swap!RefetchDone, ReadAllowance, session
<1>2. /\ swapStore'.step = "idle" /\ swapStore'.hash = swapStore.hash
      /\ f.mount = mounts["swap"] => swapPanel'.approveHash = NoHash
      /\ f.mount # mounts["swap"] => swapPanel'.approveHash = swapPanel.approveHash
      /\ overtaken' = overtaken /\ refetches' = refetches \ {f}
  BY SwapTerms, SwapFacts
     DEF Swap!RefetchDone, Swap!SetStep, Swap!s, Swap!Idle, PanelTypes, StoreTypes
<1>3. /\ Open("swap")' = Open("swap") /\ Announced("swap")' = Announced("swap")
      /\ AtRest("swap")' <=> AtRest("swap")
  BY <1>1 DEF Open, Announced, AtRest, Asking
<1>4. ASSUME ~overtaken' PROVE SwapFollowed'
  <2>1. SwapFollowed /\ Open("swap") = {} /\ swapStore.step # "pending"
    BY <1>2, <1>4, NothingAsked
  <2>2. ~SwapUnderway'
    BY <1>2, <1>3, <2>1 DEF SwapUnderway
  <2>3. \A g \in SwapsSent' : txs'[g].toast # "pending"
    BY <1>1, <2>1 DEF SwapFollowed, SwapsSent
  <2>4. ~Waiting(swapStore.hash)'
    BY <1>1, <1>2, <2>1, SwapFacts DEF SwapFollowed, Waiting
  <2>5. \A g \in ApprovalsAnnounced' : g = swapPanel'.approveHash
    <3>1. ApprovalsAnnounced' = ApprovalsAnnounced
      BY <1>1, <1>3 DEF ApprovalsAnnounced
    <3>2. CASE f.mount = mounts["swap"]
      BY <2>1, <3>1, <3>2, SwapFacts DEF SwapFollowed, ApprovalsAnnounced, Announced
    <3>3. CASE f.mount # mounts["swap"]
      BY <1>2, <2>1, <3>1, <3>3 DEF SwapFollowed
    <3>4. QED
      BY <3>2, <3>3
  <2>6. \A g \in refetches' : g.mount = mounts'["swap"] /\ swapPanel'.approveHash # NoHash =>
          txs'[swapPanel'.approveHash].toast # "pending"
    BY <1>1, <1>2, <2>1 DEF SwapFollowed
  <2>7. QED
    BY <1>3, <2>1, <2>2, <2>3, <2>4, <2>5, <2>6 DEF SwapFollowed, One, Waiting, NoHash
<1>5. QED
  BY <1>1, <1>2, <1>3, <1>4, SwapFacts DEF SwapOk

LEMMA SwapMinedKeeps ==
  ASSUME IInv, Swap!SwapMined
  PROVE  SwapOk'
<1> DEFINE h == swapStore.hash
<1>1. /\ page = "swap" /\ h # NoHash /\ h \in DOMAIN txs
      /\ \/ /\ swapStore.step = "pending" /\ swapStore'.step # "pending"
            /\ \E kind \in {"success", "error"} : ToastClosing(h, kind, {})
         \/ swapStore.step # "pending" /\ Learn(h) /\ swapStore' = swapStore
  BY SwapTerms, SwapEffects, SwapFacts DEF Swap!SwapMined, Swap!SetStep, Swap!s, StoreTypes
<1>2. /\ swapStore'.hash = h /\ swapPanel' = swapPanel
      /\ overtaken' = overtaken /\ refetches' = refetches
  BY SwapFacts DEF Swap!SwapMined, Swap!SetStep, Swap!s, StoreTypes
<1> HIDE DEF h
<1>3. CASE /\ swapStore.step = "pending" /\ swapStore'.step # "pending"
           /\ \E kind \in {"success", "error"} : ToastClosing(h, kind, {})
  <2>1. PICK kind \in {"success", "error"} : ToastClosing(h, kind, {})
    BY <1>3
  <2>2. /\ Open("swap")' = Open("swap") /\ Announced("swap")' = Announced("swap") \ {h}
        /\ DOMAIN txs' = DOMAIN txs /\ txs'[h].told /\ txs'[h].toast = kind
        /\ txs'[h].form = txs[h].form /\ txs'[h].call = txs[h].call
        /\ \A g \in DOMAIN txs : g # h => txs'[g] = txs[g]
        /\ mounts' = mounts /\ page' = page
    BY <1>1, <2>1, ToastView, SwapFacts
  <2>3. ASSUME ~overtaken' PROVE SwapFollowed'
    <3>1. SwapFollowed /\ ~ApprovalUnderway
      BY <1>2, <1>3, <2>3, SwapFacts DEF SwapOk, SwapFollowed, SwapUnderway
    <3>2. Open("swap") = {}
      BY <1>3, <3>1, SwapFacts DEF SwapOk, SwapFollowed
    <3>3. ~SwapUnderway' /\ Open("swap")' = {}
      BY <1>3, <2>2, <3>2 DEF SwapUnderway
    <3>4. \A g \in SwapsSent' : txs'[g].toast # "pending"
      BY <2>2, <3>1 DEF SwapFollowed, SwapsSent, h
    <3>5. ~Waiting(swapStore.hash)'
      BY <1>2, <2>2 DEF Waiting
    <3>6. ApprovalsAnnounced' \subseteq ApprovalsAnnounced
      BY <2>2 DEF ApprovalsAnnounced, Announced
    <3>7. refetches' = {}
      BY <1>2, <3>1 DEF ApprovalUnderway
    <3>8. QED
      BY <1>2, <1>3, <3>1, <3>3, <3>4, <3>5, <3>6, <3>7 DEF SwapFollowed, One, Waiting
  <2>4. QED
    BY <1>1, <1>2, <2>2, <2>3, SwapFacts DEF SwapOk
<1>4. CASE swapStore.step # "pending" /\ Learn(h) /\ swapStore' = swapStore
  <2>1. Open("swap")' = Open("swap") /\ mounts' = mounts /\ page' = page
    BY <1>1, <1>4, LearnView, SwapFacts
  <2>2. overtaken
    <3>1. Waiting(h)
      BY <1>1, <1>4 DEF Learn, Waiting
    <3>2. QED
      BY <1>4, <3>1, SwapFacts DEF SwapOk, SwapFollowed, h
  <2>3. QED
    BY <1>1, <1>2, <2>1, <2>2, SwapFacts DEF SwapOk
<1>5. QED
  BY <1>1, <1>3, <1>4

LEMMA CloseConfirmedKeeps ==
  ASSUME IInv, Swap!CloseConfirmed
  PROVE  SwapOk'
<1>1. page = "swap" /\ Confirmed(swapStore.hash)
  BY SwapTerms DEF Swap!CloseConfirmed, Swap!IsConfirmed, Swap!s
<1>2. /\ swapStore'.step = "idle" /\ swapStore'.hash = NoHash /\ swapPanel' = swapPanel
      /\ overtaken' = overtaken /\ refetches' = refetches
  BY SwapTerms, SwapFacts DEF Swap!CloseConfirmed, Swap!s, Swap!Idle, StoreTypes
<1>3. requests' = requests /\ txs' = txs /\ mounts' = mounts /\ page' = page
  BY SwapEffects DEF Swap!CloseConfirmed, session
<1>4. Open("swap")' = Open("swap") /\ Announced("swap")' = Announced("swap")
  BY <1>3 DEF Open, Announced
<1>5. ASSUME ~overtaken' PROVE SwapFollowed'
  <2>1. SwapFollowed
    BY <1>2, <1>5, SwapFacts DEF SwapOk
  <2>2. Open("swap") = {}
    BY <1>1, <2>1 DEF SwapFollowed, Confirmed, Succeeded, Reverted
  <2>3. ~SwapUnderway' /\ Open("swap")' = {}
    BY <1>2, <1>4, <2>2 DEF SwapUnderway
  <2>4. \A g \in SwapsSent' : txs'[g].toast # "pending"
    BY <1>1, <1>3, <2>1 DEF SwapFollowed, SwapsSent, Confirmed
  <2>5. ~Waiting(swapStore.hash)'
    BY <1>2 DEF Waiting, NoHash
  <2>6. ApprovalsAnnounced' = ApprovalsAnnounced
    BY <1>3, <1>4 DEF ApprovalsAnnounced
  <2>7. QED
    BY <1>2, <1>3, <2>1, <2>3, <2>4, <2>5, <2>6 DEF SwapFollowed, One, Waiting, NoHash
<1>6. QED
  BY <1>1, <1>2, <1>3, <1>4, <1>5, SwapFacts DEF SwapOk

LEMMA SwapFormKeeps ==
  ASSUME IInv, UNCHANGED <<requests, txs, mounts, page>>, SwapForm
  PROVE  SwapOk'
<1>1. /\ Open("swap")' = Open("swap") /\ Announced("swap")' = Announced("swap")
      /\ AtRest("swap")' <=> AtRest("swap")
  BY DEF Open, Announced, AtRest, Asking
<1>2. ASSUME ~overtaken' PROVE SwapFollowed'
  <2>1. SwapFollowed
    BY <1>2, SwapFacts DEF SwapOk, SwapForm
  <2>2. /\ swapStore'.step = "pending" <=> swapStore.step = "pending"
        /\ swapStore'.step # swapStore.step => Open("swap") = {}
    BY <2>1, SwapFacts DEF SwapForm, SwapFollowed, SwapOk
  <2>3. SwapUnderway' => SwapUnderway
    BY <1>1, <2>2 DEF SwapUnderway
  <2>4. ApprovalUnderway' => ApprovalUnderway
    BY <1>1 DEF ApprovalUnderway, SwapForm, NoHash
  <2>5. SwapsSent' = SwapsSent /\ ApprovalsAnnounced' = ApprovalsAnnounced
    BY <1>1 DEF SwapsSent, ApprovalsAnnounced
  <2>6. /\ Waiting(swapStore.hash)' <=> Waiting(swapStore.hash)
        /\ Reverted(swapStore.hash)' <=> Reverted(swapStore.hash)
    BY DEF SwapForm, Waiting, Reverted, NoHash
  <2>7. QED
    BY <1>1, <2>1, <2>2, <2>3, <2>4, <2>5, <2>6 DEF SwapFollowed, One, SwapForm, NoHash
<1>3. QED
  BY <1>1, <1>2, SwapFacts DEF SwapOk, SwapForm

LEMMA SwapKept ==
  ASSUME IInv, Swap!NextSwap
  PROVE  SwapOk'
<1>1. \A r : r \in Swap!Open("swap") => r \in Open("swap")
  BY SwapTerms
<1>2. QED
  BY <1>1, HandleApproveKeeps, HandleSwapKeeps, ApproveSignedKeeps, SwapSignedKeeps,
     SwapRejectedKeeps, ApproveMinedKeeps, ApproveRevertedKeeps, RefetchDoneKeeps,
     SwapMinedKeeps, CloseConfirmedKeeps, SwapFormSteps, SwapFormKeeps
     DEF Swap!NextSwap

-----------------------------------------------------------------------------
(* The liquidity page. *)
LEMMA LiquidityTerms ==
  /\ Liquidity!NoHash = NoHash /\ Liquidity!NewHash = NewHash /\ Liquidity!Nothing = Nothing
  /\ \A t, n : Liquidity!Of(t, n) = Of(t, n) /\ (Liquidity!KnownToCover(t, n) <=> KnownToCover(t, n))
  /\ \A h : /\ Liquidity!Succeeded(h) <=> Succeeded(h)
            /\ Liquidity!Reverted(h) <=> Reverted(h)
            /\ Liquidity!Waiting(h) <=> Waiting(h)
            /\ Liquidity!Confirmed(h) <=> Confirmed(h)
  /\ \A f : Liquidity!Open(f) = Open(f)
  /\ \A r : Liquidity!Current(r) <=> Current(r)
BY DEF Liquidity!NoHash, NoHash, Liquidity!NewHash, NewHash, Liquidity!Nothing,
       Nothing, Liquidity!Of, Of, Liquidity!KnownToCover, KnownToCover,
       Liquidity!Succeeded, Succeeded, Liquidity!Reverted, Reverted, Liquidity!Waiting,
       Waiting, Liquidity!Confirmed, Confirmed, Liquidity!Open, Open,
       Liquidity!Current, Current

LEMMA LiquidityEffects ==
  /\ \A f, c : Liquidity!Ask(f, c) => Request(f, c)
  /\ \A r, c : Liquidity!Send(r, c) => Send(r, c)
  /\ \A r : Liquidity!Reject(r) => Reject(r)
  /\ \A h, k : Liquidity!Toast(h, k) => ToastClosing(h, k, {})
  /\ \A h : Liquidity!Learn(h) => Learn(h)
  /\ \A t : Liquidity!ReadAllowance(t) => ReadAllowance(t)
  /\ \A f : Liquidity!Unmount(f) => Unmount(f)
  /\ Liquidity!Editing => Editing
  /\ Liquidity!Mount => Mount
  /\ Liquidity!session' = Liquidity!session => session' = session
<1>1. ASSUME NEW f, NEW c, Liquidity!Ask(f, c) PROVE Request(f, c)
  BY <1>1 DEF Liquidity!Ask, Request
<1>2. ASSUME NEW r, NEW c, Liquidity!Send(r, c) PROVE Send(r, c)
  BY <1>2 DEF Liquidity!Send, Send
<1>3. ASSUME NEW r, Liquidity!Reject(r) PROVE Reject(r)
  BY <1>3 DEF Liquidity!Reject, Reject
<1>4. ASSUME NEW h, NEW k, Liquidity!Toast(h, k) PROVE ToastClosing(h, k, {})
  BY <1>4 DEF Liquidity!Toast, Liquidity!ToastClosing, ToastClosing, Liquidity!Closed, Closed
<1>5. ASSUME NEW h, Liquidity!Learn(h) PROVE Learn(h)
  BY <1>5 DEF Liquidity!Learn, Learn
<1>6. ASSUME NEW t, Liquidity!ReadAllowance(t) PROVE ReadAllowance(t)
  BY <1>6 DEF Liquidity!ReadAllowance, ReadAllowance
<1>7. ASSUME NEW f, Liquidity!Unmount(f) PROVE Unmount(f)
  BY <1>7 DEF Liquidity!Unmount, Unmount, Liquidity!Closed, Closed
<1>8. Liquidity!Editing => Editing
  BY DEF Liquidity!Editing, Editing
<1>9. Liquidity!Mount => Mount
  BY DEF Liquidity!Mount, Mount
<1>10. Liquidity!session' = Liquidity!session => session' = session
  BY DEF Liquidity!session, session
<1>11. QED
  BY <1>1, <1>2, <1>3, <1>4, <1>5, <1>6, <1>7, <1>8, <1>9, <1>10

AddStoreTypes == [token0 : AddTokens, token1 : AddTokens, amount0 : Nat, amount1 : Nat,
                  step : AddSteps, hash : Nat]
AddHookTypes == [approveHash : Nat, ran : {<<>>} \cup (Nat \X AddSteps), addHash : Nat]
RemovalTypes == [percent : Percents \cup {0}, confirming : BOOLEAN,
                 step : {"idle", "signing", "pending", "confirmed", "failed"}, hash : Nat]

(* The steps of the add form, and those of the remove form. *)
AddEdits ==
  Liquidity!SelectToken \/ Liquidity!SetAmount0 \/ Liquidity!SetAmount1 \/ Liquidity!FollowForm
AddAsks == Liquidity!HandleApprove0 \/ Liquidity!HandleApprove1 \/ Liquidity!HandleAddLiquidity
AddReceipts == Liquidity!ApproveMined \/ Liquidity!ApproveReverted \/ Liquidity!AddMined
AddStep ==
  \/ AddEdits \/ AddAsks \/ AddReceipts
  \/ \E f \in addRefetches : Liquidity!RefetchDone(f)
  \/ \E r \in Open("add") : Liquidity!AddRequestSigned(r) \/ Liquidity!AddRequestRejected(r)
RemoveStep ==
  \/ Liquidity!SetPercent \/ Liquidity!AskConfirmation \/ Liquidity!CancelConfirmation
  \/ Liquidity!HandleConfirmRemove \/ Liquidity!RemoveMined
  \/ \E r \in Open("remove") : Liquidity!RemoveSigned(r) \/ Liquidity!RemoveRejected(r)
ModalStep == Liquidity!OpenAdd \/ Liquidity!OpenRemove \/ Liquidity!CloseModal

LEMMA LiquiditySteps ==
  Liquidity!NextLiquidity => AddStep \/ RemoveStep \/ ModalStep
BY LiquidityTerms DEF Liquidity!NextLiquidity, AddStep, RemoveStep, ModalStep, AddEdits, AddAsks,
   AddReceipts

LEMMA LiquidityFacts ==
  ASSUME IInv
  PROVE  /\ SessionOk /\ TxsAreList /\ AddOk /\ RemoveOk /\ {"add", "remove"} \subseteq Forms
         /\ mounts["add"] \in Nat /\ mounts["remove"] \in Nat
         /\ modal \in {"closed", "add", "remove"} /\ (modal # "closed" => page = "liquidity")
         /\ addStore \in AddStoreTypes /\ addHook \in AddHookTypes /\ removal \in RemovalTypes
         /\ addRefetches \subseteq [mount : Nat, token : AddTokens] /\ displaced \in BOOLEAN
         /\ addHook.approveHash = NoHash \/ addHook.approveHash \in DOMAIN txs
         /\ addHook.addHash = NoHash \/ addHook.addHash \in DOMAIN txs
         /\ removal.hash = NoHash \/ removal.hash \in DOMAIN txs
         /\ addStore.hash = NoHash \/ addStore.hash \in DOMAIN txs
         /\ \A h \in DOMAIN txs : /\ h \in {addHook.approveHash, addHook.addHash, addStore.hash} =>
                                       txs[h].form = "add"
                                  /\ h = removal.hash => txs[h].form = "remove"
         /\ NoHash \notin DOMAIN txs
BY HashesAreCounted, FrontendAssumption
   DEF IInv, FormsOk, SessionOk, FlowsTyped, LiquidityTyped, ModalTyped, AddTyped,
       RemoveTyped, IsOf, AddStoreTypes, AddHookTypes, RemovalTypes

AddHeld == Approving \cup {"signing", "pending"}
LEMMA AddEditsDo ==
  ASSUME IInv, AddEdits
  PROVE  /\ StepOf({"add"}) /\ UNCHANGED <<requests, txs, mounts, page>>
         /\ UNCHANGED <<modal, addHook, addRefetches, removal, displaced>>
         /\ addStore' \in AddStoreTypes /\ addStore'.hash = addStore.hash
         /\ \/ addStore'.step = addStore.step
            \/ addStore.step \notin AddHeld /\ addStore'.step \notin AddHeld
<1>1. ASSUME NEW store \in AddStoreTypes, Liquidity!EditAdd(store),
             store.step = addStore.step, store.hash = addStore.hash
      PROVE  /\ Editing /\ addStore' = store
             /\ UNCHANGED <<modal, addHook, addRefetches, removal, displaced>>
  BY <1>1, LiquidityEffects DEF Liquidity!EditAdd
<1>2. CASE Liquidity!SelectToken
  <2>1. PICK t \in Liquidity!Choices : \/ Liquidity!EditAdd([addStore EXCEPT !.token0 = t])
                                       \/ Liquidity!EditAdd([addStore EXCEPT !.token1 = t])
    BY <1>2 DEF Liquidity!SelectToken, Liquidity!a
  <2>2. ASSUME NEW store \in {[addStore EXCEPT !.token0 = t], [addStore EXCEPT !.token1 = t]}
        PROVE  store \in AddStoreTypes /\ store.step = addStore.step /\ store.hash = addStore.hash
    BY LiquidityFacts DEF AddStoreTypes, AddTokens
  <2>3. QED
    BY <1>1, <2>1, <2>2 DEF Editing, StepOf
<1>3. CASE Liquidity!SetAmount0 \/ Liquidity!SetAmount1
  <2>1. /\ PoolReserves[1] \in Nat \ {0} /\ PoolReserves[2] \in Nat \ {0}
    BY FrontendAssumption
  <2>2. \A n \in Amounts : n \in Nat
    BY SessionAssumption
  <2>3. \A x, y \in Nat : \A z \in Nat \ {0} : (x * y) \div z \in Nat
    OBVIOUS
  <2>4. CASE Liquidity!SetAmount0
    <3>1. PICK n \in Amounts : Liquidity!EditAdd([addStore EXCEPT !.amount0 = n,
            !.amount1 = IF Liquidity!HasPool THEN (n * PoolReserves[2]) \div PoolReserves[1] ELSE @])
      BY <2>4 DEF Liquidity!SetAmount0, Liquidity!a
    <3> DEFINE m == IF Liquidity!HasPool THEN (n * PoolReserves[2]) \div PoolReserves[1]
                    ELSE addStore.amount1
    <3>2. m \in Nat
      BY <2>1, <2>2, <2>3, LiquidityFacts DEF AddStoreTypes
    <3>3. Liquidity!EditAdd([addStore EXCEPT !.amount0 = n, !.amount1 = m])
      BY <3>1
    <3> HIDE DEF m
    <3>4. [addStore EXCEPT !.amount0 = n, !.amount1 = m] \in AddStoreTypes
      BY <2>2, <3>2, LiquidityFacts DEF AddStoreTypes
    <3>5. QED
      BY <1>1, <3>3, <3>4, LiquidityFacts DEF Editing, StepOf, AddStoreTypes
  <2>5. CASE Liquidity!SetAmount1
    <3>1. PICK n \in Amounts : Liquidity!EditAdd([addStore EXCEPT !.amount1 = n,
            !.amount0 = IF Liquidity!HasPool THEN (n * PoolReserves[1]) \div PoolReserves[2] ELSE @])
      BY <2>5 DEF Liquidity!SetAmount1, Liquidity!a
    <3> DEFINE m == IF Liquidity!HasPool THEN (n * PoolReserves[1]) \div PoolReserves[2]
                    ELSE addStore.amount0
    <3>2. m \in Nat
      BY <2>1, <2>2, <2>3, LiquidityFacts DEF AddStoreTypes
    <3>3. Liquidity!EditAdd([addStore EXCEPT !.amount1 = n, !.amount0 = m])
      BY <3>1
    <3> HIDE DEF m
    <3>4. [addStore EXCEPT !.amount1 = n, !.amount0 = m] \in AddStoreTypes
      BY <2>2, <3>2, LiquidityFacts DEF AddStoreTypes
    <3>5. QED
      BY <1>1, <3>3, <3>4, LiquidityFacts DEF Editing, StepOf, AddStoreTypes
  <2>6. QED
    BY <1>3, <2>4, <2>5
<1>4. CASE Liquidity!FollowForm
  <2>1. PICK due \in AddSteps \ AddHeld : addStore' = [addStore EXCEPT !.step = due]
    BY <1>4 DEF Liquidity!FollowForm, Liquidity!SetStep, Liquidity!a, AddSteps, AddHeld, Approving,
                Liquidity!Held
  <2>2. addStore.step \notin AddHeld
    BY <1>4 DEF Liquidity!FollowForm, Liquidity!a, AddHeld, Approving, Liquidity!Held
  <2>3. session' = session /\ UNCHANGED <<modal, addHook, addRefetches, removal, displaced>>
    BY <1>4, LiquidityEffects DEF Liquidity!FollowForm
  <2>4. QED
    BY <2>1, <2>2, <2>3, LiquidityFacts DEF AddStoreTypes, StepOf, session
<1>5. QED
  BY <1>2, <1>3, <1>4 DEF AddEdits

(* Each step of the add form is one of the session, keeps the form's types *)
(* and what its step and hashes stand for.                                 *)
AddKeeps ==
  /\ StepOf({"add"}) /\ page' = page /\ UNCHANGED <<modal, removal>>
  /\ AddTyped' /\ AddOk'

LEMMA AddTypesStay ==
  ASSUME IInv, HistoryKept, addStore' \in AddStoreTypes, addHook' \in AddHookTypes,
         addRefetches' \subseteq [mount : Nat, token : AddTokens], displaced' \in BOOLEAN,
         NEW x, x \in DOMAIN txs' => txs'[x].form = "add",
         addHook'.approveHash \in {NoHash, addHook.approveHash} \/
           (addHook'.approveHash = x /\ x \in DOMAIN txs'),
         addHook'.addHash \in {NoHash, addHook.addHash} \/
           (addHook'.addHash = x /\ x \in DOMAIN txs'),
         addStore'.hash \in {NoHash, addStore.hash} \/ (addStore'.hash = x /\ x \in DOMAIN txs')
  PROVE  AddTyped'
<1> DEFINE Fine(h) == h = NoHash \/ (h \in DOMAIN txs' /\ txs'[h].form = "add")
<1>1. \A h \in {NoHash, addHook.approveHash, addHook.addHash, addStore.hash} : Fine(h)
  BY LiquidityFacts DEF HistoryKept, TxKept
<1>2. Fine(addHook'.approveHash) /\ Fine(addHook'.addHash) /\ Fine(addStore'.hash)
  <2>1. x \in DOMAIN txs' => Fine(x)
    OBVIOUS
  <2> HIDE DEF Fine
  <2>2. QED
    BY <1>1, <2>1
<1>3. QED
  BY <1>2 DEF AddTyped, AddStoreTypes, AddHookTypes, IsOf, NoHash

LEMMA AddEditsKeep ==
  ASSUME IInv, AddEdits
  PROVE  AddKeeps
<1>1. /\ StepOf({"add"}) /\ UNCHANGED <<requests, txs, mounts, page>>
      /\ UNCHANGED <<modal, addHook, addRefetches, removal, displaced>>
      /\ addStore' \in AddStoreTypes /\ addStore'.hash = addStore.hash
      /\ \/ addStore'.step = addStore.step
         \/ addStore.step \notin AddHeld /\ addStore'.step \notin AddHeld
  BY AddEditsDo
<1>2. HistoryKept
  BY <1>1, SessionKept, LiquidityFacts
<1>3. AddTyped'
  BY <1>1, <1>2, AddTypesStay, LiquidityFacts
<1>4. /\ Open("add")' = Open("add") /\ Announced("add")' = Announced("add")
      /\ AtRest("add")' <=> AtRest("add")
  BY <1>1 DEF Open, Announced, AtRest, Asking
<1>5. ASSUME AddFollowed PROVE AddFollowed'
  <2>1. CASE addStore'.step = addStore.step
    BY <1>1, <1>4, <1>5, <2>1 DEF AddFollowed, Succeeded, One, NoHash
  <2>2. CASE addStore.step \notin AddHeld /\ addStore'.step \notin AddHeld
    <3>1. Open("add") = {} /\ addHook.approveHash = NoHash
      BY <1>5, <2>2 DEF AddFollowed, AddHeld
    <3>2. addRefetches = {} /\ Announced("add") = {}
      BY <1>5, <2>2, <3>1, LiquidityFacts DEF AddFollowed, AddHeld, Succeeded, Announced
    <3>3. QED
      BY <1>1, <1>4, <3>1, <3>2 DEF AddFollowed, One, NoHash
  <2>3. QED
    BY <1>1, <2>1, <2>2
<1>6. AddOk'
  BY <1>1, <1>4, <1>5, LiquidityFacts DEF AddOk, One
<1>7. QED
  BY <1>1, <1>3, <1>6 DEF AddKeeps

LEMMA AddAsksKeep ==
  ASSUME IInv, AddAsks
  PROVE  AddKeeps
<1> DEFINE Asked(call, step) ==
             /\ Request("add", call) /\ CallOk(call) /\ Affordable(call)
             /\ call.op = "approve" <=> step \in Approving
             /\ addStore' = [addStore EXCEPT !.step = step]
<1>0. PICK step \in Approving \cup {"signing"} : \E call : Asked(call, step)
  <2>1. addStore.amount0 \in Nat /\ addStore.amount1 \in Nat
    BY LiquidityFacts DEF AddStoreTypes
  <2>2. ASSUME NEW t, NEW n \in Nat, NEW step \in Approving,
               Liquidity!NeedsApprove(t, n), Liquidity!HandleApprove(t, n, step)
        PROVE  \E call : /\ Request("add", call) /\ CallOk(call) /\ Affordable(call)
                         /\ call.op = "approve"
                         /\ addStore' = [addStore EXCEPT !.step = step]
    <3> DEFINE call == [op |-> "approve", grants |-> Of(t, n), spends |-> Nothing]
    <3>1. Request("add", call)
      BY <2>2, LiquidityTerms, LiquidityEffects DEF Liquidity!HandleApprove
    <3>2. CallOk(call) /\ Affordable(call)
      BY <2>2, ApprovalOk DEF Liquidity!NeedsApprove
    <3>3. call.op = "approve"
      OBVIOUS
    <3> HIDE DEF call
    <3>4. QED
      BY <2>2, <3>1, <3>2, <3>3 DEF Liquidity!HandleApprove, Liquidity!SetStep, Liquidity!a
  <2>3. CASE Liquidity!HandleApprove0 \/ Liquidity!HandleApprove1
    <3>1. \E t : \E n \in Nat : \E step \in Approving :
            Liquidity!NeedsApprove(t, n) /\ Liquidity!HandleApprove(t, n, step)
      BY <2>1, <2>3
         DEF Liquidity!HandleApprove0, Liquidity!HandleApprove1, Liquidity!NeedsApprove0,
             Liquidity!NeedsApprove1, Liquidity!a, Approving
    <3>2. QED
      BY <2>2, <3>1
  <2>4. CASE Liquidity!HandleAddLiquidity
    <3> DEFINE spends == [t \in {addStore.token0, addStore.token1} \cap Tokens |->
                            IF t = addStore.token0 THEN addStore.amount0 ELSE addStore.amount1]
    <3>1. PICK call : /\ Request("add", call) /\ call.op = "add" /\ call.grants = Nothing
                      /\ call.spends = spends
      BY <2>4, LiquidityTerms, LiquidityEffects DEF Liquidity!HandleAddLiquidity, Liquidity!a
    <3>2. CallOk(call)
      BY <2>1, <3>1 DEF CallOk, Nothing
    <3>3. ASSUME NEW t \in DOMAIN call.spends PROVE KnownToCover(t, call.spends[t])
      <4>1. PICK n \in {addStore.amount0, addStore.amount1} :
              call.spends[t] = n /\ ~Liquidity!KnownToMiss(t, n)
        BY <2>4, <3>1, <3>3
           DEF Liquidity!HandleAddLiquidity, Liquidity!NeedsApprove0, Liquidity!NeedsApprove1,
               Liquidity!NeedsApprove, Liquidity!a
      <4>2. t \in Tokens /\ ~Liquidity!Checking(t)
        BY <2>4, <3>1, <3>3
           DEF Liquidity!HandleAddLiquidity, Liquidity!CanSubmit, Liquidity!IsBusy,
               Liquidity!AllowancesLoaded, Liquidity!a
      <4>3. known[t] # {} /\ known[t] \subseteq Nat /\ n \in Nat
        BY <2>1, <4>2, LiquidityFacts DEF Liquidity!Checking, SessionOk
      <4>4. \A m \in known[t] : m >= n
        BY <4>1, <4>3 DEF Liquidity!KnownToMiss
      <4>5. QED
        BY <4>1, <4>3, <4>4 DEF KnownToCover
    <3>4. Affordable(call)
      BY <3>3 DEF Affordable
    <3>5. addStore' = [addStore EXCEPT !.step = "signing"]
      BY <2>4 DEF Liquidity!HandleAddLiquidity, Liquidity!SetStep, Liquidity!a
    <3>6. "signing" \notin Approving /\ call.op # "approve"
      BY <3>1 DEF Approving
    <3>7. QED
      BY <3>1, <3>2, <3>4, <3>5, <3>6
  <2>5. QED
    BY <2>3, <2>4 DEF AddAsks
<1>1. PICK call : Asked(call, step)
  BY <1>0
<1>2. /\ modal = "add" /\ addStore.step \notin AddHeld
      /\ UNCHANGED <<modal, addHook, addRefetches, removal, displaced>>
  BY DEF AddAsks, Liquidity!HandleApprove0, Liquidity!HandleApprove1, Liquidity!HandleApprove,
         Liquidity!HandleAddLiquidity, Liquidity!CanSubmit, Liquidity!IsBusy, Liquidity!Held,
         Liquidity!AddFormShown, Liquidity!a, AddHeld, Approving
<1>3. PICK r : /\ r.form = "add" /\ r.mount = mounts["add"] /\ r.call = call
               /\ Open("add")' = Open("add") \cup {r}
  BY <1>1, AskView, LiquidityFacts
<1>4. /\ Announced("add")' = Announced("add")
      /\ txs' = txs /\ mounts' = mounts /\ page' = page
  BY <1>1, AskView, LiquidityFacts
<1>5. StepOf({"add"})
  BY <1>1 DEF StepOf, AskStep
<1>6. /\ addStore' \in AddStoreTypes /\ addStore'.hash = addStore.hash /\ addStore'.step = step
  BY <1>1, LiquidityFacts DEF AddStoreTypes, AddSteps, Approving
<1>7. HistoryKept
  BY <1>5, SessionKept, LiquidityFacts
<1>8. AddTyped'
  BY <1>2, <1>4, <1>6, <1>7, AddTypesStay, LiquidityFacts
<1>9. ASSUME ~displaced' PROVE AddFollowed' /\ One(Open("add")')
  <2>1. AddFollowed
    BY <1>2, <1>9, LiquidityFacts DEF AddOk
  <2>2. Open("add") = {} /\ addHook.approveHash = NoHash
    BY <1>2, <2>1 DEF AddFollowed, AddHeld
  <2>3. addRefetches = {} /\ Announced("add") = {}
    BY <1>2, <2>1, <2>2, LiquidityFacts DEF AddFollowed, AddHeld, Succeeded, Announced
  <2>4. Open("add")' = {r}
    BY <1>3, <2>2
  <2>5. QED
    BY <1>1, <1>2, <1>3, <1>4, <1>6, <2>2, <2>3, <2>4 DEF AddFollowed, One, NoHash, Approving
<1>10. AddOk'
  BY <1>2, <1>9 DEF AddOk
<1>11. QED
  BY <1>2, <1>4, <1>5, <1>8, <1>10 DEF AddKeeps

LEMMA AddSignedKeeps ==
  ASSUME IInv, NEW r \in Open("add"), Liquidity!AddRequestSigned(r)
  PROVE  AddKeeps
<1>1. PICK call : Send(r, call) /\ call.op = r.call.op /\ call.grants = r.call.grants
                  /\ call.spends = r.call.spends
  BY LiquidityEffects DEF Liquidity!AddRequestSigned
<1>2. r \in requests /\ r.form = "add" /\ RequestOk(r, mounts)
  BY LiquidityFacts DEF Open, SessionOk
<1>3. /\ Open("add")' = Open("add") \ {r} /\ Asking("add")' = Asking("add") \ {r}
      /\ Announced("add")' = Announced("add") \cup {h \in {NewHash} : Current(r)}
      /\ NewHash \in Nat \ {0} /\ NewHash \notin DOMAIN txs
      /\ DOMAIN txs' = DOMAIN txs \cup {NewHash}
      /\ txs'[NewHash].form = "add" /\ txs'[NewHash].call = call
      /\ \A h \in DOMAIN txs : txs'[h] = txs[h]
      /\ mounts' = mounts /\ page' = page
  BY <1>1, <1>2, SendView, LiquidityFacts
<1>4. StepOf({"add"})
  BY <1>1, <1>2 DEF StepOf, SendStep, RequestOk, CallOk
<1>5. HistoryKept
  BY <1>4, SessionKept, LiquidityFacts
<1>6. /\ UNCHANGED <<modal, addRefetches, removal, displaced>>
      /\ r.call.op = "approve" => addStore' = addStore
      /\ r.call.op = "approve" /\ Current(r) =>
           addHook' = [addHook EXCEPT !.approveHash = NewHash]
      /\ r.call.op # "approve" =>
           addStore' = [addStore EXCEPT !.step = "pending", !.hash = NewHash]
      /\ r.call.op # "approve" /\ Current(r) => addHook' = [addHook EXCEPT !.addHash = NewHash]
      /\ ~Current(r) => addHook' = addHook
  BY LiquidityTerms DEF Liquidity!AddRequestSigned, Liquidity!a
<1>7. addStore' \in AddStoreTypes /\ addHook' \in AddHookTypes
  BY <1>3, <1>6, LiquidityFacts DEF AddStoreTypes, AddHookTypes, AddSteps
<1>8. /\ addHook'.approveHash = IF r.call.op = "approve" /\ Current(r) THEN NewHash
                                ELSE addHook.approveHash
      /\ addHook'.addHash = IF r.call.op # "approve" /\ Current(r) THEN NewHash
                            ELSE addHook.addHash
      /\ addStore'.hash \in {addStore.hash, NewHash}
      /\ r.call.op = "approve" => addStore'.step = addStore.step
      /\ r.call.op # "approve" => addStore'.step = "pending"
  BY <1>6, LiquidityFacts DEF AddStoreTypes, AddHookTypes
<1>9. AddTyped'
  BY <1>3, <1>5, <1>6, <1>7, <1>8, AddTypesStay, LiquidityFacts
<1>10. One(Open("add")) => One(Open("add"))'
  BY <1>3 DEF One
<1>11. ASSUME AddFollowed, One(Open("add")) PROVE AddFollowed'
  <2>1. /\ Open("add")' = {} /\ Current(r)
        /\ addStore.step \in (IF r.call.op = "approve" THEN Approving ELSE {"signing"})
        /\ addHook.approveHash = NoHash /\ addRefetches = {}
    BY <1>2, <1>3, <1>11 DEF AddFollowed, One, Current
  <2>2. Announced("add") = {}
    BY <1>11, <2>1, LiquidityFacts DEF AddFollowed, Announced, Approving
  <2>3. Announced("add")' = {NewHash}
    BY <1>3, <2>1, <2>2
  <2>4. CASE r.call.op = "approve"
    BY <1>1, <1>3, <1>6, <1>8, <2>1, <2>3, <2>4 DEF AddFollowed, One, Approving
  <2>5. CASE r.call.op # "approve"
    BY <1>1, <1>3, <1>6, <1>8, <2>1, <2>3, <2>5 DEF AddFollowed, One, Approving, NoHash
  <2>6. QED
    BY <2>4, <2>5
<1>12. modal # "add" => AtRest("add")'
  BY <1>2, <1>3, LiquidityFacts DEF AddOk, AtRest, Asking, Current
<1>13. AddOk'
  BY <1>6, <1>10, <1>11, <1>12, LiquidityFacts DEF AddOk
<1>14. QED
  BY <1>3, <1>4, <1>6, <1>9, <1>13 DEF AddKeeps

LEMMA AddRejectedKeeps ==
  ASSUME IInv, NEW r \in Open("add"), Liquidity!AddRequestRejected(r)
  PROVE  AddKeeps
<1>1. Reject(r) /\ r \in requests /\ r.form = "add"
  BY LiquidityEffects DEF Liquidity!AddRequestRejected, Open
<1>2. /\ Open("add")' = Open("add") \ {r} /\ Asking("add")' = Asking("add") \ {r}
      /\ Announced("add")' = Announced("add")
      /\ txs' = txs /\ mounts' = mounts /\ page' = page
  BY <1>1, RejectView
<1>3. /\ UNCHANGED <<modal, addHook, addRefetches, removal, displaced>>
      /\ addStore' = [addStore EXCEPT !.step = "failed"]
  BY DEF Liquidity!AddRequestRejected, Liquidity!SetStep, Liquidity!a
<1>4. addStore' \in AddStoreTypes /\ addStore'.step = "failed" /\ addStore'.hash = addStore.hash
  BY <1>3, LiquidityFacts DEF AddStoreTypes, AddSteps
<1>5. StepOf({"add"})
  BY <1>1 DEF StepOf, RejectStep
<1>6. HistoryKept
  BY <1>5, SessionKept, LiquidityFacts
<1>7. AddTyped'
  BY <1>2, <1>3, <1>4, <1>6, AddTypesStay, LiquidityFacts
<1>8. ASSUME AddFollowed, One(Open("add")) PROVE AddFollowed'
  <2>1. /\ Open("add")' = {} /\ addHook.approveHash = NoHash /\ addRefetches = {}
        /\ addStore.step \in Approving \cup {"signing"}
    BY <1>2, <1>8 DEF AddFollowed, One
  <2>2. Announced("add") = {}
    BY <1>8, <2>1, LiquidityFacts DEF AddFollowed, Announced, Approving
  <2>3. QED
    BY <1>2, <1>3, <1>4, <2>1, <2>2 DEF AddFollowed, One, NoHash
<1>9. AddOk'
  BY <1>2, <1>3, <1>8, LiquidityFacts DEF AddOk, AtRest, One
<1>10. QED
  BY <1>2, <1>3, <1>5, <1>7, <1>9 DEF AddKeeps

(* A receipt of the approval is looked at once per step. *)
LEMMA AddApproveMinedKeeps ==
  ASSUME IInv, Liquidity!ApproveMined
  PROVE  AddKeeps
<1> DEFINE h == addHook.approveHash
           token == IF addStore.step = "approving0" THEN addStore.token0 ELSE addStore.token1
<1>1. /\ modal = "add" /\ h # NoHash /\ h \in DOMAIN txs /\ txs[h].form = "add"
      /\ Succeeded(h) /\ addHook.ran # <<h, addStore.step>> /\ ToastClosing(h, "success", {})
  BY LiquidityTerms, LiquidityEffects, LiquidityFacts
     DEF Liquidity!ApproveMined, Liquidity!a, Succeeded
<1>2. /\ UNCHANGED <<modal, addStore, removal, displaced>>
      /\ addHook' = [addHook EXCEPT !.ran = <<h, addStore.step>>]
      /\ addRefetches' = addRefetches \cup {[mount |-> mounts["add"], token |-> token]}
  BY DEF Liquidity!ApproveMined, Liquidity!a
<1>3. /\ addHook' \in AddHookTypes /\ addHook'.approveHash = h
      /\ addHook'.addHash = addHook.addHash /\ addHook'.ran = <<h, addStore.step>>
      /\ addRefetches' \subseteq [mount : Nat, token : AddTokens]
  BY <1>2, LiquidityFacts DEF AddHookTypes, AddStoreTypes
<1> HIDE DEF h, token
<1>4. /\ Open("add")' = Open("add") /\ Announced("add")' = Announced("add") \ {h}
      /\ DOMAIN txs' = DOMAIN txs /\ txs'[h].toast = "success" /\ txs'[h].form = txs[h].form
      /\ txs'[h].call = txs[h].call /\ txs'[h].status = txs[h].status
      /\ \A g \in DOMAIN txs : g # h => txs'[g] = txs[g]
      /\ mounts' = mounts /\ page' = page
  BY <1>1, ToastView, LiquidityFacts
<1>5. StepOf({"add"})
  BY <1>1 DEF StepOf, ToastStep, Truthful
<1>6. HistoryKept
  BY <1>5, SessionKept, LiquidityFacts
<1>7. AddTyped'
  BY <1>1, <1>2, <1>3, <1>4, <1>6, AddTypesStay, LiquidityFacts DEF h
<1>8. ASSUME ~displaced PROVE AddFollowed' /\ One(Open("add"))'
  <2>1. AddFollowed
    BY <1>1, <1>8, LiquidityFacts DEF AddOk
  <2>2. /\ addRefetches = {} /\ Open("add") = {} /\ addStore.step \in Approving
    BY <1>1, <2>1 DEF AddFollowed, h
  <2>3. addRefetches' = {[mount |-> mounts["add"], token |-> token]}
    BY <1>2, <2>2
  <2>4. One(addRefetches)' /\ \A f \in addRefetches' : f.mount = mounts["add"]
    BY <2>3 DEF One
  <2>5. \A g \in Announced("add")' : g \in Announced("add") /\ txs'[g] = txs[g]
    BY <1>4 DEF Announced
  <2>6. Succeeded(addHook.approveHash)'
    BY <1>1, <1>3, <1>4 DEF Succeeded, NoHash
  <2>7. QED
    BY <1>2, <1>3, <1>4, <2>1, <2>2, <2>4, <2>5, <2>6 DEF AddFollowed, One, h
<1>9. AddOk'
  BY <1>1, <1>2, <1>8 DEF AddOk
<1>10. QED
  BY <1>2, <1>4, <1>5, <1>7, <1>9 DEF AddKeeps

LEMMA AddApproveRevertedKeeps ==
  ASSUME IInv, Liquidity!ApproveReverted
  PROVE  AddKeeps
<1> DEFINE h == addHook.approveHash
<1>1. /\ modal = "add" /\ h # NoHash /\ h \in DOMAIN txs /\ txs[h].form = "add"
      /\ Reverted(h) /\ ToastClosing(h, "error", {})
  BY LiquidityTerms, LiquidityEffects, LiquidityFacts DEF Liquidity!ApproveReverted, Reverted
<1>2. /\ UNCHANGED <<modal, addRefetches, removal, displaced>>
      /\ addHook' = [addHook EXCEPT !.approveHash = NoHash]
      /\ addStore' = [addStore EXCEPT !.step = "failed"]
  BY LiquidityTerms DEF Liquidity!ApproveReverted, Liquidity!SetStep, Liquidity!a
<1>3. /\ addHook' \in AddHookTypes /\ addHook'.approveHash = NoHash
      /\ addHook'.addHash = addHook.addHash
      /\ addStore' \in AddStoreTypes /\ addStore'.step = "failed"
      /\ addStore'.hash = addStore.hash
  BY <1>2, LiquidityFacts DEF AddHookTypes, AddStoreTypes, AddSteps, NoHash
<1> HIDE DEF h
<1>4. /\ Open("add")' = Open("add") /\ Announced("add")' = Announced("add") \ {h}
      /\ DOMAIN txs' = DOMAIN txs /\ txs'[h].form = txs[h].form
      /\ \A g \in DOMAIN txs : g # h => txs'[g] = txs[g]
      /\ mounts' = mounts /\ page' = page
  BY <1>1, ToastView, LiquidityFacts
<1>5. StepOf({"add"})
  BY <1>1 DEF StepOf, ToastStep, Truthful
<1>6. HistoryKept
  BY <1>5, SessionKept, LiquidityFacts
<1>7. AddTyped'
  BY <1>1, <1>2, <1>3, <1>4, <1>6, AddTypesStay, LiquidityFacts
<1>8. ASSUME ~displaced PROVE AddFollowed' /\ One(Open("add"))'
  <2>1. AddFollowed
    BY <1>1, <1>8, LiquidityFacts DEF AddOk
  <2>2. addRefetches = {} /\ Open("add") = {} /\ addStore.step \in Approving
    BY <1>1, <2>1 DEF AddFollowed, h, Succeeded, Reverted
  <2>3. Announced("add")' = {}
    BY <1>4, <2>1, <2>2 DEF AddFollowed, Approving, h
  <2>4. QED
    BY <1>2, <1>3, <1>4, <2>2, <2>3 DEF AddFollowed, One, NoHash
<1>9. AddOk'
  BY <1>1, <1>2, <1>8 DEF AddOk
<1>10. QED
  BY <1>2, <1>4, <1>5, <1>7, <1>9 DEF AddKeeps

LEMMA AddRefetchDoneKeeps ==
  ASSUME IInv, NEW f \in addRefetches, Liquidity!RefetchDone(f)
  PROVE  AddKeeps
<1>1. (f.token \in Tokens /\ ReadAllowance(f.token)) \/ session' = session
  BY LiquidityEffects DEF Liquidity!RefetchDone
<1>2. StepOf({"add"}) /\ requests' = requests /\ txs' = txs /\ mounts' = mounts /\ page' = page
  BY <1>1 DEF StepOf, ReadStep, ReadAllowance, session
<1>3. /\ UNCHANGED <<modal, removal, displaced>> /\ addRefetches' = addRefetches \ {f}
      /\ addHook' = IF f.mount = mounts["add"] THEN [addHook EXCEPT !.approveHash = NoHash]
                    ELSE addHook
      /\ addStore' = [addStore EXCEPT !.step = "idle"]
  BY LiquidityTerms DEF Liquidity!RefetchDone, Liquidity!SetStep, Liquidity!a
<1>4. /\ addHook' \in AddHookTypes /\ addHook'.addHash = addHook.addHash
      /\ addHook'.approveHash = IF f.mount = mounts["add"] THEN NoHash ELSE addHook.approveHash
      /\ addStore' \in AddStoreTypes /\ addStore'.step = "idle"
      /\ addStore'.hash = addStore.hash
      /\ addRefetches' \subseteq [mount : Nat, token : AddTokens]
  BY <1>3, LiquidityFacts DEF AddHookTypes, AddStoreTypes, AddSteps, NoHash
<1>5. HistoryKept
  BY <1>2, SessionKept, LiquidityFacts
<1>6. AddTyped'
  BY <1>2, <1>3, <1>4, <1>5, AddTypesStay, LiquidityFacts
<1>7. /\ Open("add")' = Open("add") /\ Announced("add")' = Announced("add")
      /\ AtRest("add")' <=> AtRest("add")
  BY <1>2 DEF Open, Announced, AtRest, Asking
<1>8. ASSUME AddFollowed PROVE AddFollowed'
  <2>1. /\ addHook'.approveHash = NoHash /\ addRefetches' = {} /\ Open("add")' = {}
    BY <1>3, <1>4, <1>7, <1>8 DEF AddFollowed, One
  <2>2. Announced("add")' = {}
    BY <1>7, <1>8, LiquidityFacts
       DEF AddFollowed, Announced, Succeeded, Approving
  <2>3. QED
    BY <1>2, <2>1, <2>2 DEF AddFollowed, One, NoHash
<1>9. AddOk'
  BY <1>3, <1>7, <1>8, LiquidityFacts DEF AddOk, One
<1>10. QED
  BY <1>2, <1>3, <1>6, <1>9 DEF AddKeeps

LEMMA AddMinedKeeps ==
  ASSUME IInv, Liquidity!AddMined
  PROVE  AddKeeps
<1> DEFINE h == addHook.addHash
<1>1. /\ modal = "add" /\ h # NoHash /\ h \in DOMAIN txs /\ txs[h].form = "add"
      /\ \/ /\ addStore.step = "pending"
            /\ \/ addStore' = [addStore EXCEPT !.step = "confirmed"]
                  /\ Succeeded(h) /\ ToastClosing(h, "success", {})
               \/ addStore' = [addStore EXCEPT !.step = "failed"]
                  /\ Reverted(h) /\ ToastClosing(h, "error", {})
         \/ Learn(h) /\ addStore' = addStore
  BY LiquidityTerms, LiquidityEffects, LiquidityFacts
     DEF Liquidity!AddMined, Liquidity!SetStep, Liquidity!a
<1>2. UNCHANGED <<modal, addHook, addRefetches, removal, displaced>>
  BY DEF Liquidity!AddMined
<1>0. modal = "add" /\ AddOk
  BY <1>1, LiquidityFacts
<1> HIDE DEF h
<1>3. StepOf({"add"})
  BY <1>1 DEF StepOf, ToastStep, LearnStep, Truthful
<1>4. HistoryKept
  BY <1>3, SessionKept, LiquidityFacts
<1>5. addStore' \in AddStoreTypes /\ addStore'.hash = addStore.hash
  BY <1>1, LiquidityFacts DEF AddStoreTypes, AddSteps
<1>6. DOMAIN txs' = DOMAIN txs /\ page' = page
  BY <1>1, ToastView, LearnView, LearnIs, LiquidityFacts
<1>7. AddTyped'
  BY <1>1, <1>2, <1>4, <1>5, <1>6, AddTypesStay, LiquidityFacts DEF HistoryKept, TxKept
<1>8. ASSUME Learn(h) /\ addStore' = addStore PROVE AddOk'
  <2>1. /\ Open("add")' = Open("add") /\ Announced("add")' = Announced("add")
        /\ mounts' = mounts
    BY <1>1, <1>8, LearnView, LiquidityFacts
  <2>2. \A g \in DOMAIN txs : /\ txs'[g].toast = txs[g].toast /\ txs'[g].call = txs[g].call
                              /\ txs'[g].status = txs[g].status
    BY <1>1, <1>8, LearnIs, LiquidityFacts
  <2>3. Succeeded(addHook.approveHash)' <=> Succeeded(addHook.approveHash)
    BY <1>2, <2>2, LiquidityFacts DEF Succeeded, NoHash
  <2>4. ASSUME AddFollowed PROVE AddFollowed'
    BY <1>2, <1>8, <2>1, <2>2, <2>3, <2>4, LiquidityFacts
       DEF AddFollowed, One, NoHash, Announced, Succeeded
  <2>5. QED
    BY <1>0, <1>2, <2>1, <2>4 DEF AddOk, One
<1>9. ASSUME addStore.step = "pending" /\ addStore'.step \in {"confirmed", "failed"},
             \E kind \in {"success", "error"} : ToastClosing(h, kind, {})
      PROVE  AddOk'
  <2>1. PICK kind \in {"success", "error"} : ToastClosing(h, kind, {})
    BY <1>9
  <2>2. /\ Open("add")' = Open("add") /\ Announced("add")' = Announced("add") \ {h}
        /\ \A g \in DOMAIN txs : g # h => txs'[g] = txs[g]
        /\ mounts' = mounts
    BY <1>1, <2>1, ToastView, LiquidityFacts
  <2>3. ASSUME AddFollowed PROVE AddFollowed'
    <3>1. addHook.approveHash = NoHash /\ Open("add") = {}
      BY <1>9, <2>3 DEF AddFollowed, Approving
    <3>2. addRefetches = {}
      BY <2>3, <3>1 DEF AddFollowed, Succeeded
    <3>3. Announced("add")' = {}
      BY <2>2, <2>3, <3>1, LiquidityFacts DEF AddFollowed, Announced, h
    <3>4. QED
      BY <1>2, <2>2, <3>1, <3>2, <3>3 DEF AddFollowed, One, NoHash
  <2>4. QED
    BY <1>0, <1>2, <2>2, <2>3 DEF AddOk, One
<1>10. AddOk'
  <2>1. \A step : [addStore EXCEPT !.step = step].step = step
    BY LiquidityFacts DEF AddStoreTypes
  <2>2. QED
    BY <1>1, <1>8, <1>9, <2>1
<1>11. QED
  BY <1>2, <1>3, <1>6, <1>7, <1>10 DEF AddKeeps

LEMMA AddStepsKeep ==
  ASSUME IInv, AddStep
  PROVE  AddKeeps
BY AddEditsKeep, AddAsksKeep, AddSignedKeeps, AddRejectedKeeps, AddApproveMinedKeeps,
   AddApproveRevertedKeeps, AddRefetchDoneKeeps, AddMinedKeeps DEF AddStep, AddReceipts

-----------------------------------------------------------------------------
(* The remove form. *)
RemoveKeeps ==
  /\ StepOf({"remove"}) /\ page' = page
  /\ UNCHANGED <<modal, addStore, addHook, addRefetches, displaced>>
  /\ RemoveTyped' /\ RemoveOk'

(* Unless a request or a transaction is under way.                         *)
LEMMA RemoveAtRest ==
  ASSUME IInv, modal = "remove", removal.step \notin {"signing", "pending"}
  PROVE  AtRest("remove")
BY LiquidityFacts DEF RemoveOk, AtRest

LEMMA RemoveEditsKeep ==
  ASSUME IInv,
         \/ Liquidity!SetPercent \/ Liquidity!AskConfirmation \/ Liquidity!CancelConfirmation
         \/ Liquidity!HandleConfirmRemove /\ Liquidity!LpAmount = 0
  PROVE  RemoveKeeps
<1>1. /\ modal = "remove" /\ session' = session
      /\ UNCHANGED <<modal, addStore, addHook, addRefetches, displaced>>
  BY LiquidityEffects
     DEF Liquidity!SetPercent, Liquidity!AskConfirmation, Liquidity!CancelConfirmation,
         Liquidity!HandleConfirmRemove, Liquidity!RemoveShown
<1>2. /\ requests' = requests /\ txs' = txs /\ mounts' = mounts /\ page' = page
      /\ StepOf({"remove"})
  BY <1>1 DEF session, StepOf
<1>3. /\ removal' \in RemovalTypes /\ removal'.hash \in {NoHash, removal.hash}
      /\ \/ /\ removal'.confirming = removal.confirming /\ removal'.step = removal.step
            /\ removal'.hash = removal.hash
         \/ /\ removal'.confirming /\ removal'.step = "idle" /\ removal'.hash = NoHash
            /\ removal.step \notin {"signing", "pending"}
         \/ /\ ~removal'.confirming /\ removal'.step = removal.step
            /\ removal'.hash = removal.hash
  <2>1. CASE Liquidity!SetPercent
    <3>1. PICK n \in Percents : removal' =
            [removal EXCEPT !.percent = IF removal.percent = n THEN 0 ELSE n]
      BY <2>1 DEF Liquidity!SetPercent
    <3>2. QED
      BY <3>1, LiquidityFacts DEF RemovalTypes
  <2>2. CASE Liquidity!AskConfirmation
    BY <2>2, LiquidityTerms, LiquidityFacts DEF Liquidity!AskConfirmation, RemovalTypes, NoHash
  <2>3. CASE \/ Liquidity!CancelConfirmation
             \/ Liquidity!HandleConfirmRemove /\ Liquidity!LpAmount = 0
    BY <2>3, LiquidityFacts
       DEF Liquidity!CancelConfirmation, Liquidity!HandleConfirmRemove, RemovalTypes
  <2>4. QED
    BY <2>1, <2>2, <2>3
<1>4. RemoveTyped'
  BY <1>2, <1>3, LiquidityFacts DEF RemoveTyped, RemovalTypes, IsOf, NoHash
<1>5. Asking("remove")' = Asking("remove") /\ Announced("remove")' = Announced("remove")
  BY <1>2 DEF Asking, Announced
<1>6. RemoveOk
  BY LiquidityFacts
<1>7. CASE removal.step \notin {"signing", "pending"}
           /\ removal'.confirming /\ removal'.step = "idle" /\ removal'.hash = NoHash
  <2>1. AtRest("remove")
    BY <1>1, <1>7, RemoveAtRest
  <2>2. RemoveOk'
    BY <1>1, <1>5, <1>7, <2>1 DEF RemoveOk, AtRest, One, NoHash
  <2>3. QED
    BY <1>1, <1>2, <1>4, <2>2 DEF RemoveKeeps
<1>8. CASE /\ removal'.confirming => removal.confirming
           /\ removal'.step = removal.step /\ removal'.hash = removal.hash
  <2>1. RemoveOk'
    BY <1>1, <1>5, <1>6, <1>8 DEF RemoveOk, One, NoHash
  <2>2. QED
    BY <1>1, <1>2, <1>4, <2>1 DEF RemoveKeeps
<1>9. QED
  BY <1>3, <1>7, <1>8

LEMMA RemoveAskKeeps ==
  ASSUME IInv, Liquidity!HandleConfirmRemove, Liquidity!LpAmount # 0
  PROVE  RemoveKeeps
<1>1. PICK call : Request("remove", call) /\ call.grants = Nothing /\ call.spends = Nothing
  BY LiquidityTerms, LiquidityEffects DEF Liquidity!HandleConfirmRemove
<1>2. /\ modal = "remove" /\ removal.confirming
      /\ removal' = [removal EXCEPT !.confirming = FALSE, !.step = "signing"]
      /\ UNCHANGED <<modal, addStore, addHook, addRefetches, displaced>>
  BY DEF Liquidity!HandleConfirmRemove, Liquidity!RemoveShown
<1>3. /\ Asking("remove") = {} /\ Announced("remove") = {} /\ removal.hash = NoHash
  BY <1>2, LiquidityFacts DEF RemoveOk
<1>4. PICK r : Asking("remove")' = Asking("remove") \cup {r}
  BY <1>1, AskView, LiquidityFacts
<1>5. Announced("remove")' = Announced("remove") /\ txs' = txs /\ page' = page
  BY <1>1, AskView, LiquidityFacts
<1>6. StepOf({"remove"})
  BY <1>1, NothingMoves DEF StepOf, AskStep
<1>7. /\ removal' \in RemovalTypes /\ removal'.hash = NoHash /\ removal'.step = "signing"
      /\ ~removal'.confirming
  BY <1>2, <1>3, LiquidityFacts DEF RemovalTypes
<1>8. RemoveTyped'
  BY <1>7 DEF RemoveTyped, RemovalTypes, IsOf, NoHash
<1>9. RemoveOk'
  BY <1>2, <1>3, <1>4, <1>5, <1>7 DEF RemoveOk, One, NoHash
<1>10. QED
  BY <1>2, <1>5, <1>6, <1>8, <1>9 DEF RemoveKeeps

LEMMA RemoveSignedKeeps ==
  ASSUME IInv, NEW r \in Open("remove"), Liquidity!RemoveSigned(r)
  PROVE  RemoveKeeps
<1>1. PICK call : Send(r, call) /\ call.grants = Nothing /\ call.spends = Nothing
  BY LiquidityTerms, LiquidityEffects DEF Liquidity!RemoveSigned
<1>2. r \in requests /\ r.form = "remove"
  BY DEF Open
<1>3. /\ Asking("remove")' = Asking("remove") \ {r}
      /\ Announced("remove")' = Announced("remove") \cup {h \in {NewHash} : Current(r)}
      /\ NewHash \in Nat \ {0} /\ NewHash \notin DOMAIN txs
      /\ DOMAIN txs' = DOMAIN txs \cup {NewHash}
      /\ txs'[NewHash].form = "remove"
      /\ \A h \in DOMAIN txs : txs'[h] = txs[h]
      /\ page' = page
  BY <1>1, <1>2, SendView, LiquidityFacts
<1>4. StepOf({"remove"})
  BY <1>1, <1>2, NothingMoves DEF StepOf, SendStep
<1>5. /\ UNCHANGED <<modal, addStore, addHook, addRefetches, displaced>>
      /\ removal' = IF Current(r) THEN [removal EXCEPT !.step = "pending", !.hash = NewHash]
                    ELSE removal
  BY LiquidityTerms DEF Liquidity!RemoveSigned
<1>6. /\ removal' \in RemovalTypes
      /\ Current(r) => /\ removal'.step = "pending" /\ removal'.hash = NewHash
                       /\ removal'.confirming = removal.confirming
  BY <1>3, <1>5, LiquidityFacts DEF RemovalTypes
<1>7. RemoveTyped'
  BY <1>3, <1>5, <1>6, LiquidityFacts DEF RemoveTyped, RemovalTypes, IsOf, NoHash
<1>8. CASE Current(r)
  <2>1. r \in Asking("remove")
    BY <1>2, <1>8 DEF Asking, Current
  <2>2. /\ modal = "remove" /\ Asking("remove")' = {} /\ removal.step = "signing"
        /\ ~removal.confirming
    BY <1>3, <2>1, LiquidityFacts DEF RemoveOk, AtRest, One
  <2>3. Announced("remove")' = {NewHash}
    BY <1>3, <1>8, <2>2, LiquidityFacts DEF RemoveOk
  <2>4. RemoveOk'
    BY <1>5, <1>6, <1>8, <2>2, <2>3 DEF RemoveOk, One
  <2>5. QED
    BY <1>3, <1>4, <1>5, <1>7, <2>4 DEF RemoveKeeps
<1>9. CASE ~Current(r)
  <2>1. Asking("remove")' = Asking("remove") /\ Announced("remove")' = Announced("remove")
    BY <1>3, <1>9 DEF Asking, Current
  <2>2. RemoveOk'
    BY <1>5, <1>9, <2>1, LiquidityFacts DEF RemoveOk, AtRest, One, NoHash
  <2>3. QED
    BY <1>3, <1>4, <1>5, <1>7, <2>2 DEF RemoveKeeps
<1>10. QED
  BY <1>8, <1>9

LEMMA RemoveRejectedKeeps ==
  ASSUME IInv, NEW r \in Open("remove"), Liquidity!RemoveRejected(r)
  PROVE  RemoveKeeps
<1>1. Reject(r) /\ r \in requests /\ r.form = "remove"
  BY LiquidityEffects DEF Liquidity!RemoveRejected, Open
<1>2. /\ Asking("remove")' = Asking("remove") \ {r}
      /\ Announced("remove")' = Announced("remove") /\ txs' = txs /\ page' = page
  BY <1>1, RejectView
<1>3. StepOf({"remove"})
  BY <1>1 DEF StepOf, RejectStep
<1>4. /\ UNCHANGED <<modal, addStore, addHook, addRefetches, displaced>>
      /\ removal' = IF Current(r) THEN [removal EXCEPT !.step = "failed"] ELSE removal
  BY LiquidityTerms DEF Liquidity!RemoveRejected
<1>5. /\ removal' \in RemovalTypes /\ removal'.hash = removal.hash
      /\ removal'.confirming = removal.confirming /\ (Current(r) => removal'.step = "failed")
  BY <1>4, LiquidityFacts DEF RemovalTypes
<1>6. RemoveTyped'
  BY <1>2, <1>5, LiquidityFacts DEF RemoveTyped, RemovalTypes, IsOf, NoHash
<1>7. CASE Current(r)
  <2>1. r \in Asking("remove")
    BY <1>1, <1>7 DEF Asking, Current
  <2>2. /\ modal = "remove" /\ Asking("remove")' = {} /\ removal.step = "signing"
        /\ ~removal.confirming /\ Announced("remove") = {}
    BY <1>2, <2>1, LiquidityFacts DEF RemoveOk, AtRest, One
  <2>3. RemoveOk'
    BY <1>2, <1>4, <1>5, <1>7, <2>2 DEF RemoveOk, One
  <2>4. QED
    BY <1>2, <1>3, <1>4, <1>6, <2>3 DEF RemoveKeeps
<1>8. CASE ~Current(r)
  <2>1. Asking("remove")' = Asking("remove")
    BY <1>2, <1>8 DEF Asking, Current
  <2>2. RemoveOk'
    BY <1>2, <1>4, <1>8, <2>1, LiquidityFacts DEF RemoveOk, AtRest, One, NoHash
  <2>3. QED
    BY <1>2, <1>3, <1>4, <1>6, <2>2 DEF RemoveKeeps
<1>9. QED
  BY <1>7, <1>8

LEMMA RemoveMinedKeeps ==
  ASSUME IInv, Liquidity!RemoveMined
  PROVE  RemoveKeeps
<1> DEFINE h == removal.hash
<1>1. PICK kind \in {"success", "error"}, step \in {"confirmed", "failed"} :
        /\ h # NoHash /\ Truthful(h, kind) /\ ToastClosing(h, kind, {})
        /\ removal' = [removal EXCEPT !.step = step]
  BY LiquidityTerms, LiquidityEffects DEF Liquidity!RemoveMined, Truthful, Succeeded, Reverted
<1>2. modal = "remove" /\ UNCHANGED <<modal, addStore, addHook, addRefetches, displaced>>
  BY DEF Liquidity!RemoveMined
<1>3. h \in DOMAIN txs /\ txs[h].form = "remove"
  BY <1>1, LiquidityFacts
<1>4. /\ removal' \in RemovalTypes /\ removal'.hash = h /\ removal'.step = step
      /\ removal'.confirming = removal.confirming
  BY <1>1, LiquidityFacts DEF RemovalTypes
<1> HIDE DEF h
<1>5. /\ Asking("remove")' = Asking("remove")
      /\ Announced("remove")' = Announced("remove") \ {h}
      /\ DOMAIN txs' = DOMAIN txs /\ txs'[h].form = txs[h].form /\ page' = page
  BY <1>1, <1>3, ToastView, LiquidityFacts
<1>6. StepOf({"remove"})
  BY <1>1, <1>3 DEF StepOf, ToastStep
<1>7. RemoveTyped'
  BY <1>3, <1>4, <1>5 DEF RemoveTyped, RemovalTypes, IsOf
<1>8. Asking("remove") = {} /\ ~removal.confirming /\ Announced("remove")' = {}
  BY <1>1, <1>2, <1>5, LiquidityFacts DEF RemoveOk, h
<1>9. RemoveOk'
  BY <1>2, <1>4, <1>5, <1>8 DEF RemoveOk, One
<1>10. QED
  BY <1>2, <1>5, <1>6, <1>7, <1>9 DEF RemoveKeeps

LEMMA RemoveStepsKeep ==
  ASSUME IInv, RemoveStep
  PROVE  RemoveKeeps
BY RemoveEditsKeep, RemoveAskKeeps, RemoveSignedKeeps, RemoveRejectedKeeps, RemoveMinedKeeps
   DEF RemoveStep

-----------------------------------------------------------------------------
(* The modals of the liquidity page. *)
LiquidityKept ==
  /\ StepOf({"add", "remove"}) /\ page' = page
  /\ LiquidityTyped' /\ AddOk' /\ RemoveOk'

LEMMA AddUndisturbed ==
  ASSUME IInv, HistoryKept, Same("add"),
         UNCHANGED <<modal, addStore, addHook, addRefetches, displaced>>
  PROVE  AddTyped' /\ AddOk'
<1>1. AddTyped'
  <2>1. /\ IsOf(addHook.approveHash, {"add"})' /\ IsOf(addHook.addHash, {"add"})'
        /\ IsOf(addStore.hash, {"add"})'
    BY LiquidityFacts DEF IsOf, HistoryKept, TxKept, NoHash
  <2>2. QED
    BY <2>1, LiquidityFacts DEF AddTyped, AddStoreTypes, AddHookTypes
<1>2. /\ Asking("add")' = Asking("add") /\ Announced("add")' = Announced("add")
      /\ AtRest("add")' <=> AtRest("add")
  BY SameViews, LiquidityFacts
<1>3. Open("add")' = Open("add") /\ mounts'["add"] = mounts["add"]
  BY DEF Same
<1>4. ASSUME AddFollowed PROVE AddFollowed'
  <2>1. addRefetches # {} => Succeeded(addHook.approveHash)'
                             /\ txs'[addHook.approveHash].toast # "pending"
    <3>1. SUFFICES ASSUME addRefetches # {}
                   PROVE  Succeeded(addHook.approveHash)'
                          /\ txs'[addHook.approveHash].toast # "pending"
      OBVIOUS
    <3>2. Succeeded(addHook.approveHash) /\ txs[addHook.approveHash].toast # "pending"
      BY <1>4, <3>1 DEF AddFollowed
    <3>3. QED
      BY <3>2, LiquidityFacts DEF Succeeded, HistoryKept, TxKept, NoHash
  <2>2. \A h \in Announced("add") : txs'[h].call = txs[h].call
    BY DEF Announced, HistoryKept, TxKept
  <2>3. QED
    BY <1>2, <1>3, <1>4, <2>1, <2>2 DEF AddFollowed, One, NoHash
<1>5. AddOk'
  BY <1>2, <1>3, <1>4, LiquidityFacts DEF AddOk, One
<1>6. QED
  BY <1>1, <1>5

LEMMA RemoveUndisturbed ==
  ASSUME IInv, HistoryKept, Same("remove"), UNCHANGED <<modal, removal>>
  PROVE  RemoveTyped' /\ RemoveOk'
<1>1. RemoveTyped'
  <2>1. IsOf(removal.hash, {"remove"})'
    BY LiquidityFacts DEF IsOf, HistoryKept, TxKept, NoHash
  <2>2. QED
    BY <2>1, LiquidityFacts DEF RemoveTyped, RemovalTypes
<1>2. /\ Asking("remove")' = Asking("remove") /\ Announced("remove")' = Announced("remove")
      /\ AtRest("remove")' <=> AtRest("remove")
  BY SameViews, LiquidityFacts
<1>3. RemoveOk'
  BY <1>2, LiquidityFacts DEF RemoveOk, One, NoHash
<1>4. QED
  BY <1>1, <1>3

LEMMA ModalStepsKeep ==
  ASSUME IInv, ModalStep
  PROVE  LiquidityKept
<1>1. CASE Liquidity!OpenAdd
  <2>1. /\ session' = [session EXCEPT ![2] = visit'] /\ Mount /\ modal = "closed"
        /\ modal' = "add" /\ page = "liquidity"
        /\ addHook' = Liquidity!FreshAddHook
        /\ displaced' = (displaced \/ Open("add") # {} \/ addRefetches # {})
        /\ UNCHANGED <<addRefetches, removal>>
    BY <1>1, LiquidityTerms, LiquidityEffects
       DEF Liquidity!OpenAdd, Liquidity!Opening, Mount, session
  <2>2. PICK prefill \in BOOLEAN :
          addStore' = IF prefill THEN [addStore EXCEPT !.token0 = PoolOrder[1],
                                                       !.token1 = PoolOrder[2]]
                      ELSE addStore
    BY <1>1 DEF Liquidity!OpenAdd
  <2>3. addStore' \in AddStoreTypes /\ addStore'.hash = addStore.hash
    BY <2>2, LiquidityFacts, FrontendAssumption DEF AddStoreTypes, AddTokens
  <2>4. /\ requests' = requests /\ txs' = txs /\ mounts' = mounts /\ page' = page
        /\ StepOf({"add", "remove"})
    BY <2>1 DEF Mount, StepOf
  <2>5. addHook' = [approveHash |-> NoHash, ran |-> <<>>, addHash |-> NoHash]
    BY <2>1, LiquidityTerms DEF Liquidity!FreshAddHook
  <2>6. addHook' \in AddHookTypes /\ addHook'.approveHash = NoHash /\ addHook'.addHash = NoHash
    BY <2>5 DEF AddHookTypes, NoHash
  <2>7. AddTyped'
    BY <2>1, <2>3, <2>4, <2>6, LiquidityFacts
       DEF AddTyped, AddStoreTypes, AddHookTypes, IsOf, NoHash
  <2>8. /\ Asking("add")' = Asking("add") /\ Announced("add")' = Announced("add")
        /\ Open("add")' = Open("add") /\ AtRest("remove")' <=> AtRest("remove")
    BY <2>4 DEF Asking, Announced, Open, AtRest
  <2>9. AtRest("add") /\ AtRest("remove")
    BY <2>1, LiquidityFacts DEF AddOk, RemoveOk
  <2>10. AddOk'
    BY <2>1, <2>6, <2>8, <2>9 DEF AddOk, AddFollowed, One, AtRest, NoHash
  <2>11. RemoveOk' /\ RemoveTyped'
    BY <2>1, <2>4, <2>8, <2>9, LiquidityFacts DEF RemoveOk, RemoveTyped, RemovalTypes, IsOf, NoHash
  <2>12. QED
    BY <2>1, <2>4, <2>7, <2>10, <2>11 DEF LiquidityKept, LiquidityTyped, ModalTyped
<1>2. CASE Liquidity!OpenRemove
  <2>1. /\ Mount /\ modal = "closed" /\ modal' = "remove" /\ page = "liquidity"
        /\ removal' = Liquidity!FreshRemoval
        /\ UNCHANGED <<addStore, addHook, addRefetches, displaced>>
    BY <1>2, LiquidityEffects DEF Liquidity!OpenRemove, Liquidity!Opening
  <2>2. /\ requests' = requests /\ txs' = txs /\ mounts' = mounts /\ page' = page
        /\ StepOf({"add", "remove"})
    BY <2>1 DEF Mount, StepOf
  <2>3. removal' = [percent |-> 0, confirming |-> FALSE, step |-> "idle", hash |-> NoHash]
    BY <2>1, LiquidityTerms DEF Liquidity!FreshRemoval
  <2>4. /\ AtRest("add")' <=> AtRest("add")
        /\ AtRest("remove")' <=> AtRest("remove")
        /\ Open("add")' = Open("add")
    BY <2>2 DEF Asking, Announced, Open, AtRest
  <2>5. AtRest("add") /\ AtRest("remove")
    BY <2>1, LiquidityFacts DEF AddOk, RemoveOk
  <2>6. AddTyped' /\ AddOk'
    BY <2>1, <2>2, <2>4, <2>5, LiquidityFacts
       DEF AddTyped, AddStoreTypes, AddHookTypes, IsOf, NoHash, AddOk, One
  <2>7. RemoveTyped' /\ RemoveOk'
    BY <2>1, <2>3, <2>4, <2>5 DEF RemoveTyped, RemoveOk, AtRest, IsOf, NoHash, One
  <2>8. QED
    BY <2>1, <2>2, <2>6, <2>7 DEF LiquidityKept, LiquidityTyped, ModalTyped
<1>3. CASE Liquidity!CloseModal
  <2>1. /\ Unmount(modal) /\ modal \in {"add", "remove"} /\ modal' = "closed"
        /\ addStore' = IF modal = "add" THEN Liquidity!EmptyAdd ELSE addStore
        /\ addHook' = Liquidity!FreshAddHook /\ removal' = Liquidity!FreshRemoval
        /\ UNCHANGED <<addRefetches, displaced>>
    BY <1>3, LiquidityEffects, LiquidityFacts DEF Liquidity!CloseModal
  <2>2. /\ requests' = requests /\ txs' = txs /\ page' = page /\ StepOf({"add", "remove"})
        /\ mounts'[modal] = mounts[modal] + 1
        /\ \A form \in {"add", "remove"} \ {modal} : mounts'[form] = mounts[form]
    BY <2>1, LiquidityFacts DEF Unmount, Closed, StepOf, CloseStep, SessionOk
  <2>4. AtRest("add")' /\ AtRest("remove")'
    <3>1. CASE modal = "add"
      <4>1. AtRest("remove")
        BY <3>1, LiquidityFacts DEF RemoveOk
      <4>2. AtRest("remove")'
        BY <2>2, <3>1, <4>1 DEF AtRest, Asking, Announced
      <4>3. AtRest("add")'
        BY <2>2, <3>1, ClosedView, LiquidityFacts
      <4>4. QED
        BY <4>2, <4>3
    <3>2. CASE modal = "remove"
      <4>1. AtRest("add")
        BY <3>2, LiquidityFacts DEF AddOk
      <4>2. AtRest("add")'
        BY <2>2, <3>2, <4>1 DEF AtRest, Asking, Announced
      <4>3. AtRest("remove")'
        BY <2>2, <3>2, ClosedView, LiquidityFacts
      <4>4. QED
        BY <4>2, <4>3
    <3>3. QED
      BY <2>1, <3>1, <3>2
  <2>5. /\ addHook' = [approveHash |-> NoHash, ran |-> <<>>, addHash |-> NoHash]
        /\ removal' = [percent |-> 0, confirming |-> FALSE, step |-> "idle", hash |-> NoHash]
    BY <2>1, LiquidityTerms DEF Liquidity!FreshAddHook, Liquidity!FreshRemoval
  <2>6. addStore' \in AddStoreTypes /\ addStore'.hash \in {NoHash, addStore.hash}
    BY <2>1, LiquidityFacts, LiquidityTerms
       DEF Liquidity!EmptyAdd, AddStoreTypes, AddTokens, AddSteps, NoHash
  <2>7. AddTyped' /\ RemoveTyped'
    BY <2>1, <2>2, <2>5, <2>6, LiquidityFacts
       DEF AddTyped, RemoveTyped, AddStoreTypes, AddHookTypes, IsOf, NoHash
  <2>8. Open("add")' = Open("add")
    BY <2>2 DEF Open
  <2>9. AddOk' /\ RemoveOk'
    BY <2>1, <2>4, <2>8, LiquidityFacts DEF AddOk, RemoveOk, One
  <2>10. QED
    BY <2>1, <2>2, <2>7, <2>9 DEF LiquidityKept, LiquidityTyped, ModalTyped
<1>4. QED
  BY <1>1, <1>2, <1>3 DEF ModalStep

(* A step of one form is a step of the page. *)
LEMMA StepOfMore ==
  ASSUME NEW S, NEW T, S \subseteq T, StepOf(S)
  PROVE  StepOf(T)
<1>1. SUBSET S \subseteq SUBSET T
  OBVIOUS
<1>2. QED
  BY <1>1 DEF StepOf, AskStep, SendStep, RejectStep, ToastStep, LearnStep, CloseStep

LEMMA LiquidityStepsKeep ==
  ASSUME IInv, Liquidity!NextLiquidity
  PROVE  LiquidityKept
<1>1. CASE AddStep
  <2>1. AddKeeps
    BY <1>1, AddStepsKeep
  <2>2. HistoryKept /\ Same("remove")
    BY <2>1, SessionKept, OthersAreSame, LiquidityFacts DEF AddKeeps
  <2>3. RemoveTyped' /\ RemoveOk'
    BY <2>1, <2>2, RemoveUndisturbed DEF AddKeeps
  <2>4. StepOf({"add", "remove"})
    BY <2>1, StepOfMore DEF AddKeeps
  <2>5. QED
    BY <2>1, <2>3, <2>4, LiquidityFacts DEF AddKeeps, LiquidityKept, LiquidityTyped, ModalTyped
<1>2. CASE RemoveStep
  <2>1. RemoveKeeps
    BY <1>2, RemoveStepsKeep
  <2>2. HistoryKept /\ Same("add")
    BY <2>1, SessionKept, OthersAreSame, LiquidityFacts DEF RemoveKeeps
  <2>3. AddTyped' /\ AddOk'
    BY <2>1, <2>2, AddUndisturbed DEF RemoveKeeps
  <2>4. StepOf({"add", "remove"})
    BY <2>1, StepOfMore DEF RemoveKeeps
  <2>5. QED
    BY <2>1, <2>3, <2>4, LiquidityFacts DEF RemoveKeeps, LiquidityKept, LiquidityTyped, ModalTyped
<1>3. QED
  BY <1>1, <1>2, ModalStepsKeep, LiquiditySteps

-----------------------------------------------------------------------------
(* The staking page. *)
LEMMA StakingTerms ==
  /\ Staking!NoHash = NoHash /\ Staking!NewHash = NewHash /\ Staking!Nothing = Nothing
  /\ \A t, n : Staking!Of(t, n) = Of(t, n) /\ (Staking!KnownToCover(t, n) <=> KnownToCover(t, n))
  /\ \A h : /\ Staking!Succeeded(h) <=> Succeeded(h)
            /\ Staking!Reverted(h) <=> Reverted(h)
            /\ Staking!Waiting(h) <=> Waiting(h)
            /\ Staking!Confirmed(h) <=> Confirmed(h)
  /\ \A f : Staking!Open(f) = Open(f)
  /\ \A r : Staking!Current(r) <=> Current(r)
BY DEF Staking!NoHash, NoHash, Staking!NewHash, NewHash, Staking!Nothing, Nothing,
       Staking!Of, Of, Staking!KnownToCover, KnownToCover, Staking!Succeeded,
       Succeeded, Staking!Reverted, Reverted, Staking!Waiting, Waiting,
       Staking!Confirmed, Confirmed, Staking!Open, Open, Staking!Current, Current

LEMMA StakingEffects ==
  /\ \A f, c : Staking!Ask(f, c) => Request(f, c)
  /\ \A r, c : Staking!Send(r, c) => Send(r, c)
  /\ \A r : Staking!Reject(r) => Reject(r)
  /\ \A h, k : Staking!Toast(h, k) => ToastClosing(h, k, {})
  /\ \A t : Staking!ReadAllowance(t) => ReadAllowance(t)
  /\ \A f : Staking!Unmount(f) => Unmount(f)
  /\ Staking!Editing => Editing
  /\ Staking!Mount => Mount
  /\ Staking!session' = Staking!session => session' = session
<1>1. ASSUME NEW f, NEW c, Staking!Ask(f, c) PROVE Request(f, c)
  BY <1>1 DEF Staking!Ask, Request
<1>2. ASSUME NEW r, NEW c, Staking!Send(r, c) PROVE Send(r, c)
  BY <1>2 DEF Staking!Send, Send
<1>3. ASSUME NEW r, Staking!Reject(r) PROVE Reject(r)
  BY <1>3 DEF Staking!Reject, Reject
<1>4. ASSUME NEW h, NEW k, Staking!Toast(h, k) PROVE ToastClosing(h, k, {})
  BY <1>4 DEF Staking!Toast, Staking!ToastClosing, ToastClosing, Staking!Closed, Closed
<1>5. ASSUME NEW t, Staking!ReadAllowance(t) PROVE ReadAllowance(t)
  BY <1>5 DEF Staking!ReadAllowance, ReadAllowance
<1>6. ASSUME NEW f, Staking!Unmount(f) PROVE Unmount(f)
  BY <1>6 DEF Staking!Unmount, Unmount, Staking!Closed, Closed
<1>7. Staking!Editing => Editing
  BY DEF Staking!Editing, Editing
<1>8. Staking!Mount => Mount
  BY DEF Staking!Mount, Mount
<1>9. Staking!session' = Staking!session => session' = session
  BY DEF Staking!session, session
<1>10. QED
  BY <1>1, <1>2, <1>3, <1>4, <1>5, <1>6, <1>7, <1>8, <1>9

(* The steps of the panel and of the modals. *)
StakeEdits == Staking!SetTab \/ Staking!SetAmount \/ Staking!CloseConfirmed
StakeAsks ==
  Staking!HandleApprove \/ Staking!HandleDeposit \/ Staking!HandleWithdraw \/ Staking!HandleClaim
StakeReceipts == Staking!ApproveMined \/ Staking!ApproveReverted \/ Staking!StakeMined
StakeStep ==
  \/ StakeEdits \/ StakeAsks \/ StakeReceipts
  \/ \E m \in stakeRefetch : Staking!RefetchDone(m)
  \/ \E r \in Open("stake") : Staking!StakeSigned(r) \/ Staking!StakeRejected(r)
FundStep ==
  \/ Staking!SetFundAmount \/ Staking!HandleTransfer \/ Staking!FundMined
  \/ \E r \in Open("fund") : Staking!FundSigned(r) \/ Staking!FundRejected(r)
AdminStep ==
  \/ Staking!PauseRewards \/ Staking!UpdateRate \/ Staking!UpdateCap \/ Staking!AddPool
  \/ Staking!ResumeRewards \/ Staking!AdminMined
  \/ \E r \in Open("manage") \cup Open("addPool") : Staking!AdminAnswered(r)
DialogStep == Staking!OpenDialog \/ Staking!CloseDialog

LEMMA StakingSteps ==
  Staking!NextStaking => StakeStep \/ FundStep \/ AdminStep \/ DialogStep
BY StakingTerms DEF Staking!NextStaking, StakeStep, FundStep, AdminStep, DialogStep, StakeEdits,
   StakeAsks, StakeReceipts

LEMMA StakingFacts ==
  ASSUME IInv
  PROVE  /\ SessionOk /\ TxsAreList /\ StakeOk /\ FundOk /\ AdminOk("manage") /\ AdminOk("addPool")
         /\ {"stake", "fund", "manage", "addPool"} \subseteq Forms
         /\ mounts["stake"] \in Nat /\ mounts["fund"] \in Nat
         /\ mounts["manage"] \in Nat /\ mounts["addPool"] \in Nat
         /\ StakeTyped /\ DialogTyped /\ FundTyped /\ AdminTyped
         /\ panel \in StakePanels /\ fund \in Funds /\ admin \in Admins
         /\ stakeRefetch \subseteq Nat /\ dropped \in BOOLEAN
         /\ pool \in {"active", "paused", "closed"}
         /\ panel.hash = NoHash \/ panel.hash \in DOMAIN txs
         /\ panel.approveHash = NoHash \/ panel.approveHash \in DOMAIN txs
         /\ fund.hash = NoHash \/ fund.hash \in DOMAIN txs
         /\ admin.hash = NoHash \/ admin.hash \in DOMAIN txs
         /\ \A h \in DOMAIN txs : /\ h \in {panel.hash, panel.approveHash} => txs[h].form = "stake"
                                  /\ h = fund.hash => txs[h].form = "fund"
                                  /\ h = admin.hash => txs[h].form \in {"manage", "addPool"}
         /\ NoHash \notin DOMAIN txs
BY HashesAreCounted, FrontendAssumption
   DEF IInv, FormsOk, SessionOk, FlowsTyped, StakingTyped, StakeTyped, FundTyped, AdminTyped, IsOf

(* The panel. *)
StakeKeeps ==
  /\ StepOf({"stake"}) /\ page' = page
  /\ UNCHANGED <<dialog, fund, admin>>
  /\ StakeTyped' /\ StakeOk'

LEMMA StakeTypesStay ==
  ASSUME IInv, HistoryKept, panel' \in StakePanels, pool' = pool,
         stakeRefetch' \subseteq Nat, dropped' \in BOOLEAN,
         NEW x, x \in DOMAIN txs' => txs'[x].form = "stake",
         panel'.hash \in {NoHash, panel.hash} \/ (panel'.hash = x /\ x \in DOMAIN txs'),
         panel'.approveHash \in {NoHash, panel.approveHash}
           \/ (panel'.approveHash = x /\ x \in DOMAIN txs'),
         panel'.ran \in {panel.ran, panel.approveHash}
  PROVE  StakeTyped'
<1> DEFINE Fine(h) == h = NoHash \/ (h \in DOMAIN txs' /\ txs'[h].form = "stake")
<1>1. \A h \in {NoHash, panel.hash, panel.approveHash, panel.ran} : Fine(h)
  BY StakingFacts DEF HistoryKept, TxKept, StakeTyped, IsOf
<1>2. Fine(panel'.hash) /\ Fine(panel'.approveHash) /\ Fine(panel'.ran)
  <2>1. x \in DOMAIN txs' => Fine(x)
    OBVIOUS
  <2> HIDE DEF Fine
  <2>2. QED
    BY <1>1, <2>1
<1>3. QED
  BY <1>2, StakingFacts DEF StakeTyped, IsOf, NoHash

(* Nothing is under way when the panel is not busy. *)
LEMMA StakeAtRest ==
  ASSUME IInv, ~dropped, panel.step \notin {"approving", "signing"},
         panel.step # "pending" \/ ~Waiting(panel.hash)
  PROVE  Asking("stake") = {} /\ Announced("stake") = {} /\ ~Refetching
         /\ panel.approveHash = NoHash
<1>1. StakeFollowed
  BY StakingFacts DEF StakeOk
<1>2. Asking("stake") = {} /\ panel.approveHash = NoHash
  BY <1>1 DEF StakeFollowed
<1>3. ~Refetching
  BY <1>1, <1>2 DEF StakeFollowed, Succeeded
<1>4. Announced("stake") = {}
  BY <1>1, <1>2, StakingFacts DEF StakeFollowed, Announced, Waiting
<1>5. QED
  BY <1>2, <1>3, <1>4

LEMMA StakeEditsKeep ==
  ASSUME IInv, StakeEdits
  PROVE  StakeKeeps
<1>1. /\ page = "staking" /\ UNCHANGED <<dialog, fund, admin, pool, stakeRefetch>>
      /\ requests' = requests /\ txs' = txs /\ mounts' = mounts /\ page' = page
      /\ StepOf({"stake"})
  BY StakingEffects
     DEF StakeEdits, Staking!SetTab, Staking!SetAmount, Staking!CloseConfirmed, Staking!InPanel,
         Staking!PanelShown, Editing, StepOf, session
<1>2. /\ panel' \in StakePanels /\ panel'.hash \in {NoHash, panel.hash}
      /\ panel'.approveHash = panel.approveHash /\ panel'.ran = panel.ran
      /\ dropped' \in BOOLEAN
      /\ \/ dropped' = dropped /\ panel'.step = panel.step /\ panel'.hash = panel.hash
         \/ /\ dropped \/ panel.step \in {"approving", "signing", "pending"} => dropped'
            /\ panel'.step = "idle"
  <2>1. CASE Staking!SetTab
    <3>1. PICK tab \in {"stake", "unstake"} :
            panel' = [panel EXCEPT !.tab = tab, !.amount = 0, !.step = "idle", !.hash = NoHash,
                                   !.action = "none"]
      BY <2>1, StakingTerms DEF Staking!SetTab, Staking!InPanel, Staking!p
    <3>2. dropped' = (dropped \/ panel.step \in {"approving", "signing", "pending"})
      BY <2>1 DEF Staking!SetTab, Staking!p
    <3>3. 0 \in Amounts
      BY SessionAssumption
    <3>4. panel' \in StakePanels /\ panel'.step = "idle" /\ panel'.hash = NoHash
          /\ panel'.approveHash = panel.approveHash /\ panel'.ran = panel.ran
      BY <3>1, <3>3, StakingFacts DEF StakePanels, NoHash
    <3>5. QED
      BY <3>2, <3>4, StakingFacts
  <2>2. CASE Staking!SetAmount
    <3>1. PICK n \in Amounts : panel' = [panel EXCEPT !.amount = n]
      BY <2>2 DEF Staking!SetAmount, Staking!InPanel, Staking!p
    <3>2. QED
      BY <2>2, <3>1, StakingFacts DEF StakePanels, Staking!SetAmount
  <2>3. CASE Staking!CloseConfirmed
    <3>1. panel' = [panel EXCEPT !.amount = 0, !.step = "idle", !.hash = NoHash, !.action = "none"]
      BY <2>3, StakingTerms DEF Staking!CloseConfirmed, Staking!InPanel, Staking!p
    <3>2. 0 \in Amounts /\ dropped' = dropped /\ panel.step = "confirmed"
      BY <2>3, SessionAssumption DEF Staking!CloseConfirmed, Staking!p
    <3>3. panel' \in StakePanels /\ panel'.step = "idle" /\ panel'.hash = NoHash
          /\ panel'.approveHash = panel.approveHash /\ panel'.ran = panel.ran
      BY <3>1, <3>2, StakingFacts DEF StakePanels, NoHash
    <3>4. QED
      BY <3>2, <3>3, StakingFacts
  <2>4. QED
    BY <2>1, <2>2, <2>3 DEF StakeEdits
<1>3. HistoryKept
  BY <1>1, SessionKept, StakingFacts
<1>4. StakeTyped'
  BY <1>1, <1>2, <1>3, StakeTypesStay, StakingFacts
<1>5. /\ Asking("stake")' = Asking("stake") /\ Announced("stake")' = Announced("stake")
      /\ Refetching' <=> Refetching
  BY <1>1 DEF Asking, Announced, Refetching
<1>6. ASSUME ~dropped' PROVE StakeFollowed'
  <2>1. CASE dropped' = dropped /\ panel'.step = panel.step /\ panel'.hash = panel.hash
    <3>1. StakeFollowed
      BY <1>6, <2>1, StakingFacts DEF StakeOk
    <3>2. QED
      BY <1>1, <1>2, <1>5, <2>1, <3>1 DEF StakeFollowed, One, Succeeded, NoHash
  <2>2. CASE /\ dropped \/ panel.step \in {"approving", "signing", "pending"} => dropped'
             /\ panel'.step = "idle"
    <3>1. Asking("stake") = {} /\ Announced("stake") = {} /\ ~Refetching
          /\ panel.approveHash = NoHash
      BY <1>6, <2>2, StakeAtRest
    <3>2. QED
      BY <1>1, <1>2, <1>5, <3>1 DEF StakeFollowed, One, NoHash
  <2>3. QED
    BY <1>2, <2>1, <2>2
<1>7. StakeOk'
  BY <1>1, <1>6, StakingFacts DEF StakeOk
<1>8. QED
  BY <1>1, <1>4, <1>7 DEF StakeKeeps

LEMMA StakeAsksKeep ==
  ASSUME IInv, StakeAsks
  PROVE  StakeKeeps
<1> DEFINE Asked(call, step) ==
             /\ Request("stake", call) /\ CallOk(call) /\ Affordable(call)
             /\ call.op = "approve" <=> step = "approving"
             /\ panel'.step = step
<1>1. /\ page = "staking" /\ panel.step \notin {"approving", "signing"}
      /\ panel.step # "pending" \/ ~Waiting(panel.hash)
      /\ UNCHANGED <<dialog, fund, admin, pool, stakeRefetch, dropped>>
  BY StakingTerms
     DEF StakeAsks, Staking!HandleApprove, Staking!HandleDeposit, Staking!HandleWithdraw,
         Staking!HandleClaim, Staking!InPanel, Staking!ActionOffered, Staking!ClaimOffered,
         Staking!PanelShown, Staking!IsBusy, Staking!IsConfirming, Staking!p
<1>2. /\ panel' \in StakePanels /\ panel'.hash = panel.hash
      /\ panel'.approveHash = panel.approveHash /\ panel'.ran = panel.ran
  BY StakingFacts
     DEF StakeAsks, Staking!HandleApprove, Staking!HandleDeposit, Staking!HandleWithdraw,
         Staking!HandleClaim, Staking!InPanel, Staking!p, StakePanels
<1>3. PICK step \in {"approving", "signing"} : \E call : Asked(call, step)
  <2>1. StakingToken \in Tokens /\ panel.amount \in Nat
    BY FrontendAssumption, SessionAssumption, StakingFacts DEF StakePanels
  <2>2. CASE Staking!HandleApprove
    <3> DEFINE call == [op |-> "approve", grants |-> Of(StakingToken, panel.amount),
                        spends |-> Nothing]
    <3>1. Request("stake", call)
      BY <2>2, StakingTerms, StakingEffects DEF Staking!HandleApprove, Staking!p
    <3>2. CallOk(call) /\ Affordable(call)
      BY <2>1, ApprovalOk
    <3>3. call.op = "approve"
      OBVIOUS
    <3>4. panel'.step = "approving"
      BY <2>2, StakingFacts DEF Staking!HandleApprove, Staking!InPanel, Staking!p, StakePanels
    <3> HIDE DEF call
    <3>5. QED
      BY <3>1, <3>2, <3>3, <3>4
  <2>3. CASE Staking!HandleDeposit
    <3> DEFINE call == [op |-> "deposit", grants |-> Nothing, after |-> panel.step,
                        spends |-> Of(StakingToken, panel.amount)]
    <3>1. Request("stake", call)
      BY <2>3, StakingTerms, StakingEffects DEF Staking!HandleDeposit, Staking!p
    <3>2. AfterFailure(call) \/ KnownToCover(StakingToken, panel.amount)
      <4>1. panel.step # "confirmed" /\ panel.amount > 0 /\ ~Staking!NeedsApproval
        BY <2>3 DEF Staking!HandleDeposit, Staking!ActionOffered, Staking!PanelShown, Staking!p
      <4>2. panel.step = "failed" \/ KnownToCover(StakingToken, panel.amount)
        BY <4>1, StakingTerms DEF Staking!NeedsApproval, Staking!p
      <4>3. QED
        BY <4>2 DEF AfterFailure
    <3>3. CallOk(call) /\ Affordable(call)
      <4>1. call.grants = Nothing /\ call.spends = Of(StakingToken, panel.amount)
        OBVIOUS
      <4> HIDE DEF call
      <4>2. QED
        BY <2>1, <3>2, <4>1, SpendingOk
    <3>4. call.op # "approve"
      OBVIOUS
    <3>5. panel'.step = "signing"
      BY <2>3, StakingFacts DEF Staking!HandleDeposit, Staking!InPanel, Staking!p, StakePanels
    <3> HIDE DEF call
    <3>6. QED
      BY <3>1, <3>3, <3>4, <3>5
  <2>4. ASSUME NEW op \in {"withdraw", "claim"},
               Staking!Ask("stake", [op |-> op, grants |-> Staking!Nothing,
                                     spends |-> Staking!Nothing]),
               panel'.step = "signing"
        PROVE  \E step \in {"approving", "signing"} : \E call : Asked(call, step)
    <3> DEFINE call == [op |-> op, grants |-> Nothing, spends |-> Nothing]
    <3>1. Request("stake", call) /\ call.op # "approve"
      BY <2>4, StakingTerms, StakingEffects
    <3>2. CallOk(call) /\ Affordable(call)
      BY NothingMoves
    <3> HIDE DEF call
    <3>3. QED
      BY <2>4, <3>1, <3>2
  <2>5. CASE Staking!HandleWithdraw
    BY <2>4, <2>5, StakingFacts DEF Staking!HandleWithdraw, Staking!InPanel, Staking!p, StakePanels
  <2>6. CASE Staking!HandleClaim
    BY <2>4, <2>6, StakingFacts DEF Staking!HandleClaim, Staking!InPanel, Staking!p, StakePanels
  <2>7. QED
    BY <2>2, <2>3, <2>5, <2>6 DEF StakeAsks
<1>4. PICK call : Asked(call, step)
  BY <1>3
<1>5. PICK r : /\ r.form = "stake" /\ r.mount = mounts["stake"] /\ r.call = call
               /\ Asking("stake")' = Asking("stake") \cup {r}
  BY <1>4, AskView, StakingFacts
<1>6. /\ Announced("stake")' = Announced("stake")
      /\ txs' = txs /\ mounts' = mounts /\ page' = page
  BY <1>4, AskView, StakingFacts
<1>7. StepOf({"stake"})
  BY <1>4 DEF StepOf, AskStep
<1>8. HistoryKept
  BY <1>7, SessionKept, StakingFacts
<1>9. StakeTyped'
  BY <1>1, <1>2, <1>6, <1>8, StakeTypesStay, StakingFacts
<1>10. ASSUME ~dropped' PROVE StakeFollowed'
  <2>1. Asking("stake") = {} /\ Announced("stake") = {} /\ ~Refetching
        /\ panel.approveHash = NoHash
    BY <1>1, <1>10, StakeAtRest
  <2>2. Asking("stake")' = {r} /\ Announced("stake")' = {} /\ ~Refetching'
    BY <1>1, <1>5, <1>6, <2>1 DEF Refetching
  <2>3. QED
    BY <1>2, <1>3, <1>4, <1>5, <2>1, <2>2 DEF StakeFollowed, One, NoHash
<1>11. StakeOk'
  BY <1>1, <1>6, <1>10, StakingFacts DEF StakeOk
<1>12. QED
  BY <1>1, <1>6, <1>7, <1>9, <1>11 DEF StakeKeeps

LEMMA StakeSignedKeeps ==
  ASSUME IInv, NEW r \in Open("stake"), Staking!StakeSigned(r)
  PROVE  StakeKeeps
<1>1. Send(r, r.call) /\ r \in requests /\ r.form = "stake" /\ RequestOk(r, mounts)
  BY StakingEffects, StakingFacts DEF Staking!StakeSigned, Open, SessionOk
<1>2. /\ Asking("stake")' = Asking("stake") \ {r}
      /\ Announced("stake")' = Announced("stake") \cup {h \in {NewHash} : Current(r)}
      /\ NewHash \in Nat \ {0} /\ NewHash \notin DOMAIN txs
      /\ DOMAIN txs' = DOMAIN txs \cup {NewHash}
      /\ txs'[NewHash].form = "stake" /\ txs'[NewHash].call = r.call /\ ~txs'[NewHash].told
      /\ \A h \in DOMAIN txs : txs'[h] = txs[h]
      /\ mounts' = mounts /\ page' = page
  BY <1>1, SendView, StakingFacts
<1>3. StepOf({"stake"})
  BY <1>1 DEF StepOf, SendStep, RequestOk
<1>4. HistoryKept
  BY <1>3, SessionKept, StakingFacts
<1>5. /\ UNCHANGED <<dialog, fund, admin, pool, stakeRefetch, dropped>>
      /\ panel' = IF ~Current(r) THEN panel
                  ELSE IF r.call.op = "approve" THEN [panel EXCEPT !.approveHash = NewHash]
                  ELSE [panel EXCEPT !.step = "pending", !.hash = NewHash]
  BY StakingTerms DEF Staking!StakeSigned, Staking!InPanel, Staking!p
<1>6. /\ panel' \in StakePanels /\ panel'.ran = panel.ran
      /\ panel'.hash = IF Current(r) /\ r.call.op # "approve" THEN NewHash ELSE panel.hash
      /\ panel'.step = IF Current(r) /\ r.call.op # "approve" THEN "pending" ELSE panel.step
      /\ panel'.approveHash = IF Current(r) /\ r.call.op = "approve" THEN NewHash
                              ELSE panel.approveHash
  BY <1>2, <1>5, StakingFacts DEF StakePanels
<1>7. StakeTyped'
  BY <1>2, <1>4, <1>5, <1>6, StakeTypesStay, StakingFacts
<1>8. Refetching' <=> Refetching
  BY <1>2, <1>5 DEF Refetching
<1>9. CASE Current(r)
  <2>1. r \in Asking("stake")
    BY <1>1, <1>9 DEF Asking, Current
  <2>2. page = "staking"
    BY <2>1, StakingFacts DEF StakeOk, AtRest
  <2>3. ASSUME StakeFollowed PROVE StakeFollowed'
    <3>1. /\ Asking("stake")' = {} /\ panel.approveHash = NoHash /\ ~Refetching
          /\ panel.step = IF r.call.op = "approve" THEN "approving" ELSE "signing"
      BY <1>2, <2>1, <2>3 DEF StakeFollowed, One
    <3>2. Announced("stake") = {}
      BY <2>3, <3>1, StakingFacts DEF StakeFollowed, Announced
    <3>3. Announced("stake")' = {NewHash}
      BY <1>2, <1>9, <3>2
    <3>4. QED
      BY <1>2, <1>6, <1>8, <1>9, <3>1, <3>3 DEF StakeFollowed, One, NoHash
  <2>4. StakeOk'
    BY <1>2, <1>5, <2>2, <2>3, StakingFacts DEF StakeOk
  <2>5. QED
    BY <1>2, <1>3, <1>5, <1>7, <2>4 DEF StakeKeeps
<1>10. CASE ~Current(r)
  <2>1. Asking("stake")' = Asking("stake") /\ Announced("stake")' = Announced("stake")
    BY <1>2, <1>10 DEF Asking, Current
  <2>2. ASSUME StakeFollowed PROVE StakeFollowed'
    <3>1. Refetching => Succeeded(panel.approveHash)'
                        /\ txs'[panel.approveHash].toast # "pending"
      <4>1. panel' = panel
        BY <1>5, <1>10
      <4>2. Refetching => /\ panel.approveHash \in DOMAIN txs
                          /\ Succeeded(panel.approveHash)
                          /\ txs[panel.approveHash].toast # "pending"
        BY <2>2, StakingFacts DEF StakeFollowed, Succeeded
      <4>3. QED
        BY <1>2, <4>1, <4>2 DEF Succeeded, NoHash
    <3>2. \A h \in Announced("stake") : txs'[h] = txs[h]
      BY <1>2 DEF Announced
    <3>3. QED
      BY <1>2, <1>5, <1>8, <1>10, <2>1, <2>2, <3>1, <3>2 DEF StakeFollowed, One, NoHash
  <2>3. StakeOk'
    BY <1>2, <1>5, <1>8, <2>1, <2>2, StakingFacts DEF StakeOk, AtRest
  <2>4. QED
    BY <1>2, <1>3, <1>5, <1>7, <2>3 DEF StakeKeeps
<1>11. QED
  BY <1>9, <1>10

LEMMA StakeRejectedKeeps ==
  ASSUME IInv, NEW r \in Open("stake"), Staking!StakeRejected(r)
  PROVE  StakeKeeps
<1>1. Reject(r) /\ r \in requests /\ r.form = "stake"
  BY StakingEffects DEF Staking!StakeRejected, Open
<1>2. /\ Asking("stake")' = Asking("stake") \ {r}
      /\ Announced("stake")' = Announced("stake")
      /\ txs' = txs /\ mounts' = mounts /\ page' = page
  BY <1>1, RejectView
<1>3. StepOf({"stake"})
  BY <1>1 DEF StepOf, RejectStep
<1>4. HistoryKept
  BY <1>3, SessionKept, StakingFacts
<1>5. /\ UNCHANGED <<dialog, fund, admin, pool, stakeRefetch, dropped>>
      /\ panel' = IF Current(r) THEN [panel EXCEPT !.step = "failed"] ELSE panel
  BY StakingTerms DEF Staking!StakeRejected, Staking!InPanel, Staking!p
<1>6. /\ panel' \in StakePanels /\ panel'.ran = panel.ran /\ panel'.hash = panel.hash
      /\ panel'.approveHash = panel.approveHash
      /\ panel'.step = IF Current(r) THEN "failed" ELSE panel.step
  BY <1>5, StakingFacts DEF StakePanels
<1>7. StakeTyped'
  BY <1>2, <1>4, <1>5, <1>6, StakeTypesStay, StakingFacts
<1>8. Refetching' <=> Refetching
  BY <1>2, <1>5 DEF Refetching
<1>9. CASE Current(r)
  <2>1. r \in Asking("stake")
    BY <1>1, <1>9 DEF Asking, Current
  <2>2. page = "staking"
    BY <2>1, StakingFacts DEF StakeOk, AtRest
  <2>3. ASSUME StakeFollowed PROVE StakeFollowed'
    <3>1. /\ Asking("stake")' = {} /\ panel.approveHash = NoHash /\ ~Refetching
          /\ panel.step \in {"approving", "signing"}
      BY <1>2, <2>1, <2>3 DEF StakeFollowed, One
    <3>2. Announced("stake")' = {}
      BY <1>2, <2>3, <3>1, StakingFacts DEF StakeFollowed, Announced
    <3>3. QED
      BY <1>6, <1>8, <3>1, <3>2 DEF StakeFollowed, One, NoHash
  <2>4. StakeOk'
    BY <1>2, <1>5, <2>2, <2>3, StakingFacts DEF StakeOk
  <2>5. QED
    BY <1>2, <1>3, <1>5, <1>7, <2>4 DEF StakeKeeps
<1>10. CASE ~Current(r)
  <2>1. Asking("stake")' = Asking("stake")
    BY <1>2, <1>10 DEF Asking, Current
  <2>2. StakeFollowed => StakeFollowed'
    BY <1>2, <1>5, <1>8, <1>10, <2>1 DEF StakeFollowed, One, Succeeded, NoHash
  <2>3. StakeOk'
    BY <1>2, <1>5, <1>8, <2>1, <2>2, StakingFacts DEF StakeOk, AtRest
  <2>4. QED
    BY <1>2, <1>3, <1>5, <1>7, <2>3 DEF StakeKeeps
<1>11. QED
  BY <1>9, <1>10

LEMMA StakeReceiptsKeep ==
  ASSUME IInv, StakeReceipts
  PROVE  StakeKeeps
<1> DEFINE Told(h, kind) ==
             h # NoHash /\ Truthful(h, kind) /\ ToastClosing(h, kind, {})
<1>1. /\ page = "staking" /\ UNCHANGED <<dialog, fund, admin, pool, dropped>>
  BY DEF StakeReceipts, Staking!ApproveMined, Staking!ApproveReverted, Staking!StakeMined,
         Staking!InPanel
<1>2. PICK h \in {panel.hash, panel.approveHash}, kind \in {"success", "error"} :
        /\ Told(h, kind)
        /\ panel' \in StakePanels /\ panel'.hash = panel.hash
        /\ \/ /\ h = panel.approveHash /\ Succeeded(h)
              /\ panel'.approveHash = h /\ panel'.ran = h /\ panel'.step = panel.step
              /\ stakeRefetch' = stakeRefetch \cup {mounts["stake"]}
           \/ /\ h = panel.approveHash /\ Reverted(h)
              /\ panel'.approveHash = NoHash /\ panel'.ran = panel.ran /\ panel'.step = "failed"
              /\ stakeRefetch' = stakeRefetch
           \/ /\ h = panel.hash /\ panel.step = "pending"
              /\ panel'.approveHash = panel.approveHash /\ panel'.ran = panel.ran
              /\ panel'.step \in {"confirmed", "failed"}
              /\ stakeRefetch' = stakeRefetch
  <2>1. CASE Staking!ApproveMined
    <3>1. /\ Told(panel.approveHash, "success") /\ Succeeded(panel.approveHash)
          /\ panel' = [panel EXCEPT !.ran = panel.approveHash]
          /\ stakeRefetch' = stakeRefetch \cup {mounts["stake"]}
      BY <2>1, StakingTerms, StakingEffects
         DEF Staking!ApproveMined, Staking!InPanel, Staking!p, Truthful, Succeeded
    <3>2. panel' \in StakePanels /\ panel'.hash = panel.hash /\ panel'.step = panel.step
          /\ panel'.approveHash = panel.approveHash /\ panel'.ran = panel.approveHash
      BY <3>1, StakingFacts DEF StakePanels
    <3>3. QED
      BY <3>1, <3>2
  <2>2. CASE Staking!ApproveReverted
    <3>1. /\ Told(panel.approveHash, "error") /\ Reverted(panel.approveHash)
          /\ panel' = [panel EXCEPT !.approveHash = NoHash, !.step = "failed"]
          /\ stakeRefetch' = stakeRefetch
      BY <2>2, StakingTerms, StakingEffects
         DEF Staking!ApproveReverted, Staking!InPanel, Staking!p, Truthful, Reverted
    <3>2. panel' \in StakePanels /\ panel'.hash = panel.hash /\ panel'.step = "failed"
          /\ panel'.approveHash = NoHash /\ panel'.ran = panel.ran
      BY <3>1, StakingFacts DEF StakePanels, NoHash
    <3>3. QED
      BY <3>1, <3>2
  <2>3. CASE Staking!StakeMined
    <3>1. PICK kind \in {"success", "error"}, step \in {"confirmed", "failed"} :
            /\ Told(panel.hash, kind) /\ panel.step = "pending"
            /\ panel' = [panel EXCEPT !.step = step]
            /\ stakeRefetch' = stakeRefetch
      BY <2>3, StakingTerms, StakingEffects
         DEF Staking!StakeMined, Staking!InPanel, Staking!p, Truthful, Succeeded, Reverted
    <3>2. panel' \in StakePanels /\ panel'.hash = panel.hash /\ panel'.step = step
          /\ panel'.approveHash = panel.approveHash /\ panel'.ran = panel.ran
      BY <3>1, StakingFacts DEF StakePanels
    <3>3. QED
      BY <3>1, <3>2
  <2>4. QED
    BY <2>1, <2>2, <2>3 DEF StakeReceipts
<1>3. h \in DOMAIN txs /\ txs[h].form = "stake"
  BY <1>2, StakingFacts
<1>4. /\ Asking("stake")' = Asking("stake")
      /\ Announced("stake")' = Announced("stake") \ {h}
      /\ DOMAIN txs' = DOMAIN txs /\ txs'[h].toast = kind /\ txs'[h].status = txs[h].status
      /\ txs'[h].form = txs[h].form /\ txs'[h].call = txs[h].call
      /\ \A g \in DOMAIN txs : g # h => txs'[g] = txs[g]
      /\ mounts' = mounts /\ page' = page
  BY <1>2, <1>3, ToastView, StakingFacts
<1>5. StepOf({"stake"})
  BY <1>2, <1>3 DEF StepOf, ToastStep
<1>6. HistoryKept
  BY <1>5, SessionKept, StakingFacts
<1>7. stakeRefetch' \subseteq Nat
  BY <1>2, StakingFacts
<1>8. StakeTyped'
  <2>1. /\ panel' \in StakePanels /\ panel'.hash = panel.hash
        /\ panel'.approveHash \in {NoHash, panel.approveHash}
        /\ panel'.ran \in {panel.ran, panel.approveHash}
        /\ dropped' \in BOOLEAN /\ pool' = pool
    BY <1>1, <1>2, StakingFacts
  <2>2. h \in DOMAIN txs' => txs'[h].form = "stake"
    BY <1>3, <1>4
  <2>3. QED
    BY <1>6, <1>7, <2>1, <2>2, StakeTypesStay
<1>9. \A m \in stakeRefetch' : m <= mounts'["stake"]
  BY <1>2, <1>4, StakingFacts DEF StakeOk
<1>10. ASSUME ~dropped' PROVE StakeFollowed'
  <2>1. StakeFollowed
    BY <1>1, <1>10, StakingFacts DEF StakeOk
  <2>2. Asking("stake") = {} /\ Announced("stake")' = {}
    BY <1>2, <1>4, <2>1, StakingFacts DEF StakeFollowed, Announced, NoHash
  <2>3. CASE /\ h = panel.approveHash /\ Succeeded(h)
             /\ panel'.approveHash = h /\ panel'.ran = h /\ panel'.step = panel.step
    <3>1. panel'.step = "approving"
      BY <1>2, <2>1, <2>3 DEF StakeFollowed
    <3>2. Succeeded(panel.approveHash)' /\ txs'[panel'.approveHash].toast # "pending"
      BY <1>2, <1>4, <2>3 DEF Succeeded, NoHash
    <3>3. QED
      BY <1>4, <2>2, <2>3, <3>1, <3>2 DEF StakeFollowed, One, NoHash
  <2>4. CASE h = panel.approveHash /\ Reverted(h) /\ panel'.approveHash = NoHash
             /\ stakeRefetch' = stakeRefetch
    <3>1. ~Refetching
      BY <2>1, <2>4 DEF StakeFollowed, Succeeded, Reverted
    <3>2. ~Refetching'
      BY <1>4, <2>4, <3>1 DEF Refetching
    <3>3. QED
      BY <1>4, <2>2, <2>4, <3>2 DEF StakeFollowed, One, NoHash
  <2>5. CASE /\ h = panel.hash /\ panel.step = "pending"
             /\ panel'.approveHash = panel.approveHash /\ stakeRefetch' = stakeRefetch
    <3>1. panel.approveHash = NoHash
      BY <2>1, <2>5 DEF StakeFollowed
    <3>2. ~Refetching
      BY <2>1, <3>1 DEF StakeFollowed, Succeeded
    <3>3. ~Refetching'
      BY <1>4, <2>5, <3>2 DEF Refetching
    <3>4. QED
      BY <1>4, <2>2, <2>5, <3>1, <3>3 DEF StakeFollowed, One, NoHash
  <2>6. QED
    BY <1>2, <2>3, <2>4, <2>5
<1>11. StakeOk'
  BY <1>1, <1>4, <1>9, <1>10 DEF StakeOk
<1>12. QED
  BY <1>1, <1>4, <1>5, <1>8, <1>11 DEF StakeKeeps

LEMMA StakeRefetchKeeps ==
  ASSUME IInv, NEW m \in stakeRefetch, Staking!RefetchDone(m)
  PROVE  StakeKeeps
<1>1. /\ UNCHANGED <<dialog, fund, admin, pool, dropped>>
      /\ stakeRefetch' = stakeRefetch \ {m}
      /\ panel' = IF m = mounts["stake"] THEN [panel EXCEPT !.approveHash = NoHash, !.step = "idle"]
                  ELSE panel
  BY StakingTerms DEF Staking!RefetchDone, Staking!InPanel, Staking!p
<1>2. StakingToken \in Tokens /\ (ReadAllowance(StakingToken) \/ session' = session)
  BY StakingEffects, FrontendAssumption DEF Staking!RefetchDone
<1>3. requests' = requests /\ txs' = txs /\ mounts' = mounts /\ page' = page /\ StepOf({"stake"})
  BY <1>2 DEF ReadAllowance, ReadStep, StepOf, session
<1>4. HistoryKept
  BY <1>3, SessionKept, StakingFacts
<1>5. /\ panel' \in StakePanels /\ panel'.ran = panel.ran /\ panel'.hash = panel.hash
      /\ panel'.approveHash = IF m = mounts["stake"] THEN NoHash ELSE panel.approveHash
      /\ panel'.step = IF m = mounts["stake"] THEN "idle" ELSE panel.step
  BY <1>1, StakingFacts DEF StakePanels, NoHash
<1>6. stakeRefetch' \subseteq Nat
  BY <1>1, StakingFacts
<1>7. StakeTyped'
  BY <1>1, <1>3, <1>4, <1>5, <1>6, StakeTypesStay, StakingFacts
<1>8. Asking("stake")' = Asking("stake") /\ Announced("stake")' = Announced("stake")
  BY <1>3 DEF Asking, Announced
<1>9. Refetching' <=> (Refetching /\ m # mounts["stake"])
  BY <1>1, <1>3 DEF Refetching
<1>10. ASSUME StakeFollowed PROVE StakeFollowed'
  <2>1. CASE m = mounts["stake"]
    <3>1. Refetching
      BY <2>1 DEF Refetching
    <3>2. /\ Asking("stake") = {} /\ Succeeded(panel.approveHash)
          /\ txs[panel.approveHash].toast # "pending" /\ panel.step = "approving"
      BY <1>10, <3>1 DEF StakeFollowed, Succeeded
    <3>3. Announced("stake") = {}
      BY <1>10, <3>2 DEF StakeFollowed, Announced
    <3>4. QED
      BY <1>5, <1>8, <1>9, <2>1, <3>2, <3>3 DEF StakeFollowed, One, NoHash
  <2>2. CASE m # mounts["stake"]
    BY <1>1, <1>3, <1>8, <1>9, <1>10, <2>2 DEF StakeFollowed, One, Succeeded, NoHash
  <2>3. QED
    BY <2>1, <2>2
<1>11. StakeOk'
  BY <1>1, <1>3, <1>8, <1>9, <1>10, StakingFacts DEF StakeOk, AtRest
<1>12. QED
  BY <1>1, <1>3, <1>7, <1>11 DEF StakeKeeps

LEMMA StakeStepsKeep ==
  ASSUME IInv, StakeStep
  PROVE  StakeKeeps
BY StakeEditsKeep, StakeAsksKeep, StakeReceiptsKeep, StakeRefetchKeeps, StakeSignedKeeps,
   StakeRejectedKeeps DEF StakeStep

-----------------------------------------------------------------------------
(* The fund modal. *)
FundKeeps ==
  /\ StepOf({"fund"}) /\ page' = page
  /\ UNCHANGED <<pool, panel, stakeRefetch, dialog, admin, dropped>>
  /\ FundTyped' /\ FundOk'

LEMMA FundEditKeeps ==
  ASSUME IInv, Staking!SetFundAmount
  PROVE  FundKeeps
<1>1. PICK n \in Amounts : fund' = [fund EXCEPT !.amount = n]
  BY DEF Staking!SetFundAmount, Staking!InDialog, Staking!f
<1>2. /\ Editing /\ UNCHANGED <<pool, panel, stakeRefetch, dialog, admin, dropped>>
  BY StakingEffects DEF Staking!SetFundAmount, Staking!InDialog
<1>3. /\ requests' = requests /\ txs' = txs /\ mounts' = mounts /\ page' = page
      /\ StepOf({"fund"})
  BY <1>2 DEF Editing, StepOf
<1>4. /\ fund' \in Funds /\ fund'.step = fund.step /\ fund'.hash = fund.hash
      /\ fund'.approveHash = fund.approveHash
  BY <1>1, StakingFacts DEF Funds
<1>5. FundTyped'
  BY <1>3, <1>4, StakingFacts DEF FundTyped, IsOf, NoHash
<1>6. Asking("fund")' = Asking("fund") /\ Announced("fund")' = Announced("fund")
  BY <1>3 DEF Asking, Announced
<1>7. FundOk'
  BY <1>2, <1>3, <1>4, <1>6, StakingFacts DEF FundOk, AtRest, One
<1>8. QED
  BY <1>2, <1>3, <1>5, <1>7 DEF FundKeeps

LEMMA FundAskKeeps ==
  ASSUME IInv, Staking!HandleTransfer
  PROVE  FundKeeps
<1> DEFINE Asked(call, step) ==
             /\ Request("fund", call) /\ CallOk(call) /\ Affordable(call)
             /\ call.op = "approve" <=> step = "approving"
             /\ fund' = [fund EXCEPT !.step = step]
<1>0. PICK step \in {"approving", "signing"} : \E call : Asked(call, step)
  <2>1. RewardToken \in Tokens /\ fund.amount \in Nat
    BY FrontendAssumption, SessionAssumption, StakingFacts DEF Funds
  <2>2. CASE Staking!FundNeedsApproval
    <3> DEFINE call == [op |-> "approve", grants |-> Of(RewardToken, fund.amount),
                        spends |-> Nothing]
    <3>1. Request("fund", call) /\ fund' = [fund EXCEPT !.step = "approving"]
      BY <2>2, StakingTerms, StakingEffects DEF Staking!HandleTransfer, Staking!InDialog, Staking!f
    <3>2. CallOk(call) /\ Affordable(call) /\ call.op = "approve"
      BY <2>1, ApprovalOk
    <3> HIDE DEF call
    <3>3. QED
      BY <3>1, <3>2
  <2>3. CASE ~Staking!FundNeedsApproval
    <3> DEFINE call == [op |-> "transfer", grants |-> Nothing, spends |-> Nothing]
    <3>1. Request("fund", call) /\ fund' = [fund EXCEPT !.step = "signing"]
      BY <2>3, StakingTerms, StakingEffects DEF Staking!HandleTransfer, Staking!InDialog, Staking!f
    <3>2. CallOk(call) /\ Affordable(call) /\ call.op # "approve"
      BY NothingMoves
    <3> HIDE DEF call
    <3>3. QED
      BY <3>1, <3>2
  <2>4. QED
    BY <2>2, <2>3
<1>1. PICK call : Asked(call, step)
  BY <1>0
<1>2. /\ dialog = "fund" /\ fund.step \notin {"approving", "signing", "confirming"}
      /\ UNCHANGED <<pool, panel, stakeRefetch, dialog, admin, dropped>>
  BY DEF Staking!HandleTransfer, Staking!FundOffered, Staking!FundBusy, Staking!FundFormShown,
         Staking!DialogShown, Staking!InDialog, Staking!f
<1>3. PICK r : r.call = call /\ Asking("fund")' = Asking("fund") \cup {r}
  BY <1>1, AskView, StakingFacts
<1>4. Announced("fund")' = Announced("fund") /\ txs' = txs /\ page' = page
  BY <1>1, AskView, StakingFacts
<1>5. StepOf({"fund"})
  BY <1>1 DEF StepOf, AskStep
<1>6. /\ fund' \in Funds /\ fund'.step = step /\ fund'.hash = fund.hash
      /\ fund'.approveHash = fund.approveHash
  BY <1>1, StakingFacts DEF Funds
<1>7. FundTyped'
  BY <1>4, <1>6, StakingFacts DEF FundTyped, IsOf, NoHash
<1>8. Asking("fund") = {} /\ \A h \in Announced("fund") : txs[h].call.op = "approve"
  BY <1>2, StakingFacts DEF FundOk
<1>9. FundOk'
  BY <1>0, <1>1, <1>2, <1>3, <1>4, <1>6, <1>8 DEF FundOk, One
<1>10. QED
  BY <1>2, <1>4, <1>5, <1>7, <1>9 DEF FundKeeps

LEMMA FundSignedKeeps ==
  ASSUME IInv, NEW r \in Open("fund"), Staking!FundSigned(r)
  PROVE  FundKeeps
<1>1. Send(r, r.call) /\ r \in requests /\ r.form = "fund" /\ RequestOk(r, mounts)
  BY StakingEffects, StakingFacts DEF Staking!FundSigned, Open, SessionOk
<1>2. /\ Asking("fund")' = Asking("fund") \ {r}
      /\ Announced("fund")' = Announced("fund") \cup {h \in {NewHash} : Current(r)}
      /\ NewHash \in Nat \ {0} /\ NewHash \notin DOMAIN txs
      /\ DOMAIN txs' = DOMAIN txs \cup {NewHash}
      /\ txs'[NewHash].form = "fund" /\ txs'[NewHash].call = r.call
      /\ \A h \in DOMAIN txs : txs'[h] = txs[h]
      /\ page' = page
  BY <1>1, SendView, StakingFacts
<1>3. StepOf({"fund"})
  BY <1>1 DEF StepOf, SendStep, RequestOk
<1>4. /\ UNCHANGED <<pool, panel, stakeRefetch, dialog, admin, dropped>>
      /\ fund' = IF ~Current(r) THEN fund
                 ELSE IF r.call.op = "approve" THEN [fund EXCEPT !.approveHash = NewHash]
                 ELSE [fund EXCEPT !.step = "confirming", !.hash = NewHash]
  BY StakingTerms DEF Staking!FundSigned, Staking!InDialog, Staking!f
<1>5. /\ fund' \in Funds
      /\ fund'.hash = IF Current(r) /\ r.call.op # "approve" THEN NewHash ELSE fund.hash
      /\ fund'.step = IF Current(r) /\ r.call.op # "approve" THEN "confirming" ELSE fund.step
      /\ fund'.approveHash \in {fund.approveHash, NewHash}
  BY <1>2, <1>4, StakingFacts DEF Funds
<1>6. FundTyped'
  BY <1>2, <1>5, StakingFacts DEF FundTyped, IsOf, NoHash
<1>7. \A h \in Announced("fund") : h \in DOMAIN txs
  BY DEF Announced
<1>8. CASE Current(r)
  <2>1. r \in Asking("fund")
    BY <1>1, <1>8 DEF Asking, Current
  <2>2. /\ dialog = "fund" /\ Asking("fund")' = {}
        /\ fund.step = IF r.call.op = "approve" THEN "approving" ELSE "signing"
    BY <1>2, <2>1, StakingFacts DEF FundOk, AtRest, One
  <2>3. \A h \in Announced("fund") : txs[h].call.op = "approve"
    BY <2>2, StakingFacts DEF FundOk
  <2>4. FundOk'
    BY <1>2, <1>4, <1>5, <1>7, <1>8, <2>2, <2>3 DEF FundOk, One
  <2>5. QED
    BY <1>2, <1>3, <1>4, <1>6, <2>4 DEF FundKeeps
<1>9. CASE ~Current(r)
  <2>1. Asking("fund")' = Asking("fund") /\ Announced("fund")' = Announced("fund")
    BY <1>2, <1>9 DEF Asking, Current
  <2>2. FundOk'
    BY <1>2, <1>4, <1>7, <1>9, <2>1, StakingFacts DEF FundOk, AtRest, One
  <2>3. QED
    BY <1>2, <1>3, <1>4, <1>6, <2>2 DEF FundKeeps
<1>10. QED
  BY <1>8, <1>9

LEMMA FundRejectedKeeps ==
  ASSUME IInv, NEW r \in Open("fund"), Staking!FundRejected(r)
  PROVE  FundKeeps
<1>1. Reject(r) /\ r \in requests /\ r.form = "fund"
  BY StakingEffects DEF Staking!FundRejected, Open
<1>2. /\ Asking("fund")' = Asking("fund") \ {r}
      /\ Announced("fund")' = Announced("fund") /\ txs' = txs /\ page' = page
  BY <1>1, RejectView
<1>3. StepOf({"fund"})
  BY <1>1 DEF StepOf, RejectStep
<1>4. /\ UNCHANGED <<pool, panel, stakeRefetch, dialog, admin, dropped>>
      /\ fund' = IF Current(r) THEN [fund EXCEPT !.step = "idle"] ELSE fund
  BY StakingTerms DEF Staking!FundRejected, Staking!InDialog, Staking!f
<1>5. /\ fund' \in Funds /\ fund'.hash = fund.hash /\ fund'.approveHash = fund.approveHash
  BY <1>4, StakingFacts DEF Funds
<1>6. FundTyped'
  BY <1>2, <1>5, StakingFacts DEF FundTyped, IsOf, NoHash
<1>7. CASE Current(r)
  <2>1. r \in Asking("fund")
    BY <1>1, <1>7 DEF Asking, Current
  <2>2. /\ dialog = "fund" /\ Asking("fund")' = {} /\ fund.step \in {"approving", "signing"}
    BY <1>2, <2>1, StakingFacts DEF FundOk, AtRest, One
  <2>3. \A h \in Announced("fund") : txs[h].call.op = "approve"
    BY <2>2, StakingFacts DEF FundOk
  <2>4. FundOk'
    BY <1>2, <1>4, <2>2, <2>3 DEF FundOk, One
  <2>5. QED
    BY <1>2, <1>3, <1>4, <1>6, <2>4 DEF FundKeeps
<1>8. CASE ~Current(r)
  <2>1. Asking("fund")' = Asking("fund")
    BY <1>2, <1>8 DEF Asking, Current
  <2>2. FundOk'
    BY <1>2, <1>4, <1>8, <2>1, StakingFacts DEF FundOk, AtRest, One
  <2>3. QED
    BY <1>2, <1>3, <1>4, <1>6, <2>2 DEF FundKeeps
<1>9. QED
  BY <1>7, <1>8

LEMMA FundMinedKeeps ==
  ASSUME IInv, Staking!FundMined
  PROVE  FundKeeps
<1> DEFINE h == fund.hash
<1>1. PICK kind \in {"success", "error"}, step \in {"done", "idle"} :
        /\ h # NoHash /\ Truthful(h, kind) /\ ToastClosing(h, kind, {})
        /\ fund' = [fund EXCEPT !.step = step]
  BY StakingTerms, StakingEffects
     DEF Staking!FundMined, Staking!InDialog, Staking!f, Truthful, Succeeded, Reverted
<1>2. /\ dialog = "fund" /\ fund.step = "confirming"
      /\ UNCHANGED <<pool, panel, stakeRefetch, dialog, admin, dropped>>
  BY DEF Staking!FundMined, Staking!InDialog, Staking!f
<1>3. h \in DOMAIN txs /\ txs[h].form = "fund"
  BY <1>1, StakingFacts
<1>4. fund' \in Funds /\ fund'.hash = h /\ fund'.approveHash = fund.approveHash
  BY <1>1, StakingFacts DEF Funds
<1>5. Asking("fund") = {} /\ \A g \in Announced("fund") : txs[g].call.op # "approve" => g = h
  BY <1>2, StakingFacts DEF FundOk
<1>6. /\ fund.approveHash \in DOMAIN txs => txs[fund.approveHash].form = "fund"
      /\ fund.approveHash = NoHash \/ fund.approveHash \in DOMAIN txs
  BY StakingFacts DEF FundTyped, IsOf
<1> HIDE DEF h
<1>7. /\ Asking("fund")' = Asking("fund") /\ Announced("fund")' = Announced("fund") \ {h}
      /\ DOMAIN txs' = DOMAIN txs /\ txs'[h].form = txs[h].form
      /\ \A g \in DOMAIN txs : g # h => txs'[g] = txs[g]
      /\ page' = page
  BY <1>1, <1>3, ToastView, StakingFacts
<1>8. StepOf({"fund"})
  BY <1>1, <1>3 DEF StepOf, ToastStep
<1>9. FundTyped'
  BY <1>3, <1>4, <1>6, <1>7 DEF FundTyped, IsOf, NoHash
<1>10. \A g \in Announced("fund")' : txs'[g] = txs[g] /\ txs[g].call.op = "approve"
  BY <1>5, <1>7 DEF Announced
<1>11. FundOk'
  BY <1>2, <1>5, <1>7, <1>10 DEF FundOk, One
<1>12. QED
  BY <1>2, <1>7, <1>8, <1>9, <1>11 DEF FundKeeps

LEMMA FundStepsKeep ==
  ASSUME IInv, FundStep
  PROVE  FundKeeps
BY FundEditKeeps, FundAskKeeps, FundSignedKeeps, FundRejectedKeeps, FundMinedKeeps DEF FundStep

-----------------------------------------------------------------------------
(* The two modals that submit one thing at a time. *)
AdminForms == {"manage", "addPool"}
AdminKeeps ==
  /\ StepOf(AdminForms) /\ page' = page
  /\ UNCHANGED <<pool, panel, stakeRefetch, dialog, fund, dropped>>
  /\ AdminTyped' /\ AdminOk("manage")' /\ AdminOk("addPool")'

LEMMA AdminTypedStays ==
  ASSUME IInv, HistoryKept, admin' = admin
  PROVE  AdminTyped'
BY StakingFacts DEF AdminTyped, IsOf, NoHash, HistoryKept, TxKept

LEMMA AdminUndisturbed ==
  ASSUME IInv, HistoryKept, NEW form \in AdminForms, Same(form), dialog' = dialog,
         dialog # form \/ admin' = admin
  PROVE  AdminOk(form)'
<1>1. /\ Asking(form)' = Asking(form) /\ Announced(form)' = Announced(form)
      /\ AtRest(form)' <=> AtRest(form)
  BY SameViews, StakingFacts
<1>2. AdminOk(form)
  BY StakingFacts DEF AdminForms
<1>3. CASE dialog # form
  BY <1>1, <1>2, <1>3 DEF AdminOk
<1>4. CASE admin' = admin
  <2>1. ~Waiting(admin.hash) => ~Waiting(admin.hash)'
    BY <1>4, StakingFacts DEF Waiting, HistoryKept, TxKept, NoHash
  <2>2. \A h \in Announced(form) : txs'[h].told = txs[h].told
    BY DEF Announced, Same
  <2>3. QED
    BY <1>1, <1>2, <1>4, <2>1, <2>2 DEF AdminOk, One
<1>5. QED
  BY <1>3, <1>4

LEMMA SubmitKeeps ==
  ASSUME IInv, NEW op \in {"pause", "rate", "cap", "add"},
         dialog \in AdminForms, Staking!AdminFree, Staking!Submit(op)
  PROVE  AdminKeeps
<1>1. PICK call : /\ Request(dialog, call) /\ call.op = op
                  /\ call.grants = Nothing /\ call.spends = Nothing
  BY StakingTerms, StakingEffects DEF Staking!Submit
<1>2. /\ admin' = [admin EXCEPT !.active = op] /\ admin.active = "none" /\ ~Waiting(admin.hash)
      /\ UNCHANGED <<pool, panel, stakeRefetch, dialog, fund, dropped>>
  BY StakingTerms DEF Staking!Submit, Staking!InDialog, Staking!f, Staking!AdminFree
<1>3. dialog \in Forms /\ AdminOk(dialog)
  BY StakingFacts DEF AdminForms
<1>4. PICK r : r.call = call /\ Asking(dialog)' = Asking(dialog) \cup {r}
  <2>1. PICK r : /\ r.call = call /\ requests' = requests \cup {r}
                 /\ r.form = dialog /\ r.mount = mounts[dialog] /\ mounts' = mounts
    BY <1>1, <1>3, AskView, StakingFacts
  <2>2. QED
    BY <1>2, <2>1 DEF Asking
<1>5. txs' = txs /\ mounts' = mounts /\ page' = page
  BY <1>1 DEF Request
<1>6. Announced(dialog)' = Announced(dialog)
  BY <1>2, <1>5 DEF Announced
<1>7. StepOf({dialog})
  BY <1>1, NothingMoves DEF StepOf, AskStep
<1>8. HistoryKept /\ \A form \in AdminForms \ {dialog} : Same(form)
  BY <1>3, <1>7, SessionKept, OthersAreSame, StakingFacts DEF AdminForms
<1>9. admin' \in Admins /\ admin'.active = op /\ admin'.hash = admin.hash
  BY <1>2, StakingFacts DEF Admins
<1>10. AdminTyped'
  BY <1>5, <1>9, StakingFacts DEF AdminTyped, IsOf, NoHash
<1>11. Asking(dialog) = {} /\ Announced(dialog) = {}
  BY <1>2, <1>3, StakingFacts DEF AdminOk, Announced, Waiting
<1>12. Waiting(admin.hash)' <=> Waiting(admin.hash)
  BY <1>5, <1>9 DEF Waiting, NoHash
<1>13. AdminOk(dialog)'
  BY <1>1, <1>2, <1>4, <1>6, <1>9, <1>11, <1>12 DEF AdminOk, One
<1>14. \A form \in AdminForms : AdminOk(form)'
  <2>1. ASSUME NEW form \in AdminForms, form # dialog PROVE AdminOk(form)'
    BY <1>2, <1>8, <2>1, AdminUndisturbed
  <2>2. QED
    BY <1>2, <1>13, <2>1
<1>15. StepOf(AdminForms)
  BY <1>7, StepOfMore
<1>16. QED
  BY <1>2, <1>5, <1>10, <1>14, <1>15 DEF AdminKeeps, AdminForms

LEMMA ResumeKeeps ==
  ASSUME IInv, Staking!ResumeRewards
  PROVE  AdminKeeps
<1>1. /\ session' = session /\ dialog = "manage" /\ admin.active = "none"
      /\ UNCHANGED <<pool, panel, stakeRefetch, dialog, fund, dropped>>
      /\ admin' = [admin EXCEPT !.active = "resume"]
  BY StakingEffects
     DEF Staking!ResumeRewards, Staking!ManageOffered, Staking!DialogShown, Staking!AdminFree,
         Staking!InDialog, Staking!f
<1>2. requests' = requests /\ txs' = txs /\ mounts' = mounts /\ page' = page
      /\ StepOf(AdminForms)
  BY <1>1 DEF session, StepOf
<1>3. admin' \in Admins /\ admin'.hash = admin.hash
  BY <1>1, StakingFacts DEF Admins
<1>4. AdminTyped'
  BY <1>2, <1>3, StakingFacts DEF AdminTyped, IsOf, NoHash
<1>5. /\ Asking("manage")' = Asking("manage") /\ Announced("manage")' = Announced("manage")
      /\ AtRest("addPool")' <=> AtRest("addPool")
  BY <1>2 DEF Asking, Announced, AtRest
<1>6. Asking("manage") = {}
  BY <1>1, StakingFacts DEF AdminOk
<1>7. AdminOk("manage")' /\ AdminOk("addPool")'
  BY <1>1, <1>2, <1>3, <1>5, <1>6, StakingFacts DEF AdminOk, One
<1>8. QED
  BY <1>1, <1>2, <1>4, <1>7 DEF AdminKeeps

(* The wallet's answer, whichever it is. *)
LEMMA AdminAnswers ==
  ASSUME IInv, NEW r \in Open("manage") \cup Open("addPool"), Staking!AdminAnswered(r)
  PROVE  /\ UNCHANGED <<pool, panel, stakeRefetch, dialog, fund, dropped>>
         /\ admin' \in Admins /\ (~Current(r) => admin' = admin)
         /\ \/ Send(r, r.call) /\ admin'.hash = IF Current(r) THEN NewHash ELSE admin.hash
            \/ Reject(r) /\ admin'.hash = admin.hash
<1> DEFINE over(a) == IF r.call.op = "add" THEN [a EXCEPT !.active = "none"] ELSE a
<1>1. \/ /\ Send(r, r.call)
         /\ Staking!InDialog(Staking!f, IF Current(r) THEN over([admin EXCEPT !.hash = NewHash])
                                        ELSE admin)
      \/ /\ Reject(r)
         /\ Staking!InDialog(Staking!f, IF Current(r) THEN over(admin) ELSE admin)
  BY StakingTerms, StakingEffects DEF Staking!AdminAnswered
<1>2. dialog' = dialog
  BY DEF Staking!AdminAnswered
<1>3. ASSUME NEW a \in Admins PROVE over(a) \in Admins /\ over(a).hash = a.hash
  BY DEF Admins
<1>4. admin \in Admins
  BY StakingFacts
<1> HIDE DEF over
<1>5. CASE /\ Send(r, r.call)
           /\ Staking!InDialog(Staking!f, IF Current(r) THEN over([admin EXCEPT !.hash = NewHash])
                                          ELSE admin)
  <2>1. NewHash \in Nat
    BY <1>5, SendIs, StakingFacts
  <2>2. [admin EXCEPT !.hash = NewHash] \in Admins
        /\ [admin EXCEPT !.hash = NewHash].hash = NewHash
    BY <1>4, <2>1 DEF Admins
  <2>3. over([admin EXCEPT !.hash = NewHash]) \in Admins
        /\ over([admin EXCEPT !.hash = NewHash]).hash = NewHash
    BY <1>3, <2>2
  <2>4. QED
    BY <1>2, <1>4, <1>5, <2>3 DEF Staking!InDialog, Staking!f
<1>6. CASE /\ Reject(r)
           /\ Staking!InDialog(Staking!f, IF Current(r) THEN over(admin) ELSE admin)
  BY <1>2, <1>3, <1>4, <1>6 DEF Staking!InDialog, Staking!f
<1>7. QED
  BY <1>1, <1>5, <1>6

LEMMA AdminAnsweredKeeps ==
  ASSUME IInv, NEW r \in Open("manage") \cup Open("addPool"), Staking!AdminAnswered(r)
  PROVE  AdminKeeps
<1> DEFINE form == r.form
<1>1. /\ r \in requests /\ form \in AdminForms /\ form \in Forms /\ RequestOk(r, mounts)
      /\ r.form = form
  BY StakingFacts DEF Open, AdminForms, SessionOk
<1>2. /\ UNCHANGED <<pool, panel, stakeRefetch, dialog, fund, dropped>>
      /\ admin' \in Admins /\ (~Current(r) => admin' = admin)
      /\ \/ Send(r, r.call) /\ admin'.hash = IF Current(r) THEN NewHash ELSE admin.hash
         \/ Reject(r) /\ admin'.hash = admin.hash
  BY AdminAnswers
<1>3. AdminOk(form) /\ dialog' = dialog
  BY <1>1, <1>2, StakingFacts DEF AdminForms
<1> HIDE DEF form
<1>4. Current(r) => dialog = form /\ Asking(form) = {r} /\ Announced(form) = {}
  <2>1. SUFFICES ASSUME Current(r) PROVE dialog = form /\ Asking(form) = {r} /\ Announced(form) = {}
    OBVIOUS
  <2>2. r \in Asking(form)
    BY <1>1, <2>1 DEF Asking, Current
  <2>3. dialog = form /\ Asking(form) = {r} /\ ~Waiting(admin.hash)
    BY <1>3, <2>2 DEF AdminOk, AtRest, One
  <2>4. Announced(form) = {}
    BY <1>3, <2>3, StakingFacts DEF AdminOk, Announced, Waiting
  <2>5. QED
    BY <2>3, <2>4
<1>5. /\ StepOf({form}) /\ page' = page /\ AdminTyped' /\ AdminOk(form)'
  <2>1. CASE Send(r, r.call) /\ admin'.hash = IF Current(r) THEN NewHash ELSE admin.hash
    <3>1. /\ Asking(form)' = Asking(form) \ {r}
          /\ Announced(form)' = Announced(form) \cup {h \in {NewHash} : Current(r)}
          /\ NewHash \in Nat \ {0} /\ NewHash \notin DOMAIN txs
          /\ DOMAIN txs' = DOMAIN txs \cup {NewHash}
          /\ txs'[NewHash].form = form /\ ~txs'[NewHash].told
          /\ \A h \in DOMAIN txs : txs'[h] = txs[h]
          /\ page' = page
      BY <1>1, <2>1, SendView, StakingFacts
    <3>2. StepOf({form})
      BY <1>1, <2>1 DEF StepOf, SendStep, RequestOk
    <3>3. AdminTyped'
      BY <1>1, <1>2, <2>1, <3>1, StakingFacts DEF AdminTyped, IsOf, NoHash, AdminForms
    <3>4. CASE Current(r)
      <4>1. Asking(form)' = {} /\ Announced(form)' = {NewHash}
        BY <1>4, <3>1, <3>4
      <4>2. AdminOk(form)'
        BY <1>2, <1>3, <1>4, <2>1, <3>1, <3>4, <4>1 DEF AdminOk, One
      <4>3. QED
        BY <3>1, <3>2, <3>3, <4>2
    <3>5. CASE ~Current(r)
      <4>1. Asking(form)' = Asking(form) /\ Announced(form)' = Announced(form)
        BY <1>1, <3>1, <3>5 DEF Asking, Current
      <4>2. Waiting(admin.hash)' <=> Waiting(admin.hash)
        BY <1>2, <3>1, <3>5, StakingFacts DEF Waiting, NoHash
      <4>3. \A h \in Announced(form) : txs'[h] = txs[h]
        BY <3>1 DEF Announced
      <4>4. AdminOk(form)'
        BY <1>2, <1>3, <3>5, <4>1, <4>2, <4>3 DEF AdminOk, AtRest, One
      <4>5. QED
        BY <3>1, <3>2, <3>3, <4>4
    <3>6. QED
      BY <3>4, <3>5
  <2>2. CASE Reject(r) /\ admin'.hash = admin.hash
    <3>1. /\ Asking(form)' = Asking(form) \ {r} /\ Announced(form)' = Announced(form)
          /\ txs' = txs /\ page' = page
      BY <1>1, <2>2, RejectView
    <3>2. StepOf({form})
      BY <1>1, <2>2 DEF StepOf, RejectStep
    <3>3. AdminTyped'
      BY <1>2, <2>2, <3>1, StakingFacts DEF AdminTyped, IsOf, NoHash
    <3>4. CASE Current(r)
      <4>1. Asking(form)' = {} /\ Announced(form)' = {}
        BY <1>4, <3>1, <3>4
      <4>2. AdminOk(form)'
        BY <1>3, <1>4, <3>4, <4>1 DEF AdminOk, One
      <4>3. QED
        BY <3>1, <3>2, <3>3, <4>2
    <3>5. CASE ~Current(r)
      <4>1. Asking(form)' = Asking(form)
        BY <1>1, <3>1, <3>5 DEF Asking, Current
      <4>2. Waiting(admin.hash)' <=> Waiting(admin.hash)
        BY <1>2, <3>1, <3>5 DEF Waiting, NoHash
      <4>3. AdminOk(form)'
        BY <1>2, <1>3, <3>1, <3>5, <4>1, <4>2 DEF AdminOk, AtRest, One
      <4>4. QED
        BY <3>1, <3>2, <3>3, <4>3
    <3>6. QED
      BY <3>4, <3>5
  <2>3. QED
    BY <1>2, <2>1, <2>2
<1>6. HistoryKept /\ \A g \in AdminForms \ {form} : Same(g)
  BY <1>1, <1>5, SessionKept, OthersAreSame, StakingFacts DEF AdminForms
<1>7. ASSUME NEW g \in AdminForms, g # form PROVE AdminOk(g)'
  <2>1. dialog # g \/ admin' = admin
    BY <1>2, <1>4, <1>7
  <2>2. QED
    BY <1>2, <1>6, <1>7, <2>1, AdminUndisturbed
<1>8. StepOf(AdminForms)
  BY <1>1, <1>5, StepOfMore
<1>9. AdminOk("manage")' /\ AdminOk("addPool")'
  <2>1. CASE form = "manage"
    BY <1>5, <1>7, <2>1 DEF AdminForms
  <2>2. CASE form = "addPool"
    BY <1>5, <1>7, <2>2 DEF AdminForms
  <2>3. QED
    BY <1>1, <2>1, <2>2 DEF AdminForms
<1>10. QED
  BY <1>2, <1>5, <1>8, <1>9 DEF AdminKeeps

LEMMA AdminMinedKeeps ==
  ASSUME IInv, Staking!AdminMined
  PROVE  AdminKeeps
<1> DEFINE h == admin.hash
<1>1. PICK kind \in {"success", "error"} :
        h # NoHash /\ Truthful(h, kind) /\ ToastClosing(h, kind, {})
  BY StakingTerms, StakingEffects DEF Staking!AdminMined, Truthful, Succeeded, Reverted
<1>2. UNCHANGED <<pool, panel, stakeRefetch, dialog, fund, admin, dropped>>
  BY DEF Staking!AdminMined, Staking!stakingVars
<1>3. h \in DOMAIN txs /\ txs[h].form \in AdminForms
  BY <1>1, StakingFacts DEF AdminForms
<1>4. h = admin.hash /\ h # NoHash
  BY <1>1
<1> HIDE DEF h
<1>5. \A form : /\ Asking(form)' = Asking(form) /\ Announced(form)' = Announced(form) \ {h}
  BY <1>1, <1>3, ToastView, StakingFacts
<1>6. page' = page /\ txs'[h].told
  BY <1>1, <1>3, ToastView, StakingFacts
<1>7. StepOf(AdminForms)
  BY <1>1, <1>3 DEF StepOf, ToastStep
<1>8. HistoryKept
  BY <1>7, SessionKept, StakingFacts DEF AdminForms
<1>9. AdminTyped'
  BY <1>2, <1>8, AdminTypedStays
<1>10. ~Waiting(admin.hash)'
  BY <1>2, <1>4, <1>6 DEF Waiting
<1>11. ASSUME NEW form \in AdminForms PROVE AdminOk(form)'
  <2>1. AdminOk(form)
    BY StakingFacts DEF AdminForms
  <2>2. dialog = form => Announced(form)' = {}
    BY <1>4, <1>5, <2>1 DEF AdminOk
  <2>3. QED
    BY <1>2, <1>5, <1>10, <2>1, <2>2 DEF AdminOk, AtRest, One
<1>12. QED
  BY <1>2, <1>6, <1>7, <1>9, <1>11 DEF AdminKeeps, AdminForms

LEMMA AdminStepsKeep ==
  ASSUME IInv, AdminStep
  PROVE  AdminKeeps
<1>1. CASE Staking!PauseRewards \/ Staking!UpdateRate \/ Staking!UpdateCap \/ Staking!AddPool
  BY <1>1, SubmitKeeps
     DEF Staking!PauseRewards, Staking!UpdateRate, Staking!UpdateCap, Staking!AddPool,
         Staking!ManageOffered, Staking!AddPoolOffered, Staking!DialogShown, AdminForms
<1>2. QED
  BY <1>1, ResumeKeeps, AdminMinedKeeps, AdminAnsweredKeeps DEF AdminStep

-----------------------------------------------------------------------------
(* The page as a whole. *)
StakingForms == {"stake", "fund", "manage", "addPool"}
StakingKept ==
  /\ StepOf(StakingForms) /\ page' = page
  /\ StakingTyped' /\ StakeOk' /\ FundOk' /\ AdminOk("manage")' /\ AdminOk("addPool")'

LEMMA StakeUndisturbed ==
  ASSUME IInv, HistoryKept, Same("stake"), page' = page,
         UNCHANGED <<pool, panel, stakeRefetch, dropped>>
  PROVE  StakeTyped' /\ StakeOk'
<1>1. StakeTyped'
  BY StakingFacts DEF StakeTyped, IsOf, HistoryKept, TxKept, NoHash
<1>2. /\ Asking("stake")' = Asking("stake") /\ Announced("stake")' = Announced("stake")
      /\ AtRest("stake")' <=> AtRest("stake")
  BY SameViews, StakingFacts
<1>3. (Refetching' <=> Refetching) /\ mounts'["stake"] = mounts["stake"]
  BY DEF Same, Refetching
<1>4. ASSUME StakeFollowed PROVE StakeFollowed'
  <2>1. Refetching => Succeeded(panel.approveHash)' /\ txs'[panel.approveHash].toast # "pending"
    <3>1. SUFFICES ASSUME Refetching
                   PROVE  Succeeded(panel.approveHash)' /\ txs'[panel.approveHash].toast # "pending"
      OBVIOUS
    <3>2. /\ Succeeded(panel.approveHash) /\ txs[panel.approveHash].toast # "pending"
          /\ panel.approveHash \in DOMAIN txs
      BY <1>4, <3>1, StakingFacts DEF StakeFollowed, Succeeded
    <3>3. QED
      BY <3>2 DEF Succeeded, HistoryKept, TxKept, NoHash
  <2>2. \A h \in Announced("stake") : txs'[h].call = txs[h].call /\ txs'[h].told = txs[h].told
    BY DEF Announced, HistoryKept, TxKept, Same
  <2>3. QED
    BY <1>2, <1>3, <1>4, <2>1, <2>2 DEF StakeFollowed, One, NoHash
<1>5. StakeOk'
  BY <1>2, <1>3, <1>4, StakingFacts DEF StakeOk
<1>6. QED
  BY <1>1, <1>5

LEMMA FundUndisturbed ==
  ASSUME IInv, HistoryKept, Same("fund"), UNCHANGED <<dialog, fund>>
  PROVE  FundTyped' /\ FundOk'
<1>1. FundTyped'
  BY StakingFacts DEF FundTyped, IsOf, HistoryKept, TxKept, NoHash
<1>2. /\ Asking("fund")' = Asking("fund") /\ Announced("fund")' = Announced("fund")
      /\ AtRest("fund")' <=> AtRest("fund")
  BY SameViews, StakingFacts
<1>3. \A h \in Announced("fund") : txs'[h].call = txs[h].call
  BY DEF Announced, HistoryKept, TxKept
<1>4. FundOk'
  BY <1>2, <1>3, StakingFacts DEF FundOk, One
<1>5. QED
  BY <1>1, <1>4

LEMMA DialogStepsKeep ==
  ASSUME IInv, DialogStep
  PROVE  StakingKept
<1>1. /\ fund' = [amount |-> 0, step |-> "idle", approveHash |-> NoHash, hash |-> NoHash]
      /\ admin' = [active |-> "none", hash |-> NoHash]
      /\ UNCHANGED <<pool, panel, stakeRefetch, dropped>>
  BY StakingTerms
     DEF DialogStep, Staking!OpenDialog, Staking!CloseDialog, Staking!InDialog,
         Staking!FreshFund, Staking!FreshAdmin
<1>2. FundTyped' /\ AdminTyped'
  BY <1>1, SessionAssumption DEF FundTyped, AdminTyped, Funds, Admins, IsOf, NoHash
<1>3. page = "staking"
  BY DEF DialogStep, Staking!OpenDialog, Staking!CloseDialog, Staking!PanelShown,
         Staking!DialogShown
<1>4. /\ StepOf(StakingForms \ {"stake"}) /\ page' = page /\ DialogTyped'
      /\ \A form \in StakingForms \ {"stake"} : AtRest(form)'
  <2>1. CASE Staking!OpenDialog
    <3>1. Mount /\ dialog = "none" /\ dialog' \in {"fund", "manage", "addPool"}
      BY <2>1, StakingEffects DEF Staking!OpenDialog, Staking!PanelShown
    <3>2. requests' = requests /\ txs' = txs /\ mounts' = mounts /\ page' = page
      BY <3>1 DEF Mount
    <3>3. StepOf(StakingForms \ {"stake"})
      BY <3>1 DEF StepOf
    <3>4. \A form \in StakingForms \ {"stake"} : AtRest(form)
      BY <3>1, StakingFacts DEF StakingForms, FundOk, AdminOk
    <3>5. \A form \in StakingForms \ {"stake"} : AtRest(form)'
      BY <3>2, <3>4 DEF AtRest, Asking, Announced
    <3>6. QED
      BY <1>3, <3>1, <3>2, <3>3, <3>5 DEF DialogTyped
  <2>2. CASE Staking!CloseDialog
    <3>1. Unmount(dialog) /\ dialog \in StakingForms \ {"stake"} /\ dialog' = "none"
      BY <2>2, StakingEffects, StakingFacts DEF Staking!CloseDialog, DialogTyped, StakingForms
    <3>2. /\ requests' = requests /\ txs' = txs /\ page' = page
          /\ mounts'[dialog] = mounts[dialog] + 1
          /\ \A form \in StakingForms \ {"stake", dialog} : mounts'[form] = mounts[form]
      BY <3>1, StakingFacts DEF Unmount, Closed, SessionOk, StakingForms
    <3>3. StepOf(StakingForms \ {"stake"})
      BY <3>1 DEF StepOf, CloseStep
    <3>4. \A form \in StakingForms \ {"stake", dialog} : AtRest(form)
      BY StakingFacts DEF StakingForms, FundOk, AdminOk
    <3>5. \A form \in StakingForms \ {"stake", dialog} : AtRest(form)'
      BY <3>2, <3>4 DEF AtRest, Asking, Announced
    <3>6. ASSUME NEW form \in StakingForms \ {"stake"} PROVE AtRest(form)'
      <4>1. CASE form = dialog
        <5>1. form \in Forms /\ mounts'[form] = mounts[form] + 1
          BY <3>2, <4>1, StakingFacts DEF StakingForms
        <5>2. QED
          BY <3>2, <5>1, ClosedView, StakingFacts
      <4>2. QED
        BY <3>5, <4>1
    <3>7. QED
      BY <3>1, <3>2, <3>3, <3>6 DEF DialogTyped
  <2>3. QED
    BY <2>1, <2>2 DEF DialogStep
<1>5. FundOk' /\ AdminOk("manage")' /\ AdminOk("addPool")'
  <2>1. AtRest("fund")' /\ AtRest("manage")' /\ AtRest("addPool")'
    BY <1>4 DEF StakingForms
  <2>2. Asking("fund")' = {} /\ Announced("fund")' = {} /\ Asking("manage")' = {}
        /\ Announced("manage")' = {} /\ Asking("addPool")' = {} /\ Announced("addPool")' = {}
    BY <2>1 DEF AtRest
  <2>3. QED
    BY <2>1, <2>2 DEF FundOk, AdminOk, One
<1>6. HistoryKept /\ Same("stake")
  BY <1>4, SessionKept, OthersAreSame, StakingFacts DEF StakingForms
<1>7. StakeTyped' /\ StakeOk'
  BY <1>1, <1>4, <1>6, StakeUndisturbed
<1>8. StepOf(StakingForms)
  <2>1. StakingForms \ {"stake"} \subseteq StakingForms
    OBVIOUS
  <2>2. QED
    BY <1>4, <2>1, StepOfMore
<1>9. QED
  BY <1>2, <1>4, <1>5, <1>7, <1>8 DEF StakingKept, StakingTyped

LEMMA StakingStepsKeep ==
  ASSUME IInv, Staking!NextStaking
  PROVE  StakingKept
<1>1. CASE StakeStep
  <2>1. StakeKeeps
    BY <1>1, StakeStepsKeep
  <2>2. HistoryKept /\ \A form \in StakingForms \ {"stake"} : Same(form)
    BY <2>1, SessionKept, OthersAreSame, StakingFacts DEF StakeKeeps, StakingForms
  <2>3. FundTyped' /\ FundOk' /\ AdminTyped' /\ AdminOk("manage")' /\ AdminOk("addPool")'
    BY <2>1, <2>2, FundUndisturbed, AdminUndisturbed, AdminTypedStays
       DEF StakeKeeps, StakingForms, AdminForms
  <2>4. StepOf(StakingForms)
    BY <2>1, StepOfMore DEF StakeKeeps, StakingForms
  <2>5. QED
    BY <2>1, <2>3, <2>4, StakingFacts DEF StakeKeeps, StakingKept, StakingTyped, DialogTyped
<1>2. CASE FundStep
  <2>1. FundKeeps
    BY <1>2, FundStepsKeep
  <2>2. HistoryKept /\ \A form \in StakingForms \ {"fund"} : Same(form)
    BY <2>1, SessionKept, OthersAreSame, StakingFacts DEF FundKeeps, StakingForms
  <2>3. StakeTyped' /\ StakeOk' /\ AdminTyped' /\ AdminOk("manage")' /\ AdminOk("addPool")'
    BY <2>1, <2>2, StakeUndisturbed, AdminUndisturbed, AdminTypedStays
       DEF FundKeeps, StakingForms, AdminForms
  <2>4. StepOf(StakingForms)
    BY <2>1, StepOfMore DEF FundKeeps, StakingForms
  <2>5. QED
    BY <2>1, <2>3, <2>4, StakingFacts DEF FundKeeps, StakingKept, StakingTyped, DialogTyped
<1>3. CASE AdminStep
  <2>1. AdminKeeps
    BY <1>3, AdminStepsKeep
  <2>2. HistoryKept /\ \A form \in StakingForms \ AdminForms : Same(form)
    BY <2>1, SessionKept, OthersAreSame, StakingFacts DEF AdminKeeps, AdminForms, StakingForms
  <2>3. StakeTyped' /\ StakeOk' /\ FundTyped' /\ FundOk'
    BY <2>1, <2>2, StakeUndisturbed, FundUndisturbed DEF AdminKeeps, StakingForms, AdminForms
  <2>4. StepOf(StakingForms)
    BY <2>1, StepOfMore DEF AdminKeeps, AdminForms, StakingForms
  <2>5. QED
    BY <2>1, <2>3, <2>4, StakingFacts DEF AdminKeeps, StakingKept, StakingTyped, DialogTyped
<1>4. QED
  BY <1>1, <1>2, <1>3, DialogStepsKeep, StakingSteps

-----------------------------------------------------------------------------
(* The governance page. *)
LEMMA GovernanceTerms ==
  /\ Governance!NoHash = NoHash /\ Governance!NewHash = NewHash /\ Governance!Nothing = Nothing
  /\ \A t, n : Governance!Of(t, n) = Of(t, n) /\ (Governance!KnownToCover(t, n) <=> KnownToCover(t, n))
  /\ \A h : /\ Governance!Succeeded(h) <=> Succeeded(h)
            /\ Governance!Reverted(h) <=> Reverted(h)
            /\ Governance!Waiting(h) <=> Waiting(h)
            /\ Governance!Confirmed(h) <=> Confirmed(h)
  /\ \A f : Governance!Open(f) = Open(f)
  /\ \A r : Governance!Current(r) <=> Current(r)
BY DEF Governance!NoHash, NoHash, Governance!NewHash, NewHash, Governance!Nothing,
       Nothing, Governance!Of, Of, Governance!KnownToCover, KnownToCover,
       Governance!Succeeded, Succeeded, Governance!Reverted, Reverted,
       Governance!Waiting, Waiting, Governance!Confirmed, Confirmed, Governance!Open,
       Open, Governance!Current, Current

LEMMA GovernanceEffects ==
  /\ \A f, c : Governance!Ask(f, c) => Request(f, c)
  /\ \A r, c : Governance!Send(r, c) => Send(r, c)
  /\ \A r : Governance!Reject(r) => Reject(r)
  /\ \A h, k : Governance!Toast(h, k) => ToastClosing(h, k, {})
  /\ \A h, k, f : Governance!ToastClosing(h, k, f) => ToastClosing(h, k, f)
  /\ \A f : Governance!Unmount(f) => Unmount(f)
  /\ Governance!Mount => Mount
  /\ Governance!session' = Governance!session => session' = session
<1>1. ASSUME NEW f, NEW c, Governance!Ask(f, c) PROVE Request(f, c)
  BY <1>1 DEF Governance!Ask, Request
<1>2. ASSUME NEW r, NEW c, Governance!Send(r, c) PROVE Send(r, c)
  BY <1>2 DEF Governance!Send, Send
<1>3. ASSUME NEW r, Governance!Reject(r) PROVE Reject(r)
  BY <1>3 DEF Governance!Reject, Reject
<1>4. ASSUME NEW h, NEW k, Governance!Toast(h, k) PROVE ToastClosing(h, k, {})
  BY <1>4 DEF Governance!Toast, Governance!ToastClosing, ToastClosing, Governance!Closed, Closed
<1>5. ASSUME NEW h, NEW k, NEW f, Governance!ToastClosing(h, k, f) PROVE ToastClosing(h, k, f)
  BY <1>5 DEF Governance!ToastClosing, ToastClosing, Governance!Closed, Closed
<1>6. ASSUME NEW f, Governance!Unmount(f) PROVE Unmount(f)
  BY <1>6 DEF Governance!Unmount, Unmount, Governance!Closed, Closed
<1>7. Governance!Mount => Mount
  BY DEF Governance!Mount, Mount
<1>8. Governance!session' = Governance!session => session' = session
  BY DEF Governance!session, session
<1>9. QED
  BY <1>1, <1>2, <1>3, <1>4, <1>5, <1>6, <1>7, <1>8

GForms == {"vote", "execute", "delegate", "create"}
Cards == [confirming : BOOLEAN, loading : BOOLEAN, voted : BOOLEAN, success : BOOLEAN]
GovernanceKept ==
  /\ StepOf(GForms) /\ page' = page
  /\ GovernanceTyped' /\ \A form \in GForms : GovernanceOk(form)'

LEMMA GovernanceFacts ==
  ASSUME IInv
  PROVE  /\ SessionOk /\ TxsAreList /\ GForms \subseteq Forms /\ \A form \in GForms : Governed(form)
         /\ \A form : Governed(form) => form \in GForms
         /\ \A form \in GForms : GovernanceOk(form)
         /\ GovernanceTyped /\ card \in Cards /\ busy \subseteq GForms \ {"vote"}
         /\ creating \in BOOLEAN /\ (creating => page = "governance")
         /\ mounts \in [Forms -> Nat]
BY FrontendAssumption
   DEF IInv, FormsOk, SessionOk, FlowsTyped, GovernanceTyped, GForms, Cards, Governed,
       Governance!GovernanceForms

(* A form that a step leaves alone, and that is no less busy after it. *)
LEMMA GovernanceOthers ==
  ASSUME IInv, NEW S \in SUBSET GForms, StepOf(S), NEW form \in GForms \ S,
         Busy(form) => Busy(form)'
  PROVE  GovernanceOk(form)'
<1>1. HistoryKept /\ Same(form)
  BY SessionKept, OthersAreSame, GovernanceFacts
<1>2. /\ Asking(form)' = Asking(form) /\ Announced(form)' = Announced(form)
      /\ AtRest(form)' <=> AtRest(form)
  BY <1>1, SameViews, GovernanceFacts
<1>3. GovernanceOk(form)
  BY GovernanceFacts
<1>4. QED
  BY <1>2, <1>3 DEF GovernanceOk, One

(* What is read, shown or confirmed without a request. *)
LEMMA GovernanceQuietKeeps ==
  ASSUME IInv,
         \/ Governance!ReadFacts \/ Governance!VotingEnds \/ Governance!ConfirmVote
         \/ Governance!CancelVote \/ Governance!CloseSuccess \/ Governance!OpenCreate
  PROVE  GovernanceKept
<1>1. page = "governance" /\ (session' = session \/ Mount) /\ busy' = busy
  BY GovernanceEffects
     DEF Governance!ReadFacts, Governance!VotingEnds, Governance!ConfirmVote, Governance!CancelVote,
         Governance!CloseSuccess, Governance!OpenCreate, Governance!OnCard, Governance!PageShown
<1>2. page' = page /\ StepOf({})
  BY <1>1 DEF Mount, StepOf, session
<1>3. GovernanceTyped' /\ \A form \in GForms : Busy(form) => Busy(form)'
  <2>1. CASE Governance!ReadFacts
    <3>1. facts' = [fact \in Governance!Facts |-> {fact \in Governance!Done}]
          /\ UNCHANGED <<ended, card, busy, creating>>
      BY <2>1 DEF Governance!ReadFacts
    <3>2. facts' \in [Governance!Facts -> SUBSET BOOLEAN]
      BY <3>1
    <3>3. QED
      BY <1>2, <3>1, <3>2, GovernanceFacts DEF GovernanceTyped, Busy
  <2>2. CASE Governance!VotingEnds
    BY <1>2, <2>2, GovernanceFacts DEF Governance!VotingEnds, GovernanceTyped, Busy
  <2>3. CASE Governance!ConfirmVote
    <3>1. /\ card' = [card EXCEPT !.confirming = TRUE] /\ ~card.confirming
          /\ UNCHANGED <<ended, facts, busy, creating>>
      BY <2>3 DEF Governance!ConfirmVote, Governance!OnCard, Governance!PageShown
    <3>2. card' \in Cards
      BY <3>1, GovernanceFacts DEF Cards
    <3>3. QED
      BY <1>2, <3>1, <3>2, GovernanceFacts DEF GovernanceTyped, Busy, Cards
  <2>4. CASE Governance!CancelVote
    <3>1. /\ card' = [card EXCEPT !.confirming = FALSE] /\ ~card.loading
          /\ UNCHANGED <<ended, facts, busy, creating>>
      BY <2>4 DEF Governance!CancelVote, Governance!OnCard
    <3>2. card' \in Cards
      BY <3>1, GovernanceFacts DEF Cards
    <3>3. QED
      BY <1>2, <3>1, <3>2, GovernanceFacts DEF GovernanceTyped, Busy, Cards
  <2>5. CASE Governance!CloseSuccess
    <3>1. /\ card' = [card EXCEPT !.success = FALSE]
          /\ UNCHANGED <<ended, facts, busy, creating>>
      BY <2>5 DEF Governance!CloseSuccess, Governance!OnCard
    <3>2. card' \in Cards /\ card'.confirming = card.confirming /\ card'.loading = card.loading
      BY <3>1, GovernanceFacts DEF Cards
    <3>3. QED
      BY <1>2, <3>1, <3>2, GovernanceFacts DEF GovernanceTyped, Busy, Cards
  <2>6. CASE Governance!OpenCreate
    <3>1. creating' /\ creating' \in BOOLEAN /\ UNCHANGED <<ended, facts, card, busy>>
      BY <2>6 DEF Governance!OpenCreate
    <3>2. QED
      BY <1>1, <1>2, <3>1, GovernanceFacts DEF GovernanceTyped, Busy
  <2>7. QED
    BY <2>1, <2>2, <2>3, <2>4, <2>5, <2>6
<1>4. \A form \in GForms : GovernanceOk(form)'
  BY <1>2, <1>3, GovernanceOthers
<1>5. StepOf(GForms)
  BY <1>2, StepOfMore
<1>6. QED
  BY <1>2, <1>3, <1>4, <1>5 DEF GovernanceKept

(* One request of a form that has nothing under way. *)
LEMMA GovernanceAsksKeep ==
  ASSUME IInv,
         \/ Governance!HandleConfirmVote \/ Governance!HandleExecute
         \/ Governance!HandleSelfDelegate \/ Governance!SubmitProposal
  PROVE  GovernanceKept
<1> DEFINE Asked(form, call) ==
             /\ Request(form, call) /\ call.grants = Nothing /\ call.spends = Nothing
             /\ ~Busy(form) /\ Busy(form)'
<1>1. page = "governance" /\ page' = page
  BY GovernanceEffects
     DEF Governance!HandleConfirmVote, Governance!HandleExecute, Governance!HandleSelfDelegate,
         Governance!SubmitProposal, Governance!ExecuteOffered, Governance!DelegateOffered,
         Governance!ProposalOffered, Governance!PageShown, Request
<1>2. PICK form \in GForms : \E call : Asked(form, call)
  <2>1. ASSUME NEW form \in GForms, NEW op, Governance!Ask(form, Governance!Plain(op))
        PROVE  \E call : Request(form, call) /\ call.grants = Nothing /\ call.spends = Nothing
    BY <2>1, GovernanceTerms, GovernanceEffects DEF Governance!Plain
  <2>2. CASE Governance!HandleConfirmVote
    <3>1. ~Busy("vote") /\ card.confirming /\ card' = [card EXCEPT !.loading = TRUE]
      BY <2>2 DEF Governance!HandleConfirmVote, Governance!OnCard, Busy
    <3>2. card'.confirming /\ card'.loading
      BY <3>1, GovernanceFacts DEF Cards
    <3>3. Busy("vote")'
      BY <1>1, <3>2 DEF Busy
    <3>4. Governance!Ask("vote", Governance!Plain("vote")) /\ "vote" \in GForms
      BY <2>2 DEF Governance!HandleConfirmVote, GForms
    <3>5. QED
      BY <2>1, <3>1, <3>3, <3>4
  <2>3. CASE Governance!HandleExecute
    <3>1. ~Busy("execute") /\ Busy("execute")'
      BY <1>1, <2>3 DEF Governance!HandleExecute, Governance!ExecuteOffered, Busy
    <3>2. Governance!Ask("execute", Governance!Plain("execute")) /\ "execute" \in GForms
      BY <2>3 DEF Governance!HandleExecute, GForms
    <3>3. QED
      BY <2>1, <3>1, <3>2
  <2>4. CASE Governance!HandleSelfDelegate
    <3>1. ~Busy("delegate") /\ Busy("delegate")'
      BY <1>1, <2>4 DEF Governance!HandleSelfDelegate, Governance!DelegateOffered, Busy
    <3>2. Governance!Ask("delegate", Governance!Plain("delegate")) /\ "delegate" \in GForms
      BY <2>4 DEF Governance!HandleSelfDelegate, GForms
    <3>3. QED
      BY <2>1, <3>1, <3>2
  <2>5. CASE Governance!SubmitProposal
    <3>1. ~Busy("create") /\ Busy("create")'
      BY <1>1, <2>5 DEF Governance!SubmitProposal, Governance!ProposalOffered, Busy
    <3> DEFINE call == [op |-> "create", grants |-> Nothing, spends |-> Nothing,
                        under |-> mounts["vote"]]
    <3>2. Request("create", call) /\ "create" \in GForms
      BY <2>5, GovernanceTerms, GovernanceEffects DEF Governance!SubmitProposal, GForms
    <3>3. call.grants = Nothing /\ call.spends = Nothing
      OBVIOUS
    <3> HIDE DEF call
    <3>4. QED
      BY <3>1, <3>2, <3>3
  <2>6. QED
    BY <2>2, <2>3, <2>4, <2>5
<1>3. PICK call : Asked(form, call)
  BY <1>2
<1>4. GovernanceTyped' /\ \A g \in GForms : Busy(g) => Busy(g)'
  <2>1. CASE Governance!HandleConfirmVote
    <3>1. /\ card' = [card EXCEPT !.loading = TRUE] /\ UNCHANGED <<ended, facts, busy, creating>>
      BY <2>1 DEF Governance!HandleConfirmVote, Governance!OnCard
    <3>2. card' \in Cards /\ card'.confirming = card.confirming /\ card'.loading
      BY <3>1, GovernanceFacts DEF Cards
    <3>3. QED
      BY <1>1, <3>1, <3>2, GovernanceFacts DEF GovernanceTyped, Busy, Cards
  <2>2. CASE Governance!HandleExecute \/ Governance!HandleSelfDelegate \/ Governance!SubmitProposal
    <3>1. /\ busy \subseteq busy' /\ busy' \subseteq {"execute", "delegate", "create"}
          /\ UNCHANGED <<ended, facts, card, creating>>
      BY <2>2, GovernanceFacts
         DEF Governance!HandleExecute, Governance!HandleSelfDelegate, Governance!SubmitProposal, GForms
    <3>2. QED
      BY <1>1, <3>1, GovernanceFacts DEF GovernanceTyped, Busy
  <2>3. QED
    BY <2>1, <2>2
<1>5. StepOf({form})
  BY <1>3, NothingMoves DEF StepOf, AskStep
<1>6. PICK r : Asking(form)' = Asking(form) \cup {r}
  BY <1>3, AskView, GovernanceFacts
<1>7. Announced(form)' = Announced(form)
  BY <1>3, AskView, GovernanceFacts
<1>8. Asking(form) = {} /\ Announced(form) = {}
  BY <1>3, GovernanceFacts DEF GovernanceOk, AtRest
<1>9. GovernanceOk(form)'
  BY <1>3, <1>6, <1>7, <1>8 DEF GovernanceOk, One
<1>10. \A g \in GForms : GovernanceOk(g)'
  <2>1. ASSUME NEW g \in GForms, g # form PROVE GovernanceOk(g)'
    BY <1>4, <1>5, <2>1, GovernanceOthers
  <2>2. QED
    BY <1>9, <2>1
<1>11. StepOf(GForms)
  BY <1>5, StepOfMore
<1>12. QED
  BY <1>1, <1>4, <1>10, <1>11 DEF GovernanceKept

LEMMA CloseCreateKeeps ==
  ASSUME IInv, Governance!CloseCreate
  PROVE  GovernanceKept
<1>1. /\ Unmount("create") /\ page = "governance"
      /\ creating' = FALSE /\ busy' = busy \ {"create"} /\ UNCHANGED <<ended, facts, card>>
  BY GovernanceEffects DEF Governance!CloseCreate
<1>2. "create" \in GForms /\ "create" \in Forms
  BY GovernanceFacts DEF GForms
<1>3. /\ requests' = requests /\ txs' = txs /\ page' = page
      /\ mounts'["create"] = mounts["create"] + 1
  BY <1>1, <1>2, GovernanceFacts DEF Unmount, Closed
<1>4. StepOf({"create"}) /\ StepOf(GForms)
  BY <1>1, <1>2, StepOfMore DEF StepOf, CloseStep
<1>5. AtRest("create")'
  BY <1>2, <1>3, ClosedView, GovernanceFacts
<1>6. GovernanceOk("create")'
  BY <1>5 DEF GovernanceOk, AtRest, One
<1>7. ASSUME NEW form \in GForms, form # "create" PROVE GovernanceOk(form)'
  <2>1. Busy(form) => Busy(form)'
    BY <1>1, <1>3, <1>7 DEF Busy
  <2>2. QED
    BY <1>2, <1>4, <1>7, <2>1, GovernanceOthers
<1>8. GovernanceTyped'
  BY <1>1, GovernanceFacts DEF GovernanceTyped
<1>9. QED
  BY <1>3, <1>4, <1>6, <1>7, <1>8 DEF GovernanceKept

(* What the end of a mutation does to the page.                            *)
LEMMA SettlesIs ==
  ASSUME IInv, NEW q, q.form \in GForms, NEW well \in BOOLEAN, Governance!Settles(q, well),
         page' = page
  PROVE  /\ GovernanceTyped'
         /\ \A form \in GForms \ {q.form} : Busy(form) => Busy(form)'
         /\ ~Current(q) /\ ~(well /\ Governance!Closes(q)) =>
              \A form \in GForms : Busy(form) => Busy(form)'
<1>1. Governance!Closes(q) => q.form = "create"
  BY DEF Governance!Closes
<1>2. /\ card' = IF ~Current(q) \/ q.form # "vote" THEN card
                 ELSE IF well THEN [confirming |-> FALSE, loading |-> FALSE,
                                    voted |-> TRUE, success |-> TRUE]
                 ELSE [card EXCEPT !.loading = FALSE]
      /\ busy' = busy \ ((IF Current(q) THEN {q.form} ELSE {})
                          \cup (IF well /\ Governance!Closes(q) THEN {"create"} ELSE {}))
      /\ creating' = (creating /\ ~(well /\ Governance!Closes(q)))
      /\ UNCHANGED <<ended, facts>>
  BY GovernanceTerms DEF Governance!Settles
<1>3. card' \in Cards /\ busy' \subseteq busy /\ creating' \in BOOLEAN /\ (creating' => creating)
  BY <1>2, GovernanceFacts DEF Cards
<1>4. GovernanceTyped'
  BY <1>2, <1>3, GovernanceFacts DEF GovernanceTyped, Cards
<1>5. ASSUME NEW form \in GForms \ {q.form}, Busy(form) PROVE Busy(form)'
  <2>1. form = "vote" => card' = card
    BY <1>2, <1>5
  <2>2. form = "create" => creating' = creating
    BY <1>1, <1>2, <1>5, GovernanceFacts
  <2>3. form \in busy => form \in busy'
    BY <1>1, <1>2, <1>5
  <2>4. QED
    BY <1>5, <2>1, <2>2, <2>3 DEF Busy
<1>6. ASSUME ~Current(q), ~(well /\ Governance!Closes(q)), NEW form \in GForms, Busy(form)
      PROVE  Busy(form)'
  BY <1>2, <1>6 DEF Busy
<1>7. QED
  BY <1>4, <1>5, <1>6

LEMMA GovernanceSignedKeeps ==
  ASSUME IInv, NEW r \in requests, r.form \in GForms, Governance!GovernanceSigned(r)
  PROVE  GovernanceKept
<1> DEFINE form == r.form
<1>1. /\ Send(r, r.call) /\ RequestOk(r, mounts) /\ form \in GForms /\ r.form = form
      /\ UNCHANGED <<ended, facts, card, busy, creating>>
  BY GovernanceEffects, GovernanceFacts
     DEF Governance!GovernanceSigned, Governance!governanceVars, SessionOk
<1> HIDE DEF form
<1>2. /\ Asking(form)' = Asking(form) \ {r}
      /\ Announced(form)' = Announced(form) \cup {h \in {NewHash} : Current(r)}
      /\ page' = page
  BY <1>1, SendView, GovernanceFacts
<1>3. StepOf({form}) /\ StepOf(GForms)
  BY <1>1, StepOfMore DEF StepOf, SendStep, RequestOk
<1>4. \A g \in GForms : Busy(g) <=> Busy(g)'
  BY <1>1, <1>2 DEF Busy
<1>5. GovernanceOk(form)
  BY <1>1, GovernanceFacts
<1>6. GovernanceOk(form)'
  <2>1. CASE Current(r)
    <3>1. r \in Asking(form)
      BY <1>1, <2>1 DEF Asking, Current
    <3>2. Busy(form) /\ Asking(form) = {r} /\ Announced(form) = {}
      BY <1>5, <3>1 DEF GovernanceOk, AtRest, One
    <3>3. Busy(form)' /\ Asking(form)' = {} /\ Announced(form)' = {NewHash}
      BY <1>1, <1>2, <1>4, <2>1, <3>2
    <3>4. QED
      BY <3>3 DEF GovernanceOk, One
  <2>2. CASE ~Current(r)
    <3>1. Asking(form)' = Asking(form) /\ Announced(form)' = Announced(form)
      BY <1>1, <1>2, <2>2 DEF Asking, Current
    <3>2. Busy(form) <=> Busy(form)'
      BY <1>1, <1>4
    <3>3. QED
      BY <1>5, <3>1, <3>2 DEF GovernanceOk, AtRest, One
  <2>3. QED
    BY <2>1, <2>2
<1>7. ASSUME NEW g \in GForms, g # form PROVE GovernanceOk(g)'
  BY <1>1, <1>3, <1>4, <1>7, GovernanceOthers
<1>8. GovernanceTyped'
  BY <1>1, <1>2, GovernanceFacts DEF GovernanceTyped
<1>9. QED
  BY <1>2, <1>3, <1>6, <1>7, <1>8 DEF GovernanceKept

LEMMA GovernanceRejectedKeeps ==
  ASSUME IInv, NEW r \in requests, r.form \in GForms, Governance!GovernanceRejected(r)
  PROVE  GovernanceKept
<1> DEFINE form == r.form
<1>1. /\ Reject(r) /\ form \in GForms /\ r.form = form /\ Governance!Settles(r, FALSE)
  BY GovernanceEffects DEF Governance!GovernanceRejected
<1> HIDE DEF form
<1>2. /\ Asking(form)' = Asking(form) \ {r} /\ Announced(form)' = Announced(form)
      /\ page' = page
  BY <1>1, RejectView
<1>3. StepOf({form}) /\ StepOf(GForms)
  BY <1>1, StepOfMore DEF StepOf, RejectStep
<1>4. /\ GovernanceTyped'
      /\ \A g \in GForms \ {form} : Busy(g) => Busy(g)'
      /\ ~Current(r) => \A g \in GForms : Busy(g) => Busy(g)'
  BY <1>1, <1>2, SettlesIs
<1>5. GovernanceOk(form)
  BY <1>1, GovernanceFacts
<1>6. GovernanceOk(form)'
  <2>1. CASE Current(r)
    <3>1. r \in Asking(form)
      BY <1>1, <2>1 DEF Asking, Current
    <3>2. Asking(form)' = {} /\ Announced(form)' = {}
      BY <1>2, <1>5, <3>1 DEF GovernanceOk, One
    <3>3. QED
      BY <3>2 DEF GovernanceOk, AtRest, One
  <2>2. CASE ~Current(r)
    <3>1. Asking(form)' = Asking(form)
      BY <1>1, <1>2, <2>2 DEF Asking, Current
    <3>2. Busy(form) => Busy(form)'
      BY <1>1, <1>4, <2>2
    <3>3. QED
      BY <1>2, <1>5, <3>1, <3>2 DEF GovernanceOk, AtRest, One
  <2>3. QED
    BY <2>1, <2>2
<1>7. ASSUME NEW g \in GForms, g # form PROVE GovernanceOk(g)'
  BY <1>1, <1>3, <1>4, <1>7, GovernanceOthers
<1>8. QED
  BY <1>2, <1>3, <1>4, <1>6, <1>7 DEF GovernanceKept

(* The wait for a receipt ends, with or without one. *)
LEMMA ReceiptKeeps ==
  ASSUME IInv, NEW h \in DOMAIN txs, txs[h].form \in GForms, txs[h].toast = "pending",
         NEW kind \in {"success", "error"}, NEW well \in BOOLEAN, NEW forms,
         forms = {f \in {"create"} : well /\ Governance!Closes(txs[h])},
         Truthful(h, kind), ToastClosing(h, kind, forms),
         Governance!Settles(txs[h], well)
  PROVE  GovernanceKept
<1>0. PICK closes \in BOOLEAN : closes <=> (well /\ Governance!Closes(txs[h]))
  OBVIOUS
<1>1. PICK form \in GForms : txs[h].form = form /\ form \in Forms
  BY GovernanceFacts
<1>2. closes => form = "create"
  BY <1>0, <1>1 DEF Governance!Closes
<1>3. forms = IF closes THEN {"create"} ELSE {}
  BY <1>0
<1>4. page' = page
  BY DEF ToastClosing
<1>5. /\ GovernanceTyped'
      /\ \A g \in GForms \ {form} : Busy(g) => Busy(g)'
      /\ ~Current(txs[h]) /\ ~closes => \A g \in GForms : Busy(g) => Busy(g)'
  BY <1>0, <1>1, <1>4, SettlesIs
<1>6. /\ DOMAIN txs' = DOMAIN txs
      /\ txs'[h].toast = kind /\ txs'[h].form = txs[h].form /\ txs'[h].mount = txs[h].mount
      /\ \A g \in DOMAIN txs : g # h => txs'[g] = txs[g]
      /\ requests' = requests
      /\ mounts' = [f \in Forms |-> IF f \in forms THEN mounts[f] + 1 ELSE mounts[f]]
  BY ToastIs, GovernanceFacts
<1>7. forms \in SUBSET {form}
  BY <1>2, <1>3
<1>8. StepOf({form}) /\ StepOf(GForms)
  <2>1. StepOf({form})
    BY <1>1, <1>7 DEF StepOf, ToastStep
  <2>2. QED
    BY <1>1, <2>1, StepOfMore
<1>9. GovernanceOk(form)
  BY <1>1, GovernanceFacts
<1>10. GovernanceOk(form)'
  <2>1. CASE closes
    <3>1. mounts'[form] = mounts[form] + 1
      BY <1>1, <1>2, <1>3, <1>6, <2>1
    <3>2. \A g \in DOMAIN txs : txs'[g].form = txs[g].form /\ txs'[g].mount = txs[g].mount
      BY <1>6
    <3>3. AtRest(form)'
      BY <1>1, <1>6, <3>1, <3>2, ClosedView, GovernanceFacts
    <3>4. QED
      BY <3>3 DEF GovernanceOk, AtRest, One
  <2>2. CASE ~closes
    <3>1. mounts' = mounts
      BY <1>3, <1>6, <2>2, GovernanceFacts
    <3>2. Asking(form)' = Asking(form)
      BY <1>6, <3>1 DEF Asking
    <3>3. Announced(form)' = Announced(form) \ {h}
      BY <1>6, <3>1 DEF Announced
    <3>4. CASE Current(txs[h])
      <4>1. h \in Announced(form)
        BY <1>1, <3>4 DEF Announced, Current
      <4>2. Asking(form) = {} /\ Announced(form) = {h}
        BY <1>9, <4>1 DEF GovernanceOk, One
      <4>3. Asking(form)' = {} /\ Announced(form)' = {}
        BY <3>2, <3>3, <4>2
      <4>4. QED
        BY <4>3 DEF GovernanceOk, AtRest, One
    <3>5. CASE ~Current(txs[h])
      <4>1. Announced(form)' = Announced(form)
        BY <1>1, <3>3, <3>5 DEF Announced, Current
      <4>2. Busy(form) => Busy(form)'
        BY <1>1, <1>5, <2>2, <3>5
      <4>3. QED
        BY <1>9, <3>2, <4>1, <4>2 DEF GovernanceOk, AtRest, One
    <3>6. QED
      BY <3>4, <3>5
  <2>3. QED
    BY <2>1, <2>2
<1>11. ASSUME NEW g \in GForms, g # form PROVE GovernanceOk(g)'
  BY <1>1, <1>5, <1>8, <1>11, GovernanceOthers
<1>12. QED
  BY <1>4, <1>5, <1>8, <1>10, <1>11 DEF GovernanceKept

LEMMA GovernanceStepsKeep ==
  ASSUME IInv, Governance!NextGovernance
  PROVE  GovernanceKept
<1>1. Governance!GovernanceForms = GForms
  BY DEF Governance!GovernanceForms, GForms
<1>2. ASSUME NEW h \in Governance!Awaited, Governance!ReceiptReturned(h)
      PROVE  GovernanceKept
  <2>1. h \in DOMAIN txs /\ txs[h].form \in GForms /\ txs[h].toast = "pending"
    BY <1>1, <1>2 DEF Governance!Awaited
  <2>2. Truthful(h, "success")
    BY <1>2, <2>1, GovernanceTerms, GovernanceFacts DEF Governance!ReceiptReturned, Truthful
  <2> DEFINE forms == {f \in {"create"} : Governance!Closes(txs[h])}
  <2>3. ToastClosing(h, "success", forms) /\ Governance!Settles(txs[h], TRUE)
    BY <1>2, GovernanceEffects DEF Governance!ReceiptReturned
  <2>4. forms = {f \in {"create"} : TRUE /\ Governance!Closes(txs[h])}
    OBVIOUS
  <2> HIDE DEF forms
  <2>5. QED
    BY <2>1, <2>2, <2>3, <2>4, ReceiptKeeps
<1>3. ASSUME NEW h \in Governance!Awaited, Governance!ReceiptGivenUp(h)
      PROVE  GovernanceKept
  <2>1. h \in DOMAIN txs /\ txs[h].form \in GForms /\ txs[h].toast = "pending"
    BY <1>1, <1>3 DEF Governance!Awaited
  <2>2. Truthful(h, "error")
    BY <2>1, GovernanceFacts DEF Truthful
  <2>3. ToastClosing(h, "error", {}) /\ Governance!Settles(txs[h], FALSE)
    BY <1>3, GovernanceEffects DEF Governance!ReceiptGivenUp
  <2>4. {} = {f \in {"create"} : FALSE /\ Governance!Closes(txs[h])}
    OBVIOUS
  <2>5. QED
    BY <2>1, <2>2, <2>3, <2>4, ReceiptKeeps
<1>4. QED
  BY <1>1, <1>2, <1>3, GovernanceQuietKeeps, GovernanceAsksKeep, CloseCreateKeeps,
     GovernanceSignedKeeps, GovernanceRejectedKeeps
     DEF Governance!NextGovernance

-----------------------------------------------------------------------------
(* Steps that leave the forms of a page alone. *)
LEMMA SwapUndisturbed ==
  ASSUME IInv, HistoryKept, Same("swap"), page' = page,
         UNCHANGED <<market, swapStore, swapPanel, refetches, overtaken>>
  PROVE  SwapTyped' /\ SwapOk'
<1>1. SwapTyped'
  <2>1. IsOf(swapPanel.approveHash, {"swap"})' /\ IsOf(swapStore.hash, {"swap"})'
    BY DEF IInv, FlowsTyped, SwapTyped, IsOf, HistoryKept, TxKept, NoHash
  <2>2. QED
    BY <2>1 DEF IInv, FlowsTyped, SwapTyped
<1>2. /\ Asking("swap")' = Asking("swap") /\ Announced("swap")' = Announced("swap")
      /\ AtRest("swap")' <=> AtRest("swap")
  BY SameViews, SwapFacts
<1>3. Open("swap")' = Open("swap") /\ mounts'["swap"] = mounts["swap"]
  BY DEF Same
<1>4. ASSUME SwapFollowed PROVE SwapFollowed'
  <2>1. (SwapUnderway' <=> SwapUnderway) /\ (ApprovalUnderway' <=> ApprovalUnderway)
    BY <1>3 DEF SwapUnderway, ApprovalUnderway, NoHash
  <2>2. /\ Reverted(swapStore.hash) => Reverted(swapStore.hash)'
        /\ ~Waiting(swapStore.hash) => ~Waiting(swapStore.hash)'
    BY SwapFacts DEF Reverted, Waiting, HistoryKept, TxKept, NoHash
  <2>3. ApprovalsAnnounced' = ApprovalsAnnounced
    BY <1>2 DEF ApprovalsAnnounced, Announced, HistoryKept, TxKept
  <2>4. \A h \in SwapsSent' : /\ h \in SwapsSent
                              /\ txs'[h].toast = txs[h].toast /\ txs'[h].told = txs[h].told
    BY DEF SwapsSent, Same, HistoryKept, TxKept
  <2>5. swapPanel.approveHash # NoHash /\ txs[swapPanel.approveHash].toast # "pending" =>
          txs'[swapPanel.approveHash].toast # "pending"
    BY SwapFacts DEF HistoryKept, TxKept
  <2>6. /\ One(Open("swap")') /\ ~(SwapUnderway' /\ ApprovalUnderway')
        /\ \A h \in ApprovalsAnnounced' : h = swapPanel'.approveHash
        /\ \A h \in SwapsSent' : txs'[h].toast = "pending" =>
             h = swapStore'.hash /\ swapStore'.step = "pending" /\ ~txs'[h].told
    BY <1>3, <1>4, <2>1, <2>3, <2>4 DEF SwapFollowed
  <2>7. \A r \in Open("swap")' :
          /\ r.call.op = "approve" => /\ swapStore'.step = "approving"
                                      /\ swapPanel'.approveHash = NoHash /\ refetches' = {}
          /\ r.call.op = "swap" => swapStore'.step = "signing"
          /\ swapStore'.hash = NoHash \/ Reverted(swapStore.hash)'
    BY <1>3, <1>4, <2>2 DEF SwapFollowed
  <2>8. /\ swapStore'.step # "pending" => ~Waiting(swapStore.hash)'
        /\ \A f \in refetches' : f.mount = mounts'["swap"] /\ swapPanel'.approveHash # NoHash =>
             txs'[swapPanel'.approveHash].toast # "pending"
    BY <1>3, <1>4, <2>2, <2>5 DEF SwapFollowed
  <2>9. QED
    BY <2>6, <2>7, <2>8 DEF SwapFollowed, NoHash
<1>5. SwapOk'
  BY <1>2, <1>3, <1>4, SwapFacts DEF SwapOk
<1>6. QED
  BY <1>1, <1>5

LEMMA LiquidityUndisturbed ==
  ASSUME IInv, HistoryKept, Same("add"), Same("remove"), page' = page,
         UNCHANGED <<modal, addStore, addHook, addRefetches, removal, displaced>>
  PROVE  LiquidityTyped' /\ AddOk' /\ RemoveOk'
<1>1. AddTyped' /\ AddOk' /\ RemoveTyped' /\ RemoveOk'
  BY AddUndisturbed, RemoveUndisturbed
<1>2. ModalTyped'
  BY LiquidityFacts DEF ModalTyped
<1>3. QED
  BY <1>1, <1>2 DEF LiquidityTyped

LEMMA StakingUndisturbed ==
  ASSUME IInv, HistoryKept, \A form \in StakingForms : Same(form), page' = page,
         UNCHANGED <<pool, panel, stakeRefetch, dialog, fund, admin, dropped>>
  PROVE  StakingTyped' /\ StakeOk' /\ FundOk' /\ AdminOk("manage")' /\ AdminOk("addPool")'
<1>1. Same("stake") /\ Same("fund") /\ Same("manage") /\ Same("addPool")
  BY DEF StakingForms
<1>2. StakeTyped' /\ StakeOk' /\ FundTyped' /\ FundOk'
  BY <1>1, StakeUndisturbed, FundUndisturbed
<1>3. AdminTyped' /\ AdminOk("manage")' /\ AdminOk("addPool")'
  BY <1>1, AdminTypedStays, AdminUndisturbed DEF AdminForms
<1>4. DialogTyped'
  BY StakingFacts DEF DialogTyped
<1>5. QED
  BY <1>2, <1>3, <1>4 DEF StakingTyped

LEMMA GovernanceUndisturbed ==
  ASSUME IInv, NEW S \in SUBSET Forms, StepOf(S), S \cap GForms = {}, page' = page,
         UNCHANGED <<ended, facts, card, busy, creating>>
  PROVE  GovernanceTyped' /\ \A form \in GForms : GovernanceOk(form)'
<1>1. GovernanceTyped'
  BY GovernanceFacts DEF GovernanceTyped
<1>2. ASSUME NEW form \in GForms PROVE GovernanceOk(form)'
  <2>1. HistoryKept /\ Same(form)
    BY SessionKept, OthersAreSame, GovernanceFacts
  <2>2. /\ Asking(form)' = Asking(form) /\ Announced(form)' = Announced(form)
        /\ AtRest(form)' <=> AtRest(form)
    BY <2>1, SameViews, GovernanceFacts
  <2>3. GovernanceOk(form) /\ (Busy(form)' <=> Busy(form))
    BY GovernanceFacts DEF Busy
  <2>4. QED
    BY <2>2, <2>3 DEF GovernanceOk, One
<1>3. QED
  BY <1>1, <1>2

-----------------------------------------------------------------------------
(* The invariant, page by page. *)
LEMMA SessionPart ==
  ASSUME IInv, NEW S \in SUBSET Forms, StepOf(S)
  PROVE  /\ SessionOk' /\ TxsAreList'
         /\ ToastsTellTheOutcome' /\ AllowancesKnown' /\ AskedWithinGranted'
         /\ HistoryKept /\ \A form \in Forms \ S : Same(form)
BY SessionKept, ToastsKept, AllowancesStay, AsksWithinGranted, OthersAreSame DEF IInv

LEMMA Together ==
  ASSUME SessionOk' /\ TxsAreList',
         ToastsTellTheOutcome' /\ AllowancesKnown' /\ AskedWithinGranted',
         SwapTyped' /\ SwapOk',
         LiquidityTyped' /\ AddOk' /\ RemoveOk',
         StakingTyped' /\ StakeOk' /\ FundOk' /\ AdminOk("manage")' /\ AdminOk("addPool")',
         GovernanceTyped' /\ \A form \in GForms : GovernanceOk(form)'
  PROVE  IInv'
BY DEF IInv, FlowsTyped, FormsOk, GForms, Governance!GovernanceForms

LEMMA SwapStepKeeps ==
  ASSUME IInv, SwapStep
  PROVE  IInv'
<1>1. StepOf({"swap"}) /\ page' = page /\ SwapTyped' /\ SwapOk'
  BY SwapStepsOf, SwapTypesKept, SwapKept DEF SwapStep
<1>2. {"swap"} \in SUBSET Forms
  BY SwapFacts
<1>3. /\ SessionOk' /\ TxsAreList'
      /\ ToastsTellTheOutcome' /\ AllowancesKnown' /\ AskedWithinGranted'
      /\ HistoryKept /\ \A form \in Forms \ {"swap"} : Same(form)
  BY <1>1, <1>2, SessionPart
<1>4. /\ UNCHANGED <<modal, addStore, addHook, addRefetches, removal, displaced>>
      /\ UNCHANGED <<pool, panel, stakeRefetch, dialog, fund, admin, dropped>>
      /\ UNCHANGED <<ended, facts, card, busy, creating>>
  BY DEF SwapStep, liquidityVars, stakingVars, governanceVars
<1>5. LiquidityTyped' /\ AddOk' /\ RemoveOk'
  BY <1>1, <1>3, <1>4, LiquidityUndisturbed, LiquidityFacts
<1>6. StakingTyped' /\ StakeOk' /\ FundOk' /\ AdminOk("manage")' /\ AdminOk("addPool")'
  BY <1>1, <1>3, <1>4, StakingUndisturbed, StakingFacts DEF StakingForms
<1>7. GovernanceTyped' /\ \A form \in GForms : GovernanceOk(form)'
  BY <1>1, <1>2, <1>4, GovernanceUndisturbed DEF GForms
<1>8. QED
  BY <1>1, <1>3, <1>5, <1>6, <1>7, Together

LEMMA LiquidityStepKeeps ==
  ASSUME IInv, LiquidityStep
  PROVE  IInv'
<1>1. StepOf({"add", "remove"}) /\ page' = page /\ LiquidityTyped' /\ AddOk' /\ RemoveOk'
  BY LiquidityStepsKeep DEF LiquidityStep, LiquidityKept
<1>2. {"add", "remove"} \in SUBSET Forms
  BY LiquidityFacts
<1>3. /\ SessionOk' /\ TxsAreList'
      /\ ToastsTellTheOutcome' /\ AllowancesKnown' /\ AskedWithinGranted'
      /\ HistoryKept /\ \A form \in Forms \ {"add", "remove"} : Same(form)
  BY <1>1, <1>2, SessionPart
<1>4. /\ UNCHANGED <<market, swapStore, swapPanel, refetches, overtaken>>
      /\ UNCHANGED <<pool, panel, stakeRefetch, dialog, fund, admin, dropped>>
      /\ UNCHANGED <<ended, facts, card, busy, creating>>
  BY DEF LiquidityStep, swapVars, stakingVars, governanceVars
<1>5. SwapTyped' /\ SwapOk'
  BY <1>1, <1>3, <1>4, SwapUndisturbed, SwapFacts
<1>6. StakingTyped' /\ StakeOk' /\ FundOk' /\ AdminOk("manage")' /\ AdminOk("addPool")'
  BY <1>1, <1>3, <1>4, StakingUndisturbed, StakingFacts DEF StakingForms
<1>7. GovernanceTyped' /\ \A form \in GForms : GovernanceOk(form)'
  BY <1>1, <1>2, <1>4, GovernanceUndisturbed DEF GForms
<1>8. QED
  BY <1>1, <1>3, <1>5, <1>6, <1>7, Together

LEMMA StakingStepKeeps ==
  ASSUME IInv, StakingStep
  PROVE  IInv'
<1>1. /\ StepOf(StakingForms) /\ page' = page
      /\ StakingTyped' /\ StakeOk' /\ FundOk' /\ AdminOk("manage")' /\ AdminOk("addPool")'
  BY StakingStepsKeep DEF StakingStep, StakingKept
<1>2. StakingForms \in SUBSET Forms
  BY StakingFacts DEF StakingForms
<1>3. /\ SessionOk' /\ TxsAreList'
      /\ ToastsTellTheOutcome' /\ AllowancesKnown' /\ AskedWithinGranted'
      /\ HistoryKept /\ \A form \in Forms \ StakingForms : Same(form)
  BY <1>1, <1>2, SessionPart
<1>4. /\ UNCHANGED <<market, swapStore, swapPanel, refetches, overtaken>>
      /\ UNCHANGED <<modal, addStore, addHook, addRefetches, removal, displaced>>
      /\ UNCHANGED <<ended, facts, card, busy, creating>>
  BY DEF StakingStep, swapVars, liquidityVars, governanceVars
<1>5. SwapTyped' /\ SwapOk'
  BY <1>1, <1>3, <1>4, SwapUndisturbed, SwapFacts DEF StakingForms
<1>6. LiquidityTyped' /\ AddOk' /\ RemoveOk'
  BY <1>1, <1>3, <1>4, LiquidityUndisturbed, LiquidityFacts DEF StakingForms
<1>7. GovernanceTyped' /\ \A form \in GForms : GovernanceOk(form)'
  <2>1. StakingForms \cap GForms = {}
    BY DEF StakingForms, GForms
  <2>2. QED
    BY <1>1, <1>2, <1>4, <2>1, GovernanceUndisturbed
<1>8. QED
  BY <1>1, <1>3, <1>5, <1>6, <1>7, Together

LEMMA GovernanceStepKeeps ==
  ASSUME IInv, GovernanceStep
  PROVE  IInv'
<1>1. /\ StepOf(GForms) /\ page' = page
      /\ GovernanceTyped' /\ \A form \in GForms : GovernanceOk(form)'
  BY GovernanceStepsKeep DEF GovernanceStep, GovernanceKept
<1>2. GForms \in SUBSET Forms
  BY GovernanceFacts
<1>3. /\ SessionOk' /\ TxsAreList'
      /\ ToastsTellTheOutcome' /\ AllowancesKnown' /\ AskedWithinGranted'
      /\ HistoryKept /\ \A form \in Forms \ GForms : Same(form)
  BY <1>1, <1>2, SessionPart
<1>4. /\ UNCHANGED <<market, swapStore, swapPanel, refetches, overtaken>>
      /\ UNCHANGED <<modal, addStore, addHook, addRefetches, removal, displaced>>
      /\ UNCHANGED <<pool, panel, stakeRefetch, dialog, fund, admin, dropped>>
  BY DEF GovernanceStep, swapVars, liquidityVars, stakingVars
<1>5. SwapTyped' /\ SwapOk'
  BY <1>1, <1>3, <1>4, SwapUndisturbed, SwapFacts DEF GForms
<1>6. LiquidityTyped' /\ AddOk' /\ RemoveOk'
  BY <1>1, <1>3, <1>4, LiquidityUndisturbed, LiquidityFacts DEF GForms
<1>7. StakingTyped' /\ StakeOk' /\ FundOk' /\ AdminOk("manage")' /\ AdminOk("addPool")'
  BY <1>1, <1>3, <1>4, StakingUndisturbed, StakingFacts DEF StakingForms, GForms
<1>8. QED
  BY <1>1, <1>3, <1>5, <1>6, <1>7, Together

(* A receipt, an answer about an allowance, or nothing. *)
LEMMA ChainStepKeeps ==
  ASSUME IInv, Answered \/ Mined \/ UNCHANGED vars
  PROVE  IInv'
<1>1. StepOf({}) /\ page' = page /\ UNCHANGED flows
  <2>1. CASE Answered
    <3>1. PICK t \in ReadHere : ReadAllowance(t) /\ UNCHANGED flows
      BY <2>1 DEF Answered
    <3>2. t \in Tokens
      BY FrontendAssumption DEF ReadHere
    <3>3. QED
      BY <3>1, <3>2 DEF StepOf, ReadStep, ReadAllowance
  <2>2. CASE Mined
    <3>1. PICK h \in DOMAIN txs : MineTx(h) /\ UNCHANGED flows
      BY <2>2 DEF Mined
    <3>2. page' = page
      BY <3>1 DEF MineTx
    <3>3. QED
      BY <3>1, <3>2 DEF StepOf, MineStep
  <2>3. CASE UNCHANGED vars
    <3>1. UNCHANGED session /\ UNCHANGED flows
      BY <2>3 DEF vars
    <3>2. QED
      BY <3>1 DEF StepOf, session
  <2>4. QED
    BY <2>1, <2>2, <2>3
<1>2. /\ SessionOk' /\ TxsAreList'
      /\ ToastsTellTheOutcome' /\ AllowancesKnown' /\ AskedWithinGranted'
      /\ HistoryKept /\ \A form \in Forms : Same(form)
  BY <1>1, SessionPart
<1>3. /\ UNCHANGED <<market, swapStore, swapPanel, refetches, overtaken>>
      /\ UNCHANGED <<modal, addStore, addHook, addRefetches, removal, displaced>>
      /\ UNCHANGED <<pool, panel, stakeRefetch, dialog, fund, admin, dropped>>
      /\ UNCHANGED <<ended, facts, card, busy, creating>>
  BY <1>1 DEF flows, swapVars, liquidityVars, stakingVars, governanceVars
<1>4. SwapTyped' /\ SwapOk'
  BY <1>1, <1>2, <1>3, SwapUndisturbed, SwapFacts
<1>5. LiquidityTyped' /\ AddOk' /\ RemoveOk'
  BY <1>1, <1>2, <1>3, LiquidityUndisturbed, LiquidityFacts
<1>6. StakingTyped' /\ StakeOk' /\ FundOk' /\ AdminOk("manage")' /\ AdminOk("addPool")'
  BY <1>1, <1>2, <1>3, StakingUndisturbed, StakingFacts DEF StakingForms
<1>7. GovernanceTyped' /\ \A form \in GForms : GovernanceOk(form)'
  BY <1>1, <1>3, GovernanceUndisturbed
<1>8. QED
  BY <1>2, <1>4, <1>5, <1>6, <1>7, Together

(* Leaving a page: nothing of any form is under way afterwards. *)
LEMMA LeaveRests ==
  ASSUME IInv, NEW p \in Pages, Navigate(p, FormsOf(page))
  PROVE  /\ StepOf(FormsOf(page)) /\ FormsOf(page) \in SUBSET Forms
         /\ requests' = requests /\ txs' = txs /\ page' = p
         /\ \A form \in {"swap", "add", "remove"} \cup StakingForms \cup GForms : AtRest(form)'
         /\ mounts'["swap"] = (IF page = "swap" THEN mounts["swap"] + 1 ELSE mounts["swap"])
         /\ mounts'["stake"] = (IF page = "staking" THEN mounts["stake"] + 1 ELSE mounts["stake"])
<1> DEFINE left == FormsOf(page)
           all == {"swap", "add", "remove"} \cup StakingForms \cup GForms
<1>1. all \subseteq Forms
  BY FrontendAssumption, GovernanceFacts DEF StakingForms
<1>2. left \in SUBSET all
  BY DEF FormsOf, StakingForms, GForms, Governance!GovernanceForms
<1>3. StepOf(left)
  BY DEF StepOf, CloseStep
<1>4. /\ requests' = requests /\ txs' = txs /\ page' = p
      /\ mounts' = [f \in Forms |-> IF f \in left THEN mounts[f] + 1 ELSE mounts[f]]
  BY DEF Navigate, Closed
<1>5. ASSUME NEW form \in all, form \notin left PROVE AtRest(form)
  <2>1. CASE form = "swap"
    <3>1. page # "swap"
      BY <1>5, <2>1 DEF FormsOf
    <3>2. QED
      BY <2>1, <3>1, SwapFacts DEF SwapOk
  <2>2. CASE form \in {"add", "remove"}
    <3>1. page # "liquidity"
      BY <1>5, <2>2 DEF FormsOf
    <3>2. QED
      BY <2>2, <3>1, LiquidityFacts DEF AddOk, RemoveOk
  <2>3. CASE form \in StakingForms
    <3>1. page # "staking"
      BY <1>5, <2>3 DEF FormsOf, StakingForms
    <3>2. dialog = "none"
      BY <3>1, StakingFacts DEF DialogTyped
    <3>3. QED
      BY <2>3, <3>1, <3>2, StakingFacts DEF StakingForms, StakeOk, FundOk, AdminOk
  <2>4. CASE form \in GForms
    <3>1. page # "governance"
      BY <1>5, <2>4 DEF FormsOf, GForms, Governance!GovernanceForms
    <3>2. QED
      BY <2>4, <3>1, GovernanceFacts DEF GovernanceOk, Busy
  <2>5. QED
    BY <1>5, <2>1, <2>2, <2>3, <2>4
<1>6. ASSUME NEW form \in all PROVE AtRest(form)'
  <2>1. CASE form \in left
    <3>1. mounts'[form] = mounts[form] + 1 /\ form \in Forms
      BY <1>1, <1>4, <2>1
    <3>2. QED
      BY <1>4, <3>1, ClosedView, SwapFacts
  <2>2. CASE form \notin left
    <3>1. mounts'[form] = mounts[form]
      BY <1>1, <1>4, <2>2
    <3>2. QED
      BY <1>4, <1>5, <2>2, <3>1 DEF AtRest, Asking, Announced
  <2>3. QED
    BY <2>1, <2>2
<1>7. /\ ("swap" \in left <=> page = "swap") /\ ("stake" \in left <=> page = "staking")
      /\ "swap" \in Forms /\ "stake" \in Forms
  BY SwapFacts, StakingFacts DEF FormsOf, Governance!GovernanceForms
<1>8. QED
  BY <1>1, <1>2, <1>3, <1>4, <1>6, <1>7

LEMMA LeaveSwap ==
  ASSUME IInv, Leave
  PROVE  SwapTyped' /\ SwapOk'
<1>1. PICK p \in Pages : Navigate(p, FormsOf(page)) /\ p # page
  BY DEF Leave, Navigate
<1>2. /\ requests' = requests /\ txs' = txs /\ page' = p /\ AtRest("swap")'
      /\ mounts'["swap"] = (IF page = "swap" THEN mounts["swap"] + 1 ELSE mounts["swap"])
  BY <1>1, LeaveRests
<1>3. /\ swapPanel' = [selected |-> 1, approveHash |-> NoHash, ran |-> <<>>]
      /\ UNCHANGED <<market, swapStore, refetches, overtaken>>
  BY SwapTerms DEF Leave, Swap!FreshPanel
<1>4. swapPanel'.approveHash = NoHash /\ swapPanel' \in PanelTypes
  BY <1>3 DEF PanelTypes, NoHash
<1>5. SwapTyped'
  BY <1>2, <1>3, <1>4 DEF IInv, FlowsTyped, SwapTyped, IsOf, PanelTypes, NoHash
<1>6. Open("swap")' = Open("swap") /\ Announced("swap")' = {}
  BY <1>2 DEF Open, AtRest
<1>7. ASSUME SwapFollowed PROVE SwapFollowed'
  <2>1. (SwapUnderway' <=> SwapUnderway) /\ (ApprovalUnderway' => ApprovalUnderway)
    BY <1>3, <1>4, <1>6 DEF SwapUnderway, ApprovalUnderway, NoHash
  <2>2. /\ Reverted(swapStore.hash)' <=> Reverted(swapStore.hash)
        /\ Waiting(swapStore.hash)' <=> Waiting(swapStore.hash)
    BY <1>2, <1>3 DEF Reverted, Waiting, NoHash
  <2>3. ApprovalsAnnounced' = {} /\ SwapsSent' = SwapsSent
    BY <1>2, <1>6 DEF ApprovalsAnnounced, SwapsSent
  <2>4. QED
    BY <1>2, <1>3, <1>4, <1>6, <1>7, <2>1, <2>2, <2>3 DEF SwapFollowed, One, NoHash
<1>8. \A f \in refetches' : f.mount <= mounts'["swap"] /\ f.mount # mounts'["swap"]
  <2>1. ASSUME NEW f \in refetches
        PROVE  f.mount <= mounts'["swap"] /\ f.mount # mounts'["swap"]
    <3>1. f.mount \in Nat /\ f.mount <= mounts["swap"] /\ mounts["swap"] \in Nat
      BY SwapFacts DEF SwapOk
    <3>2. page # "swap" => f.mount # mounts["swap"]
      BY SwapFacts DEF SwapOk
    <3>3. QED
      BY <1>2, <3>1, <3>2
  <2>2. QED
    BY <1>3, <2>1
<1>9. SwapOk'
  BY <1>2, <1>3, <1>6, <1>7, <1>8, SwapFacts DEF SwapOk
<1>10. QED
  BY <1>5, <1>9

LEMMA LeaveLiquidity ==
  ASSUME IInv, Leave
  PROVE  LiquidityTyped' /\ AddOk' /\ RemoveOk'
<1>1. PICK p \in Pages : Navigate(p, FormsOf(page))
  BY DEF Leave
<1>2. requests' = requests /\ txs' = txs /\ AtRest("add")' /\ AtRest("remove")'
  BY <1>1, LeaveRests
<1>3. /\ modal' = "closed"
      /\ addHook' = [approveHash |-> NoHash, ran |-> <<>>, addHash |-> NoHash]
      /\ removal' = [percent |-> 0, confirming |-> FALSE, step |-> "idle", hash |-> NoHash]
      /\ UNCHANGED <<addStore, addRefetches, displaced>>
  BY LiquidityTerms DEF Leave, Liquidity!FreshAddHook, Liquidity!FreshRemoval
<1>4. addHook' \in AddHookTypes /\ addHook'.approveHash = NoHash /\ addHook'.addHash = NoHash
  BY <1>3 DEF AddHookTypes, NoHash
<1>5. AddTyped'
  BY <1>2, <1>3, <1>4, LiquidityFacts DEF AddTyped, AddStoreTypes, AddHookTypes, IsOf, NoHash
<1>6. RemoveTyped' /\ ModalTyped'
  BY <1>3 DEF RemoveTyped, ModalTyped, IsOf, NoHash
<1>7. Open("add")' = Open("add")
  BY <1>2 DEF Open
<1>8. AddOk' /\ RemoveOk'
  BY <1>2, <1>3, <1>7, LiquidityFacts DEF AddOk, RemoveOk, One
<1>9. QED
  BY <1>5, <1>6, <1>8 DEF LiquidityTyped

LEMMA LeaveStaking ==
  ASSUME IInv, Leave
  PROVE  StakingTyped' /\ StakeOk' /\ FundOk' /\ AdminOk("manage")' /\ AdminOk("addPool")'
<1>1. PICK p \in Pages : Navigate(p, FormsOf(page)) /\ p # page
  BY DEF Leave, Navigate
<1>2. /\ \A form \in StakingForms : AtRest(form)'
      /\ mounts'["stake"] = (IF page = "staking" THEN mounts["stake"] + 1 ELSE mounts["stake"])
  BY <1>1, LeaveRests
<1>3. /\ panel' = [tab |-> "stake", amount |-> 0, step |-> "idle", hash |-> NoHash,
                   action |-> "none", approveHash |-> NoHash, ran |-> NoHash]
      /\ fund' = [amount |-> 0, step |-> "idle", approveHash |-> NoHash, hash |-> NoHash]
      /\ admin' = [active |-> "none", hash |-> NoHash]
      /\ dialog' = "none" /\ UNCHANGED <<pool, stakeRefetch, dropped>>
  BY StakingTerms DEF Leave, Staking!FreshStake, Staking!FreshFund, Staking!FreshAdmin
<1>4. 0 \in Amounts
  BY SessionAssumption
<1>5. panel' \in StakePanels /\ fund' \in Funds /\ admin' \in Admins
  BY <1>3, <1>4 DEF StakePanels, Funds, Admins, NoHash
<1>6. StakingTyped'
  BY <1>3, <1>5, StakingFacts
     DEF StakingTyped, StakeTyped, FundTyped, AdminTyped, DialogTyped, IsOf, NoHash
<1>7. AtRest("stake")' /\ AtRest("fund")' /\ AtRest("manage")' /\ AtRest("addPool")'
  BY <1>2 DEF StakingForms
<1>8. \A m \in stakeRefetch' : m <= mounts'["stake"] /\ m # mounts'["stake"]
  <2>1. ASSUME NEW m \in stakeRefetch PROVE m <= mounts'["stake"] /\ m # mounts'["stake"]
    <3>1. m \in Nat /\ m <= mounts["stake"] /\ mounts["stake"] \in Nat
      BY StakingFacts DEF StakeOk
    <3>2. page # "staking" => m # mounts["stake"]
      BY StakingFacts DEF StakeOk, Refetching
    <3>3. QED
      BY <1>2, <3>1, <3>2
  <2>2. QED
    BY <1>3, <2>1
<1>9. ~Refetching'
  BY <1>8 DEF Refetching
<1>10. Asking("stake")' = {} /\ Announced("stake")' = {}
  BY <1>7 DEF AtRest
<1>11. StakeFollowed'
  BY <1>3, <1>9, <1>10 DEF StakeFollowed, One, NoHash
<1>12. StakeOk'
  BY <1>7, <1>8, <1>9, <1>11 DEF StakeOk
<1>13. FundOk' /\ AdminOk("manage")' /\ AdminOk("addPool")'
  BY <1>3, <1>7 DEF FundOk, AdminOk
<1>14. QED
  BY <1>6, <1>12, <1>13

LEMMA LeaveGovernance ==
  ASSUME IInv, Leave
  PROVE  GovernanceTyped' /\ \A form \in GForms : GovernanceOk(form)'
<1>1. PICK p \in Pages : Navigate(p, FormsOf(page))
  BY DEF Leave
<1>2. \A form \in GForms : AtRest(form)'
  BY <1>1, LeaveRests
<1>3. /\ card' = [confirming |-> FALSE, loading |-> FALSE, voted |-> FALSE, success |-> FALSE]
      /\ busy' = {} /\ creating' = FALSE /\ UNCHANGED <<ended, facts>>
  BY DEF Leave, Governance!FreshCard
<1>4. GovernanceTyped'
  BY <1>3, GovernanceFacts DEF GovernanceTyped
<1>5. ASSUME NEW form \in GForms PROVE GovernanceOk(form)'
  BY <1>2, <1>5 DEF GovernanceOk, AtRest, One
<1>6. QED
  BY <1>4, <1>5

LEMMA LeaveKeeps ==
  ASSUME IInv, Leave
  PROVE  IInv'
<1>1. PICK p \in Pages : Navigate(p, FormsOf(page))
  BY DEF Leave
<1>2. StepOf(FormsOf(page)) /\ FormsOf(page) \in SUBSET Forms
  BY <1>1, LeaveRests
<1>3. /\ SessionOk' /\ TxsAreList'
      /\ ToastsTellTheOutcome' /\ AllowancesKnown' /\ AskedWithinGranted'
  BY <1>2, SessionPart
<1>4. QED
  BY <1>3, LeaveSwap, LeaveLiquidity, LeaveStaking, LeaveGovernance, Together

-----------------------------------------------------------------------------
LEMMA InitOk ==
  ASSUME Init
  PROVE  IInv
<1>1. /\ page \in Pages /\ visit = 1 /\ mounts = [f \in Forms |-> 0]
      /\ requests = {} /\ asked = 0 /\ edits = 0 /\ txs = <<>>
      /\ allowance = Granted /\ known = [t \in Tokens |-> {}]
  BY DEF Init, InitSession
<1>2. DOMAIN txs = {} /\ TxsAreList
  <2>1. txs \in Seq({})
    BY <1>1
  <2>2. QED
    BY <1>1, <2>1 DEF TxsAreList
<1>3. IsFiniteSet(requests) /\ Cardinality(requests) <= asked
  BY <1>1, FS_EmptySet
<1>4. Granted \in [Tokens -> Nat] /\ 0 \in Amounts
  BY SessionAssumption
<1>5. SessionOk
  BY <1>1, <1>2, <1>3, <1>4 DEF SessionOk
<1>6. ToastsTellTheOutcome /\ AllowancesKnown /\ AskedWithinGranted
  BY <1>1, <1>2 DEF ToastsTellTheOutcome, AllowancesKnown, AskedWithinGranted
<1>7. \A form : Asking(form) = {} /\ Announced(form) = {} /\ Open(form) = {} /\ AtRest(form)
  BY <1>1, <1>2 DEF Asking, Announced, Open, AtRest
<1>8. SwapTyped /\ SwapOk
  <2>1. /\ market \in Markets /\ refetches = {} /\ overtaken = FALSE
        /\ swapPanel = [selected |-> 1, approveHash |-> NoHash, ran |-> <<>>]
    BY SwapTerms DEF Init, Swap!InitSwap, Swap!FreshPanel
  <2>2. PICK pair \in Starts :
          swapStore = [tokenIn |-> pair[1], tokenOut |-> pair[2], amountIn |-> 0,
                       slippage |-> 50, step |-> "idle", hash |-> NoHash]
    BY SwapTerms DEF Init, Swap!InitSwap, Swap!Idle
  <2>3. pair[1] \in SwapTokens /\ pair[2] \in SwapTokens /\ 50 \in Slippages
    BY FrontendAssumption DEF SwapTokens
  <2>4. swapStore \in StoreTypes /\ swapStore.hash = NoHash /\ swapStore.step = "idle"
    BY <1>4, <2>2, <2>3 DEF StoreTypes, SwapSteps, NoHash
  <2>5. swapPanel \in PanelTypes /\ swapPanel.approveHash = NoHash
    BY <2>1 DEF PanelTypes, NoHash
  <2>6. SwapTyped
    BY <2>1, <2>4, <2>5 DEF SwapTyped, StoreTypes, PanelTypes, IsOf
  <2>7. ~SwapUnderway /\ ApprovalsAnnounced = {} /\ SwapsSent = {} /\ ~Waiting(swapStore.hash)
    BY <1>2, <1>7, <2>4 DEF SwapUnderway, ApprovalsAnnounced, SwapsSent, Waiting
  <2>8. SwapFollowed
    BY <1>7, <2>1, <2>7 DEF SwapFollowed, One
  <2>9. QED
    BY <1>7, <2>1, <2>6, <2>8 DEF SwapOk
<1>9. LiquidityTyped /\ AddOk /\ RemoveOk
  <2>1. /\ modal = "closed" /\ addRefetches = {} /\ displaced = FALSE
        /\ addStore = [token0 |-> "none", token1 |-> "none", amount0 |-> 0, amount1 |-> 0,
                       step |-> "idle", hash |-> NoHash]
        /\ addHook = [approveHash |-> NoHash, ran |-> <<>>, addHash |-> NoHash]
        /\ removal = [percent |-> 0, confirming |-> FALSE, step |-> "idle", hash |-> NoHash]
    BY LiquidityTerms
       DEF Init, Liquidity!InitLiquidity, Liquidity!EmptyAdd, Liquidity!FreshAddHook,
           Liquidity!FreshRemoval, Liquidity!NoToken
  <2>2. addStore \in AddStoreTypes
    BY <2>1 DEF AddStoreTypes, AddTokens, AddSteps, Liquidity!NoToken, NoHash
  <2>3. LiquidityTyped
    BY <2>1, <2>2
       DEF LiquidityTyped, ModalTyped, AddTyped, RemoveTyped, AddStoreTypes, IsOf, NoHash
  <2>4. QED
    BY <1>7, <2>1, <2>3 DEF AddOk, RemoveOk, One
<1>10. StakingTyped /\ StakeOk /\ FundOk /\ AdminOk("manage") /\ AdminOk("addPool")
  <2>1. /\ pool \in {"active", "paused", "closed"} /\ stakeRefetch = {} /\ dialog = "none"
        /\ dropped = FALSE
        /\ panel = [tab |-> "stake", amount |-> 0, step |-> "idle", hash |-> NoHash,
                    action |-> "none", approveHash |-> NoHash, ran |-> NoHash]
        /\ fund = [amount |-> 0, step |-> "idle", approveHash |-> NoHash, hash |-> NoHash]
        /\ admin = [active |-> "none", hash |-> NoHash]
    BY StakingTerms
       DEF Init, Staking!InitStaking, Staking!FreshStake, Staking!FreshFund, Staking!FreshAdmin
  <2>2. panel \in StakePanels /\ fund \in Funds /\ admin \in Admins
    BY <1>4, <2>1 DEF StakePanels, Funds, Admins, NoHash
  <2>3. StakingTyped
    BY <2>1, <2>2 DEF StakingTyped, StakeTyped, FundTyped, AdminTyped, DialogTyped, IsOf
  <2>4. ~Refetching /\ panel.approveHash = NoHash
    BY <2>1 DEF Refetching
  <2>5. StakeFollowed
    BY <1>7, <2>4 DEF StakeFollowed, One
  <2>6. QED
    BY <1>7, <2>1, <2>3, <2>4, <2>5 DEF StakeOk, FundOk, AdminOk
<1>11. GovernanceTyped /\ \A form \in Governance!GovernanceForms : GovernanceOk(form)
  <2>1. /\ ended = FALSE /\ facts = [fact \in Governance!Facts |-> {}]
        /\ card = [confirming |-> FALSE, loading |-> FALSE, voted |-> FALSE, success |-> FALSE]
        /\ busy = {} /\ creating = FALSE
    BY DEF Init, Governance!InitGovernance, Governance!Unasked, Governance!FreshCard
  <2>2. GovernanceTyped
    BY <2>1 DEF GovernanceTyped
  <2>3. QED
    BY <1>7, <2>2 DEF GovernanceOk, One
<1>12. QED
  BY <1>2, <1>5, <1>6, <1>8, <1>9, <1>10, <1>11 DEF IInv, FlowsTyped, FormsOk

-----------------------------------------------------------------------------
(* Every step of the specification keeps the invariant. *)
LEMMA Inductive == Spec => []IInv
<1>1. Init => IInv
  BY InitOk
<1>2. IInv /\ [Next]_vars => IInv'
  <2> SUFFICES ASSUME IInv, [Next]_vars PROVE IInv'
    OBVIOUS
  <2>1. CASE SwapStep
    BY <2>1, SwapStepKeeps
  <2>2. CASE LiquidityStep
    BY <2>2, LiquidityStepKeeps
  <2>3. CASE StakingStep
    BY <2>3, StakingStepKeeps
  <2>4. CASE GovernanceStep
    BY <2>4, GovernanceStepKeeps
  <2>5. CASE Answered \/ Mined \/ UNCHANGED vars
    BY <2>5, ChainStepKeeps
  <2>6. CASE Leave
    BY <2>6, LeaveKeeps
  <2>7. QED
    BY <2>1, <2>2, <2>3, <2>4, <2>5, <2>6 DEF Next
<1>3. QED
  BY <1>1, <1>2, PTL DEF Spec

-----------------------------------------------------------------------------
(* What the invariant says of the page. *)
LEMMA IInvTypeOK ==
  ASSUME IInv
  PROVE  TypeOK
<1>1. /\ page \in Pages /\ visit \in Nat /\ mounts \in [Forms -> Nat]
      /\ Cardinality(requests) <= asked /\ asked \in Nat /\ edits \in Nat
      /\ \A h \in DOMAIN txs : /\ txs[h].status \in {"pending", "success", "reverted"}
                               /\ txs[h].toast \in {"pending", "success", "error"}
      /\ allowance \in [Tokens -> Nat] /\ known \in [Tokens -> SUBSET Nat]
  BY DEF IInv, SessionOk, TxOk
<1>2. Swap!SwapTypeOK
  <2>1. SwapTyped
    BY DEF IInv, FlowsTyped
  <2>2. 1 .. Swap!R!MaxOptions = 1 .. 2
    BY DEF Swap!R!MaxOptions
  <2>3. QED
    BY <2>1, <2>2
       DEF SwapTyped, IsOf, SwapTokens, SwapSteps, Swap!SwapTypeOK, Swap!s, Swap!Idle,
           Swap!NoHash, NoHash
<1>3. Liquidity!LiquidityTypeOK
  BY DEF IInv, FlowsTyped, LiquidityTyped, ModalTyped, AddTyped, RemoveTyped, IsOf,
         AddTokens, AddSteps, Approving, Liquidity!LiquidityTypeOK, Liquidity!a,
         Liquidity!Held, Liquidity!NoHash, NoHash
<1>4. Staking!StakingTypeOK
  BY DEF IInv, FlowsTyped, StakingTyped, StakeTyped, DialogTyped, FundTyped, AdminTyped, IsOf,
         StakePanels, Funds, Admins, Staking!StakingTypeOK, Staking!p, Staking!f,
         Staking!NoHash, NoHash
<1>5. Governance!GovernanceTypeOK
  BY DEF IInv, FlowsTyped, GovernanceTyped, Governance!GovernanceTypeOK,
         Governance!GovernanceForms
<1>6. QED
  BY <1>1, <1>2, <1>3, <1>4, <1>5 DEF TypeOK

LEMMA IInvWithinAllowance ==
  ASSUME IInv
  PROVE  AskedWithinAllowance
<1> SUFFICES ASSUME NEW r \in requests, NEW t \in DOMAIN r.call.spends,
                    allowance[t] < r.call.spends[t], ~Touched(t)
             PROVE  AfterFailure(r.call)
  BY DEF AskedWithinAllowance, Touched, AfterFailure
<1>1. t \in Tokens /\ r.call.spends[t] \in Nat /\ allowance[t] \in Nat
  BY DEF IInv, SessionOk, RequestOk, CallOk
<1>2. allowance[t] = Granted[t]
  BY <1>1 DEF IInv, AllowancesKnown
<1>3. AfterFailure(r.call) \/ r.call.spends[t] <= Granted[t]
  BY DEF IInv, AskedWithinGranted
<1>4. QED
  BY <1>1, <1>2, <1>3

LEMMA IInvWatched ==
  ASSUME IInv
  PROVE  PendingToastsAreWatched
<1> SUFFICES ASSUME NEW h \in DOMAIN txs, txs[h].toast = "pending",
                    ~Watched(h),
                    \/ txs[h].mount = mounts[txs[h].form]
                    \/ txs[h].form = "swap" /\ txs[h].call.op = "swap"
             PROVE  \/ txs[h].form = "swap" /\ overtaken
                    \/ txs[h].form = "add" /\ displaced
                    \/ txs[h].form = "stake" /\ dropped
                    \/ txs[h].form = "fund" /\ txs[h].call.op = "approve"
  BY DEF PendingToastsAreWatched
<1>1. txs[h].form \in Forms
  BY DEF IInv, SessionOk, TxOk
<1>2. txs[h].form \notin GForms
  BY DEF Watched, GForms, Governance!GovernanceForms
<1>3. ASSUME txs[h].form = "swap", ~overtaken PROVE FALSE
  <2>1. SwapFollowed
    BY <1>3, SwapFacts DEF SwapOk
  <2>2. CASE txs[h].call.op = "swap"
    BY <1>3, <2>1, <2>2 DEF SwapFollowed, SwapsSent, Watched
  <2>3. CASE txs[h].call.op # "swap"
    BY <1>3, <2>1, <2>3 DEF SwapFollowed, ApprovalsAnnounced, Announced, Watched
  <2>4. QED
    BY <2>2, <2>3
<1>4. ASSUME txs[h].form # "swap" PROVE h \in Announced(txs[h].form)
  BY <1>4 DEF Announced
<1>5. ASSUME txs[h].form = "add", ~displaced PROVE FALSE
  BY <1>4, <1>5, LiquidityFacts DEF AddOk, AddFollowed, AtRest, Watched
<1>6. ASSUME txs[h].form = "remove" PROVE FALSE
  BY <1>4, <1>6, LiquidityFacts DEF RemoveOk, AtRest, Watched
<1>7. ASSUME txs[h].form = "stake", ~dropped PROVE FALSE
  BY <1>4, <1>7, StakingFacts DEF StakeOk, StakeFollowed, Watched
<1>8. ASSUME txs[h].form = "fund", txs[h].call.op # "approve" PROVE FALSE
  BY <1>4, <1>8, StakingFacts DEF FundOk, AtRest, Watched
<1>9. ASSUME txs[h].form \in {"manage", "addPool"} PROVE FALSE
  BY <1>4, <1>9, StakingFacts DEF AdminOk, AtRest, Watched
<1>10. QED
  BY <1>1, <1>2, <1>3, <1>5, <1>6, <1>7, <1>8, <1>9, FrontendAssumption
     DEF GForms, Governance!GovernanceForms

-----------------------------------------------------------------------------
(* Requests of forms that are gone stay in the wallet: for them, that they *)
(* are one of a kind is kept from when their form was there.               *)
LEMMA NewRequestsAreCurrent ==
  ASSUME SessionOk, NEW S, StepOf(S), NEW r \in requests', r \notin requests
  PROVE  r.mount = mounts'[r.form]
<1>1. CASE AskStep(S)
  <2>1. PICK form \in S : \E call : Request(form, call)
    BY <1>1 DEF AskStep
  <2>2. PICK call : Request(form, call)
    BY <2>1
  <2>3. r = [id |-> asked + 1, form |-> form, mount |-> mounts[form], call |-> call]
    BY <2>2 DEF Request
  <2>4. QED
    BY <2>2, <2>3 DEF Request
<1>2. CASE SendStep(S) \/ RejectStep(S)
  BY <1>2 DEF SendStep, RejectStep, Send, Reject
<1>3. CASE ToastStep(S) \/ LearnStep(S) \/ CloseStep(S)
  BY <1>3 DEF ToastStep, LearnStep, CloseStep, ToastClosing, Learn, Unmount, Navigate
<1>4. CASE MineStep \/ ReadStep \/ Editing \/ Mount \/ UNCHANGED session
  BY <1>4 DEF MineStep, ReadStep, MineTx, ReadAllowance, Editing, Mount, session
<1>5. QED
  BY <1>1, <1>2, <1>3, <1>4 DEF StepOf

Overwritten(form) ==
  \/ form = "swap" /\ overtaken
  \/ form = "add" /\ displaced
  \/ form = "stake" /\ dropped
OneCurrentRequest == \A r, q \in requests :
  r # q /\ r.form = q.form /\ r.mount = q.mount /\ r.mount = mounts[r.form] =>
    Overwritten(r.form)

LEMMA IInvOneCurrent ==
  ASSUME IInv
  PROVE  OneCurrentRequest
<1> SUFFICES ASSUME NEW r \in requests, NEW q \in requests, r # q,
                    r.form = q.form, r.mount = q.mount, r.mount = mounts[r.form]
             PROVE  Overwritten(r.form)
  BY DEF OneCurrentRequest
<1>1. r.form \in Forms
  BY DEF IInv, SessionOk, RequestOk
<1>2. ~One(Asking(r.form)) /\ ~One(Open(r.form)) /\ Asking(r.form) # {}
  BY DEF One, Asking, Open
<1>3. CASE r.form = "swap"
  BY <1>2, <1>3, SwapFacts DEF SwapOk, SwapFollowed, Overwritten
<1>4. CASE r.form = "add"
  BY <1>2, <1>4, LiquidityFacts DEF AddOk, Overwritten
<1>5. r.form # "remove"
  BY <1>2, LiquidityFacts DEF RemoveOk, AtRest
<1>6. CASE r.form = "stake"
  BY <1>2, <1>6, StakingFacts DEF StakeOk, StakeFollowed, Overwritten
<1>7. r.form # "fund"
  BY <1>2, StakingFacts DEF FundOk, AtRest
<1>8. r.form \notin {"manage", "addPool"}
  BY <1>2, StakingFacts DEF AdminOk, AtRest
<1>9. r.form \notin GForms
  BY <1>2, GovernanceFacts DEF GovernanceOk
<1>10. QED
  BY <1>1, <1>3, <1>4, <1>5, <1>6, <1>7, <1>8, <1>9, FrontendAssumption
     DEF GForms, Governance!GovernanceForms

LEMMA SomeStep ==
  ASSUME IInv, [Next]_vars
  PROVE  \E S : StepOf(S)
<1>1. CASE SwapStep
  BY <1>1, SwapStepsOf DEF SwapStep
<1>2. CASE LiquidityStep
  BY <1>2, LiquidityStepsKeep DEF LiquidityStep, LiquidityKept
<1>3. CASE StakingStep
  BY <1>3, StakingStepsKeep DEF StakingStep, StakingKept
<1>4. CASE GovernanceStep
  BY <1>4, GovernanceStepsKeep DEF GovernanceStep, GovernanceKept
<1>5. CASE Answered \/ Mined
  BY <1>5, FrontendAssumption DEF Answered, Mined, ReadHere, StepOf, MineStep, ReadStep
<1>6. CASE Leave
  <2>1. PICK p \in Pages : Navigate(p, FormsOf(page))
    BY <1>6 DEF Leave
  <2>2. QED
    BY <2>1, LeaveRests
<1>7. CASE UNCHANGED vars
  BY <1>7 DEF vars, StepOf
<1>8. QED
  BY <1>1, <1>2, <1>3, <1>4, <1>5, <1>6, <1>7 DEF Next

LEMMA SwapHistory ==
  ASSUME Swap!NextSwap
  PROVE  overtaken => overtaken'
<1>1. CASE Swap!SetAmountIn \/ Swap!SetTokenIn \/ Swap!SetTokenOut \/ Swap!Flip
  BY <1>1 DEF Swap!SetAmountIn, Swap!SetTokenIn, Swap!SetTokenOut, Swap!Flip, Swap!Edit
<1>2. CASE Swap!SetSlippage \/ Swap!SelectRoute \/ Swap!FollowForm
  BY <1>2 DEF Swap!SetSlippage, Swap!SelectRoute, Swap!FollowForm
<1>3. CASE Swap!HandleApprove
  BY <1>3 DEF Swap!HandleApprove
<1>4. CASE Swap!HandleSwap
  BY <1>4 DEF Swap!HandleSwap
<1>5. CASE Swap!ApproveMined \/ Swap!ApproveReverted \/ Swap!SwapMined \/ Swap!CloseConfirmed
  BY <1>5 DEF Swap!ApproveMined, Swap!ApproveReverted, Swap!SwapMined, Swap!CloseConfirmed
<1>6. CASE \E f \in refetches : Swap!RefetchDone(f)
  BY <1>6 DEF Swap!RefetchDone
<1>7. ASSUME NEW r, \/ Swap!ApproveSigned(r) \/ Swap!ApproveRejected(r)
                    \/ Swap!SwapSigned(r) \/ Swap!SwapRejected(r)
      PROVE  overtaken' = overtaken
  BY <1>7 DEF Swap!ApproveSigned, Swap!ApproveRejected, Swap!SwapSigned, Swap!SwapRejected
<1>8. QED
  BY <1>1, <1>2, <1>3, <1>4, <1>5, <1>6, <1>7 DEF Swap!NextSwap

LEMMA LiquidityHistory ==
  ASSUME Liquidity!NextLiquidity
  PROVE  displaced => displaced'
<1>1. CASE Liquidity!OpenAdd
  BY <1>1 DEF Liquidity!OpenAdd
<1>2. CASE Liquidity!OpenRemove \/ Liquidity!CloseModal
  BY <1>2 DEF Liquidity!OpenRemove, Liquidity!CloseModal
<1>3. CASE \/ Liquidity!SelectToken \/ Liquidity!SetAmount0 \/ Liquidity!SetAmount1
           \/ Liquidity!FollowForm
  BY <1>3 DEF Liquidity!SelectToken, Liquidity!SetAmount0, Liquidity!SetAmount1,
              Liquidity!FollowForm, Liquidity!EditAdd
<1>4. CASE \/ Liquidity!HandleApprove0 \/ Liquidity!HandleApprove1
           \/ Liquidity!HandleAddLiquidity
  BY <1>4 DEF Liquidity!HandleApprove0, Liquidity!HandleApprove1, Liquidity!HandleApprove,
              Liquidity!HandleAddLiquidity
<1>5. CASE Liquidity!ApproveMined \/ Liquidity!ApproveReverted \/ Liquidity!AddMined
  BY <1>5 DEF Liquidity!ApproveMined, Liquidity!ApproveReverted, Liquidity!AddMined
<1>6. CASE \/ Liquidity!SetPercent \/ Liquidity!AskConfirmation \/ Liquidity!CancelConfirmation
           \/ Liquidity!HandleConfirmRemove \/ Liquidity!RemoveMined
  BY <1>6 DEF Liquidity!SetPercent, Liquidity!AskConfirmation, Liquidity!CancelConfirmation,
              Liquidity!HandleConfirmRemove, Liquidity!RemoveMined
<1>7. CASE \E f \in addRefetches : Liquidity!RefetchDone(f)
  BY <1>7 DEF Liquidity!RefetchDone
<1>8. ASSUME NEW r, \/ Liquidity!AddRequestSigned(r) \/ Liquidity!AddRequestRejected(r)
                    \/ Liquidity!RemoveSigned(r) \/ Liquidity!RemoveRejected(r)
      PROVE  displaced' = displaced
  BY <1>8 DEF Liquidity!AddRequestSigned, Liquidity!AddRequestRejected,
              Liquidity!RemoveSigned, Liquidity!RemoveRejected
<1>9. QED
  BY <1>1, <1>2, <1>3, <1>4, <1>5, <1>6, <1>7, <1>8 DEF Liquidity!NextLiquidity

LEMMA StakingHistory ==
  ASSUME Staking!NextStaking
  PROVE  dropped => dropped'
<1>1. CASE Staking!SetTab
  BY <1>1 DEF Staking!SetTab
<1>2. CASE Staking!SetAmount \/ Staking!CloseConfirmed
  BY <1>2 DEF Staking!SetAmount, Staking!CloseConfirmed
<1>3. CASE \/ Staking!HandleApprove \/ Staking!HandleDeposit \/ Staking!HandleWithdraw
           \/ Staking!HandleClaim
  BY <1>3 DEF Staking!HandleApprove, Staking!HandleDeposit, Staking!HandleWithdraw,
              Staking!HandleClaim
<1>4. CASE Staking!ApproveMined \/ Staking!ApproveReverted \/ Staking!StakeMined
  BY <1>4 DEF Staking!ApproveMined, Staking!ApproveReverted, Staking!StakeMined
<1>5. CASE \E m \in stakeRefetch : Staking!RefetchDone(m)
  BY <1>5 DEF Staking!RefetchDone
<1>6. ASSUME NEW r, Staking!StakeSigned(r) \/ Staking!StakeRejected(r)
      PROVE  dropped' = dropped
  BY <1>6 DEF Staking!StakeSigned, Staking!StakeRejected
<1>7. ASSUME NEW r, Staking!FundSigned(r) \/ Staking!FundRejected(r) \/ Staking!AdminAnswered(r)
      PROVE  dropped' = dropped
  BY <1>7 DEF Staking!FundSigned, Staking!FundRejected, Staking!AdminAnswered, Staking!InDialog
<1>8. CASE Staking!OpenDialog \/ Staking!CloseDialog
  BY <1>8 DEF Staking!OpenDialog, Staking!CloseDialog, Staking!InDialog
<1>9. CASE Staking!SetFundAmount \/ Staking!HandleTransfer \/ Staking!FundMined
  BY <1>9 DEF Staking!SetFundAmount, Staking!HandleTransfer, Staking!FundMined,
              Staking!InDialog
<1>10. CASE \/ Staking!PauseRewards \/ Staking!UpdateRate \/ Staking!UpdateCap
            \/ Staking!AddPool \/ Staking!ResumeRewards \/ Staking!AdminMined
  BY <1>10 DEF Staking!PauseRewards, Staking!UpdateRate, Staking!UpdateCap, Staking!AddPool,
               Staking!ResumeRewards, Staking!AdminMined, Staking!Submit, Staking!InDialog,
               Staking!stakingVars
<1>11. QED
  BY <1>1, <1>2, <1>3, <1>4, <1>5, <1>6, <1>7, <1>8, <1>9, <1>10 DEF Staking!NextStaking

LEMMA HistoryStays ==
  ASSUME [Next]_vars
  PROVE  (overtaken => overtaken') /\ (displaced => displaced') /\ (dropped => dropped')
<1>1. CASE SwapStep
  BY <1>1, SwapHistory DEF SwapStep, liquidityVars, stakingVars
<1>2. CASE LiquidityStep
  BY <1>2, LiquidityHistory DEF LiquidityStep, swapVars, stakingVars
<1>3. CASE StakingStep
  BY <1>3, StakingHistory DEF StakingStep, swapVars, liquidityVars
<1>4. CASE GovernanceStep
  BY <1>4 DEF GovernanceStep, swapVars, liquidityVars, stakingVars
<1>5. CASE Answered \/ Mined \/ UNCHANGED vars
  BY <1>5 DEF Answered, Mined, vars, flows, swapVars, liquidityVars, stakingVars
<1>6. CASE Leave
  BY <1>6 DEF Leave
<1>7. QED
  BY <1>1, <1>2, <1>3, <1>4, <1>5, <1>6 DEF Next

LEMMA OneRequestKept ==
  ASSUME IInv, OneRequestPerForm, [Next]_vars, OneCurrentRequest'
  PROVE  OneRequestPerForm'
<1> SUFFICES ASSUME NEW r \in requests', NEW q \in requests',
                    r # q, r.form = q.form, r.mount = q.mount, r.call.op = q.call.op
             PROVE  Overwritten(r.form)'
  BY DEF OneRequestPerForm, Overwritten
<1>1. CASE r.mount = mounts'[r.form]
  BY <1>1 DEF OneCurrentRequest
<1>2. CASE r.mount # mounts'[r.form]
  <2>1. r \in requests /\ q \in requests
    <3>1. PICK S : StepOf(S)
      BY SomeStep
    <3>2. SessionOk
      BY DEF IInv
    <3>3. QED
      BY <1>2, <3>1, <3>2, NewRequestsAreCurrent
  <2>2. Overwritten(r.form)
    BY <2>1 DEF OneRequestPerForm, Overwritten
  <2>3. QED
    BY <2>2, HistoryStays DEF Overwritten
<1>3. QED
  BY <1>1, <1>2

-----------------------------------------------------------------------------
(* The routes of lib/amm.ts and what they pay, against the reference: each *)
(* function the code computes by a loop exists, and an induction says what *)
(* it holds.                                                               *)

(* The function behind Neighbours. *)
FarEnd(q, token) == IF q.token0 = token THEN q.token1 ELSE q.token0
MetUpTo(g, n, pools, token) ==
  g = [i \in 0..n |->
         IF i = 0 THEN <<>>
         ELSE IF \/ token \notin {pools[i].token0, pools[i].token1}
                 \/ Contains(g[i - 1], FarEnd(pools[i], token))
              THEN g[i - 1] ELSE Append(g[i - 1], FarEnd(pools[i], token))]

LEMMA NeighboursAreMet ==
  ASSUME NEW pools, NEW token
  PROVE  Neighbours(pools, token) = (CHOOSE g : MetUpTo(g, Len(pools), pools, token))[Len(pools)]
BY DEF Neighbours, MetUpTo, FarEnd

LEMMA PoolsAre ==
  ASSUME NEW pools, IsPoolList(pools)
  PROVE  /\ Len(pools) \in Nat /\ DOMAIN pools = 1..Len(pools)
         /\ \A i \in 1..Len(pools) :
              /\ pools[i].reserve0 \in Nat /\ pools[i].reserve1 \in Nat
              /\ pools[i].token0 \in PathTokens(pools) /\ pools[i].token1 \in PathTokens(pools)
              /\ \A token : FarEnd(pools[i], token) \in PathTokens(pools)
<1>1. Len(pools) \in Nat /\ DOMAIN pools = 1..Len(pools)
  BY DEF IsPoolList
<1>2. \A i \in DOMAIN pools : /\ pools[i].token0 \in PathTokens(pools)
                              /\ pools[i].token1 \in PathTokens(pools)
  BY DEF PathTokens
<1>3. \A i \in DOMAIN pools : \A token : FarEnd(pools[i], token) \in PathTokens(pools)
  BY <1>2 DEF FarEnd
<1>4. QED
  BY <1>1, <1>2, <1>3 DEF IsPoolList

LEMMA MetExists ==
  ASSUME NEW pools, IsPoolList(pools), NEW token
  PROVE  \E g : /\ MetUpTo(g, Len(pools), pools, token)
                /\ g \in [0..Len(pools) -> Seq(PathTokens(pools))]
<1> DEFINE T == PathTokens(pools)
           n == Len(pools)
           More(v, i) == IF \/ token \notin {pools[i].token0, pools[i].token1}
                            \/ Contains(v, FarEnd(pools[i], token))
                         THEN v ELSE Append(v, FarEnd(pools[i], token))
           H == [i \in Nat |-> [v \in Seq(T) |-> IF i \in 1..n THEN More(v, i) ELSE v]]
<1>1. n \in Nat /\ \A i \in 1..n : FarEnd(pools[i], token) \in T
  BY PoolsAre
<1>2. \A i \in 1..n : \A v \in Seq(T) : More(v, i) \in Seq(T)
  <2> HIDE DEF n, T
  <2>1. QED
    BY <1>1
<1> HIDE DEF More, T, n
<1>3. H \in [Nat -> [Seq(T) -> Seq(T)]]
  BY <1>2
<1>4. \A i \in 1..n : \A v \in Seq(T) : H[i][v] = More(v, i)
  BY <1>1
<1> HIDE DEF H
<1>5. <<>> \in Seq(T)
  OBVIOUS
<1>6. PICK g : Recursion(g, 0, n, <<>>, H, Seq(T))
  BY <1>1, <1>3, <1>5, RecursionExists
<1>7. g \in [0..n -> Seq(T)] /\ \A i \in 0..n : g[i] = IF i = 0 THEN <<>> ELSE H[i][g[i - 1]]
  BY <1>6 DEF Recursion
<1>8. \A i \in 0..n : i # 0 => i \in 1..n /\ i - 1 \in 0..n
  BY <1>1
<1>9. \A i \in 0..n : i # 0 => g[i - 1] \in Seq(T)
  BY <1>7, <1>8
<1>10. \A i \in 0..n : g[i] = IF i = 0 THEN <<>> ELSE More(g[i - 1], i)
  BY <1>4, <1>7, <1>8, <1>9
<1>11. g = [i \in 0..n |-> IF i = 0 THEN <<>> ELSE More(g[i - 1], i)]
  BY <1>7, <1>10
<1>12. MetUpTo(g, n, pools, token)
  BY <1>11 DEF MetUpTo, More
<1>13. QED
  BY <1>7, <1>12 DEF n, T

(* The neighbours of a token are the others it shares a pool with. *)
LEMMA NeighboursAre ==
  ASSUME NEW pools, IsPoolList(pools), NEW token
  PROVE  /\ Neighbours(pools, token) \in Seq(PathTokens(pools))
         /\ \A x : x # token => (Contains(Neighbours(pools, token), x) <=> Leg(pools, token, x))
<1> DEFINE T == PathTokens(pools)
           n == Len(pools)
           g == CHOOSE f : MetUpTo(f, n, pools, token)
<1>1. /\ n \in Nat /\ DOMAIN pools = 1..n
      /\ \A i \in 1..n : FarEnd(pools[i], token) \in T
  BY PoolsAre
<1>2. MetUpTo(g, n, pools, token)
  BY MetExists
<1>3. Neighbours(pools, token) = g[n]
  BY NeighboursAreMet
<1> HIDE DEF g, n, T
<1>4. \A i \in 0..n : g[i] = IF i = 0 THEN <<>>
        ELSE IF \/ token \notin {pools[i].token0, pools[i].token1}
                \/ Contains(g[i - 1], FarEnd(pools[i], token))
             THEN g[i - 1] ELSE Append(g[i - 1], FarEnd(pools[i], token))
  BY <1>2 DEF MetUpTo
<1>5. \A q, x : x # token =>
        (Joins(q, token, x) <=> token \in {q.token0, q.token1} /\ FarEnd(q, token) = x)
  BY DEF Joins, FarEnd
<1> DEFINE Good(m) ==
             /\ g[m] \in Seq(T)
             /\ \A x : x # token =>
                  (Contains(g[m], x) <=> \E i \in 1..m : Joins(pools[i], token, x))
           G == {m \in Nat : m <= n => Good(m)}
<1>6. 0 \in G
  <2>1. g[0] = <<>>
    BY <1>1, <1>4
  <2>2. Good(0)
    BY <2>1 DEF Contains
  <2>3. QED
    BY <2>2
<1>7. ASSUME NEW m \in Nat, m \in G PROVE m + 1 \in G
  <2>1. SUFFICES ASSUME m + 1 <= n PROVE Good(m + 1)
    OBVIOUS
  <2>2. Good(m)
    BY <1>1, <1>7, <2>1
  <2>3. m + 1 \in 1..n /\ m + 1 \in 0..n /\ (m + 1) - 1 = m /\ m + 1 # 0
    BY <1>1, <2>1
  <2> DEFINE q == pools[m + 1]
             far == FarEnd(q, token)
  <2>4. far \in T
    BY <1>1, <2>3
  <2>5. g[m + 1] = IF token \notin {q.token0, q.token1} \/ Contains(g[m], far)
                   THEN g[m] ELSE Append(g[m], far)
    BY <1>4, <2>3
  <2>6. \A x : (\E i \in 1..(m + 1) : Joins(pools[i], token, x))
                 <=> (\E i \in 1..m : Joins(pools[i], token, x)) \/ Joins(q, token, x)
    <3>1. 1..(m + 1) = 1..m \cup {m + 1}
      OBVIOUS
    <3>2. QED
      BY <3>1
  <2> HIDE DEF q, far
  <2>7. CASE token \notin {q.token0, q.token1} \/ Contains(g[m], far)
    <3>1. g[m + 1] = g[m]
      BY <2>5, <2>7
    <3>2. \A x : x # token /\ Joins(q, token, x) => Contains(g[m], x)
      BY <1>5, <2>7 DEF far
    <3>3. QED
      BY <2>2, <2>6, <3>1, <3>2
  <2>8. CASE ~(token \notin {q.token0, q.token1} \/ Contains(g[m], far))
    <3>1. g[m + 1] = Append(g[m], far)
      BY <2>5, <2>8
    <3>2. \A x : Contains(g[m + 1], x) <=> Contains(g[m], x) \/ x = far
      BY <2>2, <2>4, <3>1, AppendHolds
    <3>3. \A x : x # token => (Joins(q, token, x) <=> x = far)
      BY <1>5, <2>8 DEF far
    <3>4. g[m + 1] \in Seq(T)
      BY <2>2, <2>4, <3>1
    <3>5. QED
      BY <2>2, <2>6, <3>2, <3>3, <3>4
  <2>9. QED
    BY <2>7, <2>8
<1>8. \A m \in Nat : m \in G
  <2> HIDE DEF G
  <2>1. QED
    BY <1>6, <1>7, NatUp
<1>9. Good(n)
  <2>1. n \in G
    <3> HIDE DEF G
    <3>1. QED
      BY <1>1, <1>8
  <2>2. n <= n
    BY <1>1
  <2>3. QED
    BY <2>1, <2>2
<1>10. \A x : Leg(pools, token, x) <=> \E i \in 1..n : Joins(pools[i], token, x)
  BY <1>1 DEF Leg
<1>11. QED
  BY <1>3, <1>9, <1>10 DEF T

(* Simple paths from a token, of n tokens. *)
Trails(pools, T, in, n) ==
  {path \in [1..n -> T] : /\ path[1] = in /\ IsInjective(path)
                          /\ \A i \in 1..(n - 1) : Leg(pools, path[i], path[i + 1])}

LEMMA TrailIs ==
  ASSUME NEW pools, NEW T, NEW in, NEW n \in Nat \ {0}, NEW path \in Trails(pools, T, in, n)
  PROVE  /\ path \in Seq(T) /\ Len(path) = n /\ DOMAIN path = 1..n /\ path[1] = in
         /\ Last(path) = path[n] /\ ToSet(path) = {path[i] : i \in 1..n}
         /\ \A i, j \in 1..n : path[i] = path[j] => i = j
         /\ \A i \in 1..(n - 1) : Leg(pools, path[i], path[i + 1])
<1>1. path \in [1..n -> T] /\ path[1] = in /\ IsInjective(path)
      /\ \A i \in 1..(n - 1) : Leg(pools, path[i], path[i + 1])
  BY DEF Trails
<1>2. path \in Seq(T) /\ Len(path) = n /\ DOMAIN path = 1..n
  BY <1>1
<1>3. QED
  BY <1>1, <1>2 DEF IsInjective, Last, ToSet

(* A path is continued by every token it has not been to and a pool leads to. *)
LEMMA StepsAre ==
  ASSUME NEW pools, IsPoolList(pools), NEW T, PathTokens(pools) \subseteq T, NEW in,
         NEW n \in Nat \ {0}, NEW path \in Trails(pools, T, in, n)
  PROVE  /\ Steps(pools, path) \in Seq(Seq(T))
         /\ \A q : Contains(Steps(pools, path), q) <=>
                     q \in Trails(pools, T, in, n + 1) /\ \A i \in 1..n : q[i] = path[i]
<1> DEFINE near == Neighbours(pools, Last(path))
           fresh == Without(near, ToSet(path))
           steps == [i \in DOMAIN fresh |-> Append(path, fresh[i])]
<1>1. /\ path \in Seq(T) /\ Len(path) = n /\ DOMAIN path = 1..n /\ path[1] = in
      /\ Last(path) = path[n] /\ ToSet(path) = {path[i] : i \in 1..n}
      /\ \A i, j \in 1..n : path[i] = path[j] => i = j
      /\ \A i \in 1..(n - 1) : Leg(pools, path[i], path[i + 1])
  BY TrailIs
<1>2. near \in Seq(T)
  <2>1. near \in Seq(PathTokens(pools))
    BY NeighboursAre
  <2> HIDE DEF near
  <2>2. QED
    BY <2>1
<1>3. fresh \in Seq(T) /\ \A x : Contains(fresh, x) <=> Contains(near, x) /\ x \notin ToSet(path)
  <2> HIDE DEF near
  <2>1. KeepsOf(fresh, Len(near), near, ToSet(path), T)
    BY <1>2, WithoutKeeps
  <2>2. QED
    BY <2>1 DEF KeepsOf, Contains
<1>4. \A x : Contains(fresh, x) <=> Leg(pools, path[n], x) /\ x \notin ToSet(path)
  <2>1. \A x : x \notin ToSet(path) => x # path[n]
    BY <1>1
  <2>2. \A x : x # path[n] => (Contains(near, x) <=> Leg(pools, path[n], x))
    BY <1>1, NeighboursAre
  <2> HIDE DEF near, fresh
  <2>3. QED
    BY <1>3, <2>1, <2>2
<1>5. Steps(pools, path) = steps
  BY DEF Steps
<1> HIDE DEF fresh
<1>6. Len(fresh) \in Nat /\ DOMAIN fresh = 1..Len(fresh) /\ \A i \in 1..Len(fresh) : fresh[i] \in T
  BY <1>3
<1>7. \A x \in T : /\ Append(path, x) \in Seq(T) /\ Append(path, x) \in [1..(n + 1) -> T]
                   /\ Append(path, x)[n + 1] = x
                   /\ \A i \in 1..n : Append(path, x)[i] = path[i]
  <2>1. SUFFICES ASSUME NEW x \in T
                 PROVE  /\ Append(path, x) \in Seq(T) /\ Append(path, x) \in [1..(n + 1) -> T]
                        /\ Append(path, x)[n + 1] = x
                        /\ \A i \in 1..n : Append(path, x)[i] = path[i]
    OBVIOUS
  <2>2. Append(path, x) \in Seq(T) /\ Len(Append(path, x)) = n + 1
    BY <1>1
  <2>3. Append(path, x) \in [1..(n + 1) -> T]
    <3> DEFINE q == Append(path, x)
    <3>1. q \in Seq(T) /\ Len(q) = n + 1
      BY <2>2
    <3> HIDE DEF q
    <3>2. q \in [1..(n + 1) -> T]
      BY <3>1
    <3>3. QED
      BY <3>2 DEF q
  <2>4. Append(path, x)[n + 1] = x /\ \A i \in 1..n : Append(path, x)[i] = path[i]
    BY <1>1
  <2>5. QED
    BY <2>2, <2>3, <2>4
<1>8. steps \in Seq(Seq(T)) /\ Len(steps) = Len(fresh)
  <2>1. \A i \in 1..Len(fresh) : Append(path, fresh[i]) \in Seq(T)
    BY <1>6, <1>7
  <2>2. steps \in [1..Len(fresh) -> Seq(T)]
    BY <1>6, <2>1
  <2> HIDE DEF steps
  <2>3. QED
    BY <1>6, <2>2
<1>9. \A q : Contains(steps, q) <=> \E x : Contains(fresh, x) /\ q = Append(path, x)
  <2>1. \A i \in 1..Len(fresh) : steps[i] = Append(path, fresh[i])
    BY <1>6
  <2> HIDE DEF steps
  <2>2. QED
    BY <1>8, <2>1 DEF Contains
<1>10. ASSUME NEW x, Contains(fresh, x)
       PROVE  Append(path, x) \in Trails(pools, T, in, n + 1)
  <2>1. x \in T /\ Leg(pools, path[n], x) /\ x \notin ToSet(path)
    BY <1>4, <1>6, <1>10 DEF Contains
  <2> DEFINE q == Append(path, x)
  <2>2. q \in [1..(n + 1) -> T] /\ q[n + 1] = x /\ \A i \in 1..n : q[i] = path[i]
    BY <1>7, <2>1
  <2> HIDE DEF q
  <2>3. IsInjective(q)
    <3>1. \A i \in 1..n : q[i] # x
      BY <1>1, <2>1, <2>2
    <3>2. \A i \in 1..(n + 1) : i = n + 1 \/ i \in 1..n
      OBVIOUS
    <3>3. ASSUME NEW i \in 1..(n + 1), NEW j \in 1..(n + 1), q[i] = q[j] PROVE i = j
      BY <1>1, <2>2, <3>1, <3>2, <3>3
    <3>4. QED
      BY <2>2, <3>3 DEF IsInjective
  <2>4. q[1] = in
    BY <1>1, <2>2
  <2>5. ASSUME NEW i \in 1..((n + 1) - 1) PROVE Leg(pools, q[i], q[i + 1])
    <3>1. CASE i = n
      BY <2>1, <2>2, <3>1
    <3>2. CASE i # n
      <4>1. i \in 1..(n - 1) /\ i \in 1..n /\ i + 1 \in 1..n
        BY <3>2
      <4>2. QED
        BY <1>1, <2>2, <4>1
    <3>3. QED
      BY <3>1, <3>2
  <2>6. QED
    BY <2>2, <2>3, <2>4, <2>5 DEF Trails, q
<1>11. ASSUME NEW q \in Trails(pools, T, in, n + 1), \A i \in 1..n : q[i] = path[i]
       PROVE  Contains(fresh, q[n + 1]) /\ q = Append(path, q[n + 1])
  <2>1. /\ q \in Seq(T) /\ Len(q) = n + 1
        /\ \A i, j \in 1..(n + 1) : q[i] = q[j] => i = j
        /\ \A i \in 1..((n + 1) - 1) : Leg(pools, q[i], q[i + 1])
    <3>1. n + 1 \in Nat \ {0}
      OBVIOUS
    <3>2. QED
      BY <3>1, TrailIs
  <2>2. n \in 1..((n + 1) - 1) /\ n \in 1..n /\ n + 1 \in 1..(n + 1)
    OBVIOUS
  <2>3. Leg(pools, path[n], q[n + 1])
    BY <1>11, <2>1, <2>2
  <2>4. \A i \in 1..n : i \in 1..(n + 1) /\ i # n + 1
    OBVIOUS
  <2>5. q[n + 1] \notin ToSet(path)
    BY <1>1, <1>11, <2>1, <2>2, <2>4
  <2>6. q[n + 1] \in T
    BY <2>1, <2>2
  <2>7. q = Append(path, q[n + 1])
    <3>1. q \in [1..(n + 1) -> T]
      BY DEF Trails
    <3>2. Append(path, q[n + 1]) \in [1..(n + 1) -> T]
          /\ \A i \in 1..(n + 1) : Append(path, q[n + 1])[i] = q[i]
      <4>1. \A i \in 1..(n + 1) : i = n + 1 \/ i \in 1..n
        OBVIOUS
      <4>2. QED
        BY <1>7, <1>11, <2>6, <4>1
    <3>3. QED
      BY <3>1, <3>2
  <2>8. QED
    BY <1>4, <2>3, <2>5, <2>7
<1>12. ASSUME NEW q, Contains(steps, q)
       PROVE  q \in Trails(pools, T, in, n + 1) /\ \A i \in 1..n : q[i] = path[i]
  <2> HIDE DEF steps
  <2>1. PICK x : Contains(fresh, x) /\ q = Append(path, x)
    BY <1>9, <1>12
  <2>2. x \in T
    BY <1>6, <2>1 DEF Contains
  <2>3. QED
    BY <1>7, <1>10, <2>1, <2>2
<1>13. QED
  <2> HIDE DEF steps
  <2>1. QED
    BY <1>5, <1>8, <1>9, <1>11, <1>12

(* Of depth d, the paths of the search that go on, and those that arrived. *)
Searched(level, pools, T, in, out, d) ==
  /\ level \in [queue : Seq(Seq(T)), results : Seq(Seq(T))]
  /\ \A q : Contains(level.queue, q) <=>
            q \in Trails(pools, T, in, d + 1) /\ \A i \in 1..(d + 1) : q[i] # out
  /\ \A q : Contains(level.results, q) <=>
            \E n \in 2..(d + 1) : q \in Trails(pools, T, in, n) /\ q[n] = out

LEMMA FrontIsTrail ==
  ASSUME NEW pools, NEW T, NEW in, NEW n \in Nat \ {0}, NEW q \in Trails(pools, T, in, n + 1)
  PROVE  [i \in 1..n |-> q[i]] \in Trails(pools, T, in, n)
<1> DEFINE p == [i \in 1..n |-> q[i]]
<1>2. /\ q \in [1..(n + 1) -> T] /\ q[1] = in
      /\ \A i, j \in 1..(n + 1) : q[i] = q[j] => i = j
      /\ \A i \in 1..((n + 1) - 1) : Leg(pools, q[i], q[i + 1])
  BY DEF Trails, IsInjective
<1>3. \A i \in 1..n : i \in 1..(n + 1) /\ q[i] \in T /\ p[i] = q[i]
  BY <1>2
<1>4. p \in [1..n -> T]
  BY <1>3
<1>5. 1 \in 1..n
  OBVIOUS
<1> HIDE DEF p
<1>6. IsInjective(p)
  BY <1>2, <1>3, <1>4 DEF IsInjective
<1>7. ASSUME NEW i \in 1..(n - 1) PROVE Leg(pools, p[i], p[i + 1])
  <2>1. i \in 1..n /\ i + 1 \in 1..n /\ i \in 1..((n + 1) - 1)
    OBVIOUS
  <2>2. QED
    BY <1>2, <1>3, <2>1
<1>8. p[1] = in
  BY <1>2, <1>3, <1>5
<1>9. QED
  BY <1>4, <1>6, <1>7, <1>8 DEF Trails, p

LEMMA DeepenIs ==
  ASSUME NEW pools, IsPoolList(pools), NEW T, PathTokens(pools) \subseteq T, NEW in, NEW out,
         NEW d \in Nat, NEW level, Searched(level, pools, T, in, out, d)
  PROVE  Searched(Deepen(pools, out, level), pools, T, in, out, d + 1)
<1> DEFINE n == d + 1
           Trail(k) == Trails(pools, T, in, k)
           queue == level.queue
           seqs == [i \in DOMAIN queue |-> Steps(pools, queue[i])]
           steps == FlattenSeq(seqs)
           arrived == {path \in ToSet(steps) : Last(path) = out}
           on == Without(steps, arrived)
           done == Without(steps, ToSet(steps) \ arrived)
<1>1. /\ queue \in Seq(Seq(T)) /\ level.results \in Seq(Seq(T))
      /\ \A q : Contains(queue, q) <=> q \in Trail(n) /\ \A i \in 1..n : q[i] # out
      /\ \A q : Contains(level.results, q) <=> \E k \in 2..n : q \in Trail(k) /\ q[k] = out
  BY DEF Searched
<1>2. n \in Nat \ {0} /\ n + 1 \in Nat \ {0}
  OBVIOUS
<1>3. Deepen(pools, out, level) = [queue |-> on, results |-> level.results \o done]
  BY DEF Deepen
<1> HIDE DEF queue, n
<1>4. Len(queue) \in Nat /\ DOMAIN queue = 1..Len(queue)
      /\ \A i \in 1..Len(queue) : queue[i] \in Trail(n) /\ \A j \in 1..n : queue[i][j] # out
  BY <1>1 DEF Contains
<1>5. \A p \in Trail(n) :
        /\ Steps(pools, p) \in Seq(Seq(T))
        /\ \A q : Contains(Steps(pools, p), q) <=> q \in Trail(n + 1) /\ \A i \in 1..n : q[i] = p[i]
  BY <1>2, StepsAre
<1>6. seqs \in Seq(Seq(Seq(T))) /\ Len(seqs) = Len(queue)
  <2>1. \A i \in 1..Len(queue) : Steps(pools, queue[i]) \in Seq(Seq(T))
    BY <1>4, <1>5
  <2>2. seqs \in [1..Len(queue) -> Seq(Seq(T))]
    BY <1>4, <2>1
  <2> HIDE DEF seqs
  <2>3. QED
    BY <1>4, <2>2
<1>7. \A i \in 1..Len(queue) : seqs[i] = Steps(pools, queue[i])
  BY <1>4
<1> HIDE DEF seqs
<1>8. steps \in Seq(Seq(T)) /\ \A q : Contains(steps, q) <=> \E i \in 1..Len(seqs) : Contains(seqs[i], q)
  BY <1>6, FlattenHolds
<1> HIDE DEF steps, Trail
<1>9. ASSUME NEW q, Contains(steps, q)
      PROVE  q \in Trail(n + 1) /\ \A i \in 1..n : q[i] # out
  <2>1. PICK i \in 1..Len(queue) : Contains(Steps(pools, queue[i]), q)
    BY <1>6, <1>7, <1>8, <1>9
  <2>2. queue[i] \in Trail(n) /\ \A j \in 1..n : queue[i][j] # out
    BY <1>4
  <2>3. q \in Trail(n + 1) /\ \A j \in 1..n : q[j] = queue[i][j]
    BY <1>5, <2>1, <2>2
  <2>4. QED
    BY <2>2, <2>3
<1>10. ASSUME NEW q \in Trail(n + 1), \A i \in 1..n : q[i] # out
       PROVE  Contains(steps, q)
  <2> DEFINE p == [i \in 1..n |-> q[i]]
  <2>1. p \in Trail(n)
    BY <1>2, FrontIsTrail DEF Trail
  <2>2. \A i \in 1..n : q[i] = p[i]
    OBVIOUS
  <2> HIDE DEF p
  <2>3. Contains(queue, p)
    BY <1>1, <1>10, <2>1, <2>2
  <2>4. PICK i \in 1..Len(queue) : queue[i] = p
    BY <2>3 DEF Contains
  <2>5. Contains(seqs[i], q)
    BY <1>5, <1>7, <2>1, <2>2, <2>4
  <2>6. QED
    BY <1>6, <1>8, <2>5
<1>11. \A q : q \in ToSet(steps) <=> Contains(steps, q)
  <2>1. DOMAIN steps = 1..Len(steps)
    BY <1>8
  <2>2. QED
    BY <2>1 DEF ToSet, Contains
<1>12. \A q \in Trail(n + 1) : Last(q) = q[n + 1]
  BY <1>2, TrailIs DEF Trail
<1>13. on \in Seq(Seq(T)) /\ \A q : Contains(on, q) <=> Contains(steps, q) /\ q \notin arrived
  <2>1. KeepsOf(on, Len(steps), steps, arrived, Seq(T))
    BY <1>8, WithoutKeeps
  <2>2. QED
    BY <2>1 DEF KeepsOf, Contains
<1>14. /\ done \in Seq(Seq(T))
       /\ \A q : Contains(done, q) <=> Contains(steps, q) /\ q \notin ToSet(steps) \ arrived
  <2>1. KeepsOf(done, Len(steps), steps, ToSet(steps) \ arrived, Seq(T))
    BY <1>8, WithoutKeeps
  <2>2. QED
    BY <2>1 DEF KeepsOf, Contains
<1>15. \A q : q \in arrived <=> Contains(steps, q) /\ Last(q) = out
  BY <1>11
<1> HIDE DEF on, done, arrived
<1>16. \A q : Contains(on, q) <=> q \in Trail(n + 1) /\ \A i \in 1..(n + 1) : q[i] # out
  <2>1. 1..(n + 1) = 1..n \cup {n + 1}
    BY <1>2
  <2>2. QED
    BY <1>9, <1>10, <1>12, <1>13, <1>15, <2>1
<1>17. \A q : Contains(done, q) <=> q \in Trail(n + 1) /\ q[n + 1] = out
  <2>1. ASSUME NEW q \in Trail(n + 1), q[n + 1] = out PROVE \A i \in 1..n : q[i] # out
    <3>1. \A i, j \in 1..(n + 1) : q[i] = q[j] => i = j
      BY <1>2, TrailIs DEF Trail
    <3>2. \A i \in 1..n : i \in 1..(n + 1) /\ n + 1 \in 1..(n + 1) /\ i # n + 1
      BY <1>2
    <3>3. QED
      BY <2>1, <3>1, <3>2
  <2>2. QED
    BY <1>9, <1>10, <1>11, <1>12, <1>14, <1>15, <2>1
<1> DEFINE results == level.results \o done
<1>18. results \in Seq(Seq(T))
       /\ \A q : Contains(results, q) <=> Contains(level.results, q) \/ Contains(done, q)
  BY <1>1, <1>14, ConcatHolds
<1> HIDE DEF results
<1>19. \A q : Contains(results, q) <=> \E k \in 2..(n + 1) : q \in Trail(k) /\ q[k] = out
  <2>1. 2..(n + 1) = 2..n \cup {n + 1}
    BY <1>2 DEF n
  <2>2. QED
    BY <1>1, <1>17, <1>18, <2>1
<1>20. [queue |-> on, results |-> results] \in [queue : Seq(Seq(T)), results : Seq(Seq(T))]
  BY <1>13, <1>18
<1>21. QED
  BY <1>3, <1>16, <1>19, <1>20 DEF Searched, results, Trail, n

(* The function behind RoutesFrom. *)
SearchUpTo(g, pools, in, out) ==
  g = [depth \in 0..MaxRouteDepth |->
         IF depth = 0 THEN [queue |-> << <<in>> >>, results |-> <<>>]
         ELSE Deepen(pools, out, g[depth - 1])]

LEMMA RoutesAreSearched ==
  ASSUME NEW pools, NEW in, NEW out
  PROVE  RoutesFrom(pools, in, out) = (CHOOSE g : SearchUpTo(g, pools, in, out))[MaxRouteDepth].results
BY DEF RoutesFrom, SearchUpTo

LEMMA SearchExists ==
  ASSUME NEW pools, NEW in, NEW out
  PROVE  \E g : SearchUpTo(g, pools, in, out)
<1> DEFINE l0 == [queue |-> << <<in>> >>, results |-> <<>>]
           l1 == Deepen(pools, out, l0)
           l2 == Deepen(pools, out, l1)
           l3 == Deepen(pools, out, l2)
           g == [i \in 0..3 |-> IF i = 0 THEN l0 ELSE IF i = 1 THEN l1 ELSE IF i = 2 THEN l2 ELSE l3]
<1>1. g[0] = l0 /\ g[1] = l1 /\ g[2] = l2 /\ g[3] = l3
  <2> HIDE DEF l0, l1, l2, l3
  <2>1. QED
    OBVIOUS
<1> HIDE DEF l0, l1, l2, l3
<1>2. g = [i \in 0..3 |-> g[i]]
  OBVIOUS
<1> HIDE DEF g
<1>3. \A i \in 0..3 : i \in {0, 1, 2, 3}
  OBVIOUS
<1>4. \A i \in 0..3 : g[i] = IF i = 0 THEN l0 ELSE Deepen(pools, out, g[i - 1])
  <2>1. g[1] = Deepen(pools, out, g[1 - 1])
    BY <1>1 DEF l1
  <2>2. g[2] = Deepen(pools, out, g[2 - 1])
    BY <1>1 DEF l2
  <2>3. g[3] = Deepen(pools, out, g[3 - 1])
    BY <1>1 DEF l3
  <2>4. QED
    BY <1>1, <1>3, <2>1, <2>2, <2>3
<1>5. g = [i \in 0..3 |-> IF i = 0 THEN l0 ELSE Deepen(pools, out, g[i - 1])]
  BY <1>2, <1>4
<1>6. QED
  BY <1>5 DEF SearchUpTo, MaxRouteDepth, l0

(* The search finds exactly the simple paths over at most three pools. *)
LEMMA RoutesAre ==
  ASSUME NEW pools, IsPoolList(pools), NEW in, NEW out, in # out
  PROVE  /\ \E T : RoutesFrom(pools, in, out) \in Seq(Seq(T))
         /\ \A q : Contains(RoutesFrom(pools, in, out), q) <=> q \in Paths(pools, in, out)
<1> DEFINE T == PathTokens(pools) \cup {in}
           g == CHOOSE f : SearchUpTo(f, pools, in, out)
           l0 == [queue |-> << <<in>> >>, results |-> <<>>]
<1>1. SearchUpTo(g, pools, in, out)
  BY SearchExists
<1> HIDE DEF g
<1>2. \A i \in 0..3 : g[i] = IF i = 0 THEN l0 ELSE Deepen(pools, out, g[i - 1])
  BY <1>1 DEF SearchUpTo, MaxRouteDepth
<1>3. g[0] = l0 /\ g[1] = Deepen(pools, out, g[0]) /\ g[2] = Deepen(pools, out, g[1])
      /\ g[3] = Deepen(pools, out, g[2])
  <2>1. 0 \in 0..3 /\ 1 \in 0..3 /\ 2 \in 0..3 /\ 3 \in 0..3
    OBVIOUS
  <2> HIDE DEF l0
  <2>2. QED
    BY <1>2, <2>1
<1>4. Searched(l0, pools, T, in, out, 0)
  <2>1. <<in>> \in Seq(T) /\ << <<in>> >> \in Seq(Seq(T)) /\ <<>> \in Seq(Seq(T))
    OBVIOUS
  <2>2. l0 \in [queue : Seq(Seq(T)), results : Seq(Seq(T))]
    BY <2>1
  <2>3. \A q : Contains(l0.queue, q) <=> q = <<in>>
    BY DEF Contains
  <2>4. \A q : q \in Trails(pools, T, in, 1) <=> q = <<in>>
    <3>1. 1..1 = {1} /\ 1..(1 - 1) = {} /\ in \in T
      OBVIOUS
    <3>2. ASSUME NEW q \in Trails(pools, T, in, 1) PROVE q = <<in>>
      <4>1. q \in [1..1 -> T] /\ q[1] = in
        BY DEF Trails
      <4>2. QED
        BY <3>1, <4>1
    <3>3. <<in>> \in Trails(pools, T, in, 1)
      <4>1. <<in>> \in [1..1 -> T] /\ <<in>>[1] = in /\ DOMAIN <<in>> = {1}
        BY <3>1
      <4>2. IsInjective(<<in>>)
        BY <4>1 DEF IsInjective
      <4>3. QED
        BY <3>1, <4>1, <4>2 DEF Trails
    <3>4. QED
      BY <3>2, <3>3
  <2>5. \A i \in 1..1 : <<in>>[i] # out
    OBVIOUS
  <2>6. ~\E q : Contains(l0.results, q)
    BY DEF Contains
  <2>7. 2..1 = {} /\ 0 + 1 = 1
    OBVIOUS
  <2> HIDE DEF l0, T
  <2>8. QED
    BY <2>2, <2>3, <2>4, <2>5, <2>6, <2>7 DEF Searched
<1> HIDE DEF l0
<1>5. Searched(g[3], pools, T, in, out, 3)
  <2>1. PathTokens(pools) \subseteq T
    OBVIOUS
  <2> HIDE DEF T
  <2>2. Searched(g[1], pools, T, in, out, 0 + 1)
    BY <1>3, <1>4, <2>1, DeepenIs
  <2>3. Searched(g[2], pools, T, in, out, 1 + 1)
    BY <1>3, <2>1, <2>2, DeepenIs
  <2>4. Searched(g[3], pools, T, in, out, 2 + 1)
    BY <1>3, <2>1, <2>3, DeepenIs
  <2>5. QED
    BY <2>4
<1>6. RoutesFrom(pools, in, out) = g[3].results
  BY RoutesAreSearched DEF g, MaxRouteDepth
<1>7. /\ g[3].results \in Seq(Seq(T))
      /\ \A q : Contains(g[3].results, q) <=>
                 \E n \in 2..4 : q \in Trails(pools, T, in, n) /\ q[n] = out
  <2>1. 3 + 1 = 4
    OBVIOUS
  <2> HIDE DEF T
  <2>2. QED
    BY <1>5, <2>1 DEF Searched
<1>8. \A q : q \in Paths(pools, in, out) <=>
             \E n \in 2..4 : q \in Trails(pools, T, in, n) /\ q[n] = out
  <2>1. ASSUME NEW n \in 2..4, NEW q \in Trails(pools, T, in, n), q[n] = out
        PROVE  q \in Paths(pools, in, out)
    <3>1. n \in Nat \ {0} /\ 1 \in 1..n /\ n \in 1..n
      OBVIOUS
    <3>2. /\ Len(q) = n /\ DOMAIN q = 1..n /\ q[1] = in
          /\ \A i \in 1..(n - 1) : Leg(pools, q[i], q[i + 1])
      <4> HIDE DEF T
      <4>1. QED
        BY <3>1, TrailIs
    <3>3. q \in [1..n -> T] /\ IsInjective(q)
      BY DEF Trails
    <3>4. \A x, y : Leg(pools, x, y) => x \in PathTokens(pools) /\ y \in PathTokens(pools)
      BY DEF Leg, Joins, PathTokens
    <3>5. 1 \in 1..(n - 1) /\ \A i \in 1..n : i = 1 \/ (i - 1 \in 1..(n - 1) /\ (i - 1) + 1 = i)
      OBVIOUS
    <3>6. \A i \in 1..n : q[i] \in PathTokens(pools)
      BY <3>2, <3>4, <3>5
    <3>7. q \in [1..n -> PathTokens(pools)]
      BY <3>3, <3>6
    <3>8. QED
      BY <2>1, <3>2, <3>3, <3>7 DEF Paths
  <2>2. ASSUME NEW q \in Paths(pools, in, out)
        PROVE  \E n \in 2..4 : q \in Trails(pools, T, in, n) /\ q[n] = out
    <3>1. PICK n \in 2..4 : q \in [1..n -> PathTokens(pools)]
      BY DEF Paths
    <3>2. Len(q) = n
      BY <3>1
    <3>3. q \in [1..n -> T]
      BY <3>1
    <3>4. /\ q[1] = in /\ q[n] = out /\ IsInjective(q)
          /\ \A i \in 1..(n - 1) : Leg(pools, q[i], q[i + 1])
      BY <3>2 DEF Paths
    <3>5. QED
      BY <3>3, <3>4 DEF Trails
  <2>3. QED
    BY <2>1, <2>2
<1>9. QED
  BY <1>6, <1>7, <1>8

LEMMA ReserveIsNat ==
  ASSUME NEW pools, IsPoolList(pools), NEW x, NEW y, Leg(pools, x, y)
  PROVE  ReserveOf(pools, x, y) \in Nat /\ ReserveOf(pools, y, x) \in Nat
<1> DEFINE First(a, b, i) == /\ Joins(pools[i], a, b)
                             /\ \A j \in 1..(i - 1) : ~Joins(pools[j], a, b)
<1>1. /\ Len(pools) \in Nat /\ DOMAIN pools = 1..Len(pools)
      /\ \A i \in 1..Len(pools) : pools[i].reserve0 \in Nat /\ pools[i].reserve1 \in Nat
  BY PoolsAre
<1>2. ASSUME NEW a, NEW b, Leg(pools, a, b) PROVE ReserveOf(pools, a, b) \in Nat
  <2> DEFINE S == {i \in DOMAIN pools : Joins(pools[i], a, b)}
  <2>1. S \in SUBSET Nat /\ S # {}
    BY <1>1, <1>2 DEF Leg
  <2> HIDE DEF S
  <2>2. PICK i \in S : \A j \in S : i <= j
    BY <2>1, LeastExists
  <2>3. \E k \in DOMAIN pools : First(a, b, k)
    <3>1. \A j \in 1..(i - 1) : j \in DOMAIN pools /\ ~(i <= j)
      BY <1>1, <2>2 DEF S
    <3>2. QED
      BY <2>2, <3>1 DEF S
  <2>4. PoolIndex(pools, a, b) \in DOMAIN pools
    BY <2>3 DEF PoolIndex
  <2>5. QED
    BY <1>1, <2>4 DEF ReserveOf
<1>3. Leg(pools, y, x)
  BY DEF Leg, Joins
<1>4. QED
  BY <1>2, <1>3

(* The most a pool can pay with its product kept is what the code computes. *)
LEMMA MostPaidIs ==
  ASSUME NEW n \in Nat, NEW x \in Nat, NEW y \in Nat
  PROVE  MostPaid(n, x, y) = IF x = 0 \/ y = 0 THEN 0 ELSE Paid(n, x, y)
<1> DEFINE S == {out \in 1..y : x > 0 /\ (x * 1000 + n * 997) * (y - out) >= x * 1000 * y}
<1>1. MostPaid(n, x, y) = Cardinality(S)
  BY DEF MostPaid
<1>2. CASE x = 0 \/ y = 0
  <2>1. S = {}
    BY <1>2
  <2> HIDE DEF S
  <2>2. QED
    BY <1>1, <1>2, <2>1, FS_EmptySet
<1>3. CASE x # 0 /\ y # 0
  <2> DEFINE b == n * 997
             a == x * 1000
             d == a + b
             num == b * y
             k == num \div d
  <2>1. a \in Nat \ {0} /\ b \in Nat /\ d \in Nat \ {0}
    BY <1>3
  <2>2. Paid(n, x, y) = k
    BY DEF Paid, SwapFee, SwapFeeDenominator
  <2>3. num \in Nat
    <3> HIDE DEF a, b
    <3>1. QED
      BY <2>1
  <2>4. k \in Nat /\ k * d <= num /\ num < (k + 1) * d
    <3> HIDE DEF num, d
    <3>1. QED
      BY <2>1, <2>3, DivBounds
  <2>5. ASSUME NEW out \in 1..y
        PROVE  (a + b) * (y - out) >= a * y <=> d * out <= num
    <3>1. out \in Nat /\ y - out \in Nat
      OBVIOUS
    <3> HIDE DEF a, b
    <3>2. (a + b) * (y - out) = a * y + b * y - (a + b) * out
      BY <2>1, <3>1
    <3>3. a * y \in Nat /\ (a + b) * out \in Nat
      BY <2>1, <3>1
    <3>4. QED
      BY <2>3, <3>2, <3>3
  <2>6. ASSUME NEW out \in 1..y
        PROVE  d * out <= num <=> out <= k
    <3>1. out \in Nat /\ k + 1 \in Nat
      BY <2>4
    <3> HIDE DEF k, d, num
    <3>2. ASSUME out <= k PROVE d * out <= num
      <4>1. d * out <= d * k
        BY <2>1, <2>4, <3>1, <3>2, ProductMonotone
      <4>2. d * k = k * d /\ d * out \in Nat /\ d * k \in Nat
        BY <2>1, <2>4, <3>1
      <4>3. QED
        BY <2>3, <2>4, <4>1, <4>2
    <3>3. ASSUME ~(out <= k) PROVE ~(d * out <= num)
      <4>1. k + 1 <= out
        BY <2>4, <3>1, <3>3
      <4>2. d * (k + 1) <= d * out
        BY <2>1, <3>1, <4>1, ProductMonotone
      <4>3. d * (k + 1) = (k + 1) * d /\ d * out \in Nat /\ d * (k + 1) \in Nat
        BY <2>1, <3>1
      <4>4. QED
        BY <2>3, <2>4, <4>2, <4>3
    <3>4. QED
      BY <3>2, <3>3
  <2>7. k <= y
    <3>1. SUFFICES ASSUME y + 1 <= k PROVE FALSE
      BY <2>4
    <3> HIDE DEF k, d, num
    <3>2. (y + 1) * d <= k * d
      BY <2>1, <2>4, <3>1, ProductMonotone
    <3>3. b * y < (y + 1) * d
      <4>1. b <= d
        BY <2>1 DEF d
      <4>2. b * y <= d * y
        BY <2>1, <4>1, ProductMonotone
      <4>3. (y + 1) * d = d * y + d /\ d * y \in Nat /\ b * y \in Nat
        BY <2>1
      <4>4. QED
        BY <2>1, <4>2, <4>3
    <3>4. k * d \in Nat /\ (y + 1) * d \in Nat
      BY <2>1, <2>4
    <3>5. QED
      BY <2>3, <2>4, <3>2, <3>3, <3>4 DEF num
  <2>8. S = 1..k
    <3>1. x > 0
      BY <1>3
    <3>2. \A out \in 1..y : (x * 1000 + n * 997) * (y - out) >= x * 1000 * y <=> out <= k
      BY <2>5, <2>6 DEF a, b
    <3>3. \A out : out \in S <=> out \in 1..y /\ out <= k
      <4> HIDE DEF k
      <4>1. QED
        BY <3>1, <3>2
    <3> HIDE DEF S, k
    <3>4. \A out : out \in 1..k <=> out \in 1..y /\ out <= k
      BY <2>4, <2>7
    <3>5. QED
      BY <3>3, <3>4
  <2>9. Cardinality(1..k) = k
    <3> HIDE DEF k
    <3>1. 1 \in Int /\ k \in Int
      BY <2>4
    <3>2. QED
      BY <2>4, <3>1, FS_Interval
  <2> HIDE DEF S, k
  <2>10. QED
    BY <1>1, <1>3, <2>2, <2>8, <2>9
<1>4. QED
  BY <1>2, <1>3

(* The functions behind SimulateRoute and Worth. *)
PaidUpTo(g, pools, route, n) ==
  g = [i \in 1..Len(route) |->
         IF i = 1 THEN n ELSE
         LET r0 == ReserveOf(pools, route[i - 1], route[i])
             r1 == ReserveOf(pools, route[i], route[i - 1])
         IN IF r0 = 0 \/ r1 = 0 THEN 0 ELSE Paid(g[i - 1], r0, r1)]
WorthUpTo(g, pools, path, n) ==
  g = [i \in 1..Len(path) |->
         IF i = 1 THEN n
         ELSE MostPaid(g[i - 1], ReserveOf(pools, path[i - 1], path[i]),
                                 ReserveOf(pools, path[i], path[i - 1]))]

LEMMA SimulatedIsPaid ==
  ASSUME NEW pools, NEW route, NEW n
  PROVE  SimulateRoute(pools, route, n)
           = IF Len(route) < 2 THEN 0
             ELSE (CHOOSE g : PaidUpTo(g, pools, route, n))[Len(route)]
BY DEF SimulateRoute, PaidUpTo

LEMMA WorthIsPaid ==
  ASSUME NEW pools, NEW path, NEW n
  PROVE  Worth(pools, path, n) = (CHOOSE g : WorthUpTo(g, pools, path, n))[Len(path)]
BY DEF Worth, WorthUpTo

LEMMA PaidIsNat ==
  ASSUME NEW n \in Nat, NEW x \in Nat \ {0}, NEW y \in Nat
  PROVE  Paid(n, x, y) \in Nat
<1> DEFINE a == n * 997
           num == a * y
           den == x * 1000 + a
<1>1. a \in Nat /\ den \in Nat \ {0}
  OBVIOUS
<1>2. num \in Nat
  <2> HIDE DEF a
  <2>1. QED
    BY <1>1
<1>3. Paid(n, x, y) = num \div den
  BY DEF Paid, SwapFee, SwapFeeDenominator
<1> HIDE DEF num, den
<1>4. QED
  BY <1>1, <1>2, <1>3, DivBounds

(* Along a path the simulation pays what the path is worth. *)
LEMMA SimulationIsWorth ==
  ASSUME NEW pools, IsPoolList(pools), NEW in, NEW out, NEW path \in Paths(pools, in, out),
         NEW n \in Nat
  PROVE  /\ SimulateRoute(pools, path, n) \in Nat
         /\ Worth(pools, path, n) = SimulateRoute(pools, path, n)
<1> DEFINE len == Len(path)
           r0(i) == ReserveOf(pools, path[i - 1], path[i])
           r1(i) == ReserveOf(pools, path[i], path[i - 1])
           Pay(v, i) == IF r0(i) = 0 \/ r1(i) = 0 THEN 0 ELSE Paid(v, r0(i), r1(i))
           H == [i \in Nat |-> [v \in Nat |-> IF i \in 2..len THEN Pay(v, i) ELSE v]]
<1>1. len \in 2..4 /\ \A i \in 1..(len - 1) : Leg(pools, path[i], path[i + 1])
  BY DEF Paths
<1>2. \A i \in 2..len : r0(i) \in Nat /\ r1(i) \in Nat
  <2>1. ASSUME NEW i \in 2..len PROVE Leg(pools, path[i - 1], path[i])
    <3>1. i - 1 \in 1..(len - 1) /\ (i - 1) + 1 = i
      BY <1>1
    <3>2. QED
      BY <1>1, <3>1
  <2>2. QED
    BY <2>1, ReserveIsNat
<1> HIDE DEF len, r0, r1
<1>3. \A i \in 2..len : \A v \in Nat :
        Pay(v, i) \in Nat /\ MostPaid(v, r0(i), r1(i)) = Pay(v, i)
  <2>1. SUFFICES ASSUME NEW i \in 2..len, NEW v \in Nat
                 PROVE  Pay(v, i) \in Nat /\ MostPaid(v, r0(i), r1(i)) = Pay(v, i)
    OBVIOUS
  <2>2. MostPaid(v, r0(i), r1(i)) = Pay(v, i)
    BY <1>2, MostPaidIs
  <2>3. r0(i) # 0 => Paid(v, r0(i), r1(i)) \in Nat
    BY <1>2, PaidIsNat
  <2>4. QED
    BY <2>2, <2>3
<1> HIDE DEF Pay
<1>4. H \in [Nat -> [Nat -> Nat]]
  BY <1>3
<1>5. \A i \in 2..len : \A v \in Nat : H[i][v] = Pay(v, i)
  BY <1>1
<1> HIDE DEF H
<1>6. \A i \in 1..len : i # 1 => i \in 2..len /\ i - 1 \in 1..len
  BY <1>1
<1>7. \E g : g \in [1..len -> Nat] /\ \A i \in 1..len : g[i] = IF i = 1 THEN n ELSE Pay(g[i - 1], i)
  <2>1. len \in Nat /\ 1 \in Nat
    BY <1>1
  <2>2. PICK g : Recursion(g, 1, len, n, H, Nat)
    BY <1>4, <2>1, RecursionExists
  <2>3. g \in [1..len -> Nat] /\ \A i \in 1..len : g[i] = IF i = 1 THEN n ELSE H[i][g[i - 1]]
    BY <2>2 DEF Recursion
  <2>4. \A i \in 1..len : i # 1 => g[i - 1] \in Nat
    BY <1>6, <2>3
  <2>5. \A i \in 1..len : g[i] = IF i = 1 THEN n ELSE Pay(g[i - 1], i)
    BY <1>5, <1>6, <2>3, <2>4
  <2>6. QED
    BY <2>3, <2>5
<1> DEFINE paid == CHOOSE g : PaidUpTo(g, pools, path, n)
           worth == CHOOSE g : WorthUpTo(g, pools, path, n)
<1>8. PICK g : g \in [1..len -> Nat] /\ \A i \in 1..len : g[i] = IF i = 1 THEN n ELSE Pay(g[i - 1], i)
  BY <1>7
<1>9. PaidUpTo(g, pools, path, n)
  <2>1. g = [i \in 1..len |-> IF i = 1 THEN n ELSE Pay(g[i - 1], i)]
    BY <1>8
  <2>2. QED
    BY <2>1 DEF PaidUpTo, Pay, r0, r1, len
<1>10. WorthUpTo(g, pools, path, n)
  <2>1. \A i \in 1..len : i # 1 => g[i - 1] \in Nat
    BY <1>6, <1>8
  <2>2. \A i \in 1..len : g[i] = IF i = 1 THEN n ELSE MostPaid(g[i - 1], r0(i), r1(i))
    BY <1>3, <1>6, <1>8, <2>1
  <2>3. g = [i \in 1..len |-> IF i = 1 THEN n ELSE MostPaid(g[i - 1], r0(i), r1(i))]
    BY <1>8, <2>2
  <2>4. QED
    BY <2>3 DEF WorthUpTo, r0, r1, len
<1>11. PaidUpTo(paid, pools, path, n) /\ WorthUpTo(worth, pools, path, n)
  BY <1>9, <1>10
<1> HIDE DEF paid, worth
<1>12. /\ \A i \in 1..len : paid[i] = IF i = 1 THEN n ELSE Pay(paid[i - 1], i)
       /\ \A i \in 1..len : worth[i] = IF i = 1 THEN n ELSE MostPaid(worth[i - 1], r0(i), r1(i))
  <2>1. /\ paid = [i \in 1..len |-> IF i = 1 THEN n ELSE Pay(paid[i - 1], i)]
        /\ worth = [i \in 1..len |-> IF i = 1 THEN n ELSE MostPaid(worth[i - 1], r0(i), r1(i))]
    BY <1>11 DEF PaidUpTo, WorthUpTo, Pay, r0, r1, len
  <2>2. QED
    BY <2>1
<1> DEFINE G == {i \in Nat : i \in 1..len => paid[i] \in Nat /\ worth[i] = paid[i]}
<1>13. 0 \in G
  BY <1>1
<1>14. ASSUME NEW i \in Nat, i \in G PROVE i + 1 \in G
  <2>1. SUFFICES ASSUME i + 1 \in 1..len PROVE paid[i + 1] \in Nat /\ worth[i + 1] = paid[i + 1]
    OBVIOUS
  <2>2. CASE i = 0
    BY <1>12, <2>1, <2>2
  <2>3. CASE i # 0
    <3>1. i \in 1..len /\ i + 1 \in 2..len /\ (i + 1) - 1 = i /\ i + 1 # 1
      BY <1>1, <2>1, <2>3
    <3>2. paid[i] \in Nat /\ worth[i] = paid[i]
      BY <1>14, <3>1
    <3>3. paid[i + 1] = Pay(paid[i], i + 1)
      BY <1>12, <2>1, <3>1
    <3>4. worth[i + 1] = MostPaid(worth[i], r0(i + 1), r1(i + 1))
      BY <1>12, <2>1, <3>1
    <3>5. QED
      BY <1>3, <3>1, <3>2, <3>3, <3>4
  <2>4. QED
    BY <2>2, <2>3
<1>15. \A i \in Nat : i \in G
  <2> HIDE DEF G
  <2>1. QED
    BY <1>13, <1>14, NatUp
<1>16. paid[len] \in Nat /\ worth[len] = paid[len]
  <2>1. len \in 1..len /\ len \in Nat
    BY <1>1
  <2>2. len \in G
    <3> HIDE DEF G
    <3>1. QED
      BY <1>15, <2>1
  <2>3. QED
    BY <2>1, <2>2
<1>17. SimulateRoute(pools, path, n) = paid[len] /\ Worth(pools, path, n) = worth[len]
  <2>1. ~(len < 2)
    BY <1>1
  <2>2. QED
    BY <2>1, SimulatedIsPaid, WorthIsPaid DEF paid, worth, len
<1>18. QED
  BY <1>16, <1>17

-----------------------------------------------------------------------------
(* What SignedSwapIsSound asks of an offered route. *)
Ahead(v, i, j) == v[i] > v[j] \/ (v[i] = v[j] /\ i < j)

(* Of some positions, one holds the most, before any other that does. *)
LEMMA BestExists ==
  ASSUME NEW n \in Nat, NEW v \in [1..n -> Nat], NEW S \in SUBSET (1..n), S # {}
  PROVE  \E j \in S : \A i \in S : ~Ahead(v, i, j) /\ (i # j => Ahead(v, j, i))
<1> DEFINE Best(j, m) == \A i \in S : i <= m => ~Ahead(v, i, j) /\ (i # j => Ahead(v, j, i))
           G == {m \in Nat : (\E i \in S : i <= m) => \E j \in S : j <= m /\ Best(j, m)}
<1>1. \A i \in S : i \in Nat /\ i >= 1 /\ i <= n /\ v[i] \in Nat
  OBVIOUS
<1>2. 0 \in G
  BY <1>1
<1>3. ASSUME NEW m \in Nat, m \in G PROVE m + 1 \in G
  <2>1. SUFFICES ASSUME \E i \in S : i <= m + 1
                 PROVE  \E j \in S : j <= m + 1 /\ Best(j, m + 1)
    OBVIOUS
  <2>2. CASE m + 1 \notin S
    <3>1. \A i \in S : i <= m + 1 <=> i <= m
      BY <1>1, <2>2
    <3>2. PICK j \in S : j <= m /\ Best(j, m)
      BY <1>3, <2>1, <3>1
    <3>3. QED
      BY <3>1, <3>2
  <2>3. CASE m + 1 \in S
    <3>1. \A i \in S : i <= m + 1 <=> i <= m \/ i = m + 1
      BY <1>1, <2>3
    <3>2. CASE \A i \in S : ~(i <= m)
      <4>1. Best(m + 1, m + 1)
        BY <1>1, <2>3, <3>1, <3>2 DEF Ahead
      <4>2. QED
        BY <2>3, <4>1
    <3>3. CASE \E i \in S : i <= m
      <4>1. PICK j \in S : j <= m /\ Best(j, m)
        BY <1>3, <3>3
      <4>2. v[j] \in Nat /\ v[m + 1] \in Nat /\ j \in Nat
        BY <1>1, <2>3
      <4>3. CASE v[m + 1] > v[j]
        <5>1. ASSUME NEW i \in S, i <= m + 1
              PROVE  ~Ahead(v, i, m + 1) /\ (i # m + 1 => Ahead(v, m + 1, i))
          <6>1. CASE i = m + 1
            BY <1>1, <5>1, <6>1 DEF Ahead
          <6>2. CASE i # m + 1
            <7>1. ~Ahead(v, i, j) /\ v[i] \in Nat /\ i \in Nat
              BY <1>1, <3>1, <4>1, <5>1, <6>2
            <7>2. v[m + 1] > v[i]
              BY <4>2, <4>3, <7>1 DEF Ahead
            <7>3. QED
              BY <4>2, <7>1, <7>2 DEF Ahead
          <6>3. QED
            BY <6>1, <6>2
        <5>2. QED
          BY <2>3, <5>1
      <4>4. CASE ~(v[m + 1] > v[j])
        <5>1. ~Ahead(v, m + 1, j) /\ Ahead(v, j, m + 1)
          BY <4>1, <4>2, <4>4 DEF Ahead
        <5>2. Best(j, m + 1)
          BY <3>1, <4>1, <5>1
        <5>3. j <= m + 1
          BY <4>1, <4>2
        <5>4. QED
          BY <5>2, <5>3
      <4>5. QED
        BY <4>3, <4>4
    <3>4. QED
      BY <3>2, <3>3
  <2>4. QED
    BY <2>2, <2>3
<1>4. \A m \in Nat : m \in G
  <2> HIDE DEF G
  <2>1. QED
    BY <1>2, <1>3, NatUp
<1>5. n \in G
  <2> HIDE DEF G
  <2>1. QED
    BY <1>4
<1>6. QED
  BY <1>1, <1>5

(* The two best of some positions have at most one ahead of them. *)
LEMMA RanksExist ==
  ASSUME NEW n \in Nat, NEW v \in [1..n -> Nat], NEW S \in SUBSET (1..n),
         NEW k \in 1..2, k <= Cardinality(S)
  PROVE  \E j \in S : Cardinality({i \in S : Ahead(v, i, j)}) = k - 1
<1>1. IsFiniteSet(S)
  <2>1. IsFiniteSet(1..n)
    BY FS_Interval
  <2>2. QED
    BY <2>1, FS_Subset
<1>2. S # {}
  BY <1>1, FS_EmptySet
<1>3. PICK first \in S : \A i \in S : ~Ahead(v, i, first) /\ (i # first => Ahead(v, first, i))
  BY <1>2, BestExists
<1>4. Cardinality({i \in S : Ahead(v, i, first)}) = 0
  <2>1. {i \in S : Ahead(v, i, first)} = {}
    BY <1>3
  <2>2. Cardinality({}) = 0
    BY FS_EmptySet
  <2>3. QED
    BY <2>1, <2>2
<1>5. ASSUME k = 2 PROVE \E j \in S : Cardinality({i \in S : Ahead(v, i, j)}) = 1
  <2> DEFINE rest == S \ {first}
  <2>1. rest # {}
    <3>1. Cardinality({first}) = 1 /\ 2 <= Cardinality(S)
      BY <1>5, FS_Singleton
    <3>2. SUFFICES ASSUME rest = {} PROVE FALSE
      OBVIOUS
    <3>3. S = {first}
      BY <3>2
    <3>4. Cardinality(S) = 1
      BY <3>1, <3>3
    <3>5. QED
      BY <3>1, <3>4
  <2>2. rest \in SUBSET (1..n)
    OBVIOUS
  <2> HIDE DEF rest
  <2>3. PICK second \in rest :
          \A i \in rest : ~Ahead(v, i, second) /\ (i # second => Ahead(v, second, i))
    BY <2>1, <2>2, BestExists
  <2>4. {i \in S : Ahead(v, i, second)} = {first}
    BY <1>3, <2>3 DEF rest
  <2>5. Cardinality({first}) = 1 /\ second \in S
    BY <2>3, FS_Singleton DEF rest
  <2>6. Cardinality({i \in S : Ahead(v, i, second)}) = 1
    BY <2>4, <2>5
  <2>7. QED
    BY <2>5, <2>6
<1>6. (k = 1 /\ k - 1 = 0) \/ (k = 2 /\ k - 1 = 1)
  OBVIOUS
<1>7. QED
  BY <1>4, <1>5, <1>6

(* Each option is a path that pays what it is worth, and at most one path *)
(* is worth more.                                                         *)
OptionIsBest(option, pools, in, out, n) ==
  /\ option.route \in Paths(pools, in, out)
  /\ option.amountOut = Worth(pools, option.route, n)
  /\ option.amountOut \in Nat /\ option.amountOut > 0
  /\ Cardinality({path \in Paths(pools, in, out) : Worth(pools, path, n) > option.amountOut}) <= 1

LEMMA OptionsAreBest ==
  ASSUME NEW pools, IsPoolList(pools), NEW in, NEW out, NEW n \in Nat \ {0}
  PROVE  /\ RouteOptions(pools, in, out, n) # <<>> => Len(RouteOptions(pools, in, out, n)) \in Nat \ {0}
         /\ \A k \in 1..Len(RouteOptions(pools, in, out, n)) :
              OptionIsBest(RouteOptions(pools, in, out, n)[k], pools, in, out, n)
<1> DEFINE options == RouteOptions(pools, in, out, n)
           routes == FindAllSwapRoutes(pools, in, out)
           Pays(i) == SimulateRoute(pools, routes[i], n)
           paying == {i \in DOMAIN routes : Pays(i) > 0}
           Before(i, j) == Pays(i) > Pays(j) \/ (Pays(i) = Pays(j) /\ i < j)
           Ranked(k) == CHOOSE j \in paying : Cardinality({i \in paying : Before(i, j)}) = k - 1
           count == IF Cardinality(paying) < MaxOptions THEN Cardinality(paying) ELSE MaxOptions
           Option(route) ==
             [route |-> route, amountOut |-> SimulateRoute(pools, route, n),
              poolReserveIn |-> IF Len(route) < 2 THEN 0 ELSE ReserveOf(pools, route[1], route[2])]
<1>1. options = [k \in 1..count |-> Option(routes[Ranked(k)])]
  BY DEF RouteOptions
<1>2. CASE in = out
  <2>1. routes = << <<in>> >>
    BY <1>2 DEF FindAllSwapRoutes
  <2>2. DOMAIN routes = {1} /\ Pays(1) = 0
    <3>1. Len(<<in>>) < 2 /\ routes[1] = <<in>>
      BY <2>1
    <3>2. SimulateRoute(pools, <<in>>, n) = 0
      BY <3>1 DEF SimulateRoute
    <3>3. QED
      BY <2>1, <3>1, <3>2
  <2> HIDE DEF routes
  <2>3. paying = {}
    BY <2>2
  <2> HIDE DEF paying
  <2>4. count = 0
    BY <2>3, FS_EmptySet DEF MaxOptions
  <2> HIDE DEF count, Option, Ranked
  <2>5. options = <<>>
    BY <1>1, <2>4
  <2> HIDE DEF options
  <2>6. Len(options) = 0 /\ 1..Len(options) = {}
    BY <2>5
  <2>7. QED
    BY <2>5, <2>6 DEF options
<1>3. CASE in # out
  <2>1. routes = RoutesFrom(pools, in, out)
    BY <1>3 DEF FindAllSwapRoutes
  <2>2. /\ \E T : routes \in Seq(Seq(T))
        /\ \A q : Contains(routes, q) <=> q \in Paths(pools, in, out)
    BY <1>3, <2>1, RoutesAre
  <2> HIDE DEF routes
  <2>3. Len(routes) \in Nat /\ DOMAIN routes = 1..Len(routes)
    BY <2>2
  <2>4. \A i \in 1..Len(routes) : routes[i] \in Paths(pools, in, out)
    BY <2>2 DEF Contains
  <2>5. \A i \in 1..Len(routes) : Pays(i) \in Nat /\ Pays(i) = Worth(pools, routes[i], n)
    BY <2>4, SimulationIsWorth
  <2>6. \A path \in Paths(pools, in, out) : \E i \in 1..Len(routes) : routes[i] = path
    BY <2>2 DEF Contains
  <2> DEFINE v == [i \in 1..Len(routes) |-> Pays(i)]
  <2>7. v \in [1..Len(routes) -> Nat] /\ \A i \in 1..Len(routes) : v[i] = Pays(i)
    BY <2>5
  <2>8. paying \in SUBSET (1..Len(routes)) /\ \A i \in paying : Pays(i) > 0
    BY <2>3
  <2>9. \A i \in 1..Len(routes) : Pays(i) > 0 => i \in paying
    BY <2>3
  <2> HIDE DEF v, paying, Pays
  <2>10. \A i, j \in paying : Before(i, j) <=> Ahead(v, i, j)
    BY <2>7, <2>8 DEF Ahead
  <2>11. \A j \in paying : {i \in paying : Before(i, j)} = {i \in paying : Ahead(v, i, j)}
    BY <2>10
  <2>12. IsFiniteSet(paying) /\ Cardinality(paying) \in Nat
    <3>1. IsFiniteSet(1..Len(routes))
      BY <2>3, FS_Interval
    <3>2. IsFiniteSet(paying)
      BY <2>8, <3>1, FS_Subset
    <3>3. QED
      BY <3>2, FS_CardinalityType
  <2>13. count \in Nat /\ count <= 2 /\ count <= Cardinality(paying)
    BY <2>12 DEF MaxOptions
  <2> HIDE DEF count
  <2>14. ASSUME NEW k \in 1..count
         PROVE  /\ Ranked(k) \in paying
                /\ Cardinality({i \in paying : Ahead(v, i, Ranked(k))}) = k - 1
    <3>1. k \in 1..2 /\ k <= Cardinality(paying)
      BY <2>12, <2>13
    <3>2. \E j \in paying : Cardinality({i \in paying : Ahead(v, i, j)}) = k - 1
      BY <2>3, <2>7, <2>8, <3>1, RanksExist
    <3>3. \E j \in paying : Cardinality({i \in paying : Before(i, j)}) = k - 1
      <4> HIDE DEF Before
      <4>1. QED
        BY <2>11, <3>2
    <3> HIDE DEF Before
    <3>4. Ranked(k) \in paying /\ Cardinality({i \in paying : Before(i, Ranked(k))}) = k - 1
      BY <3>3
    <3> HIDE DEF Ranked
    <3>5. QED
      BY <2>11, <3>4
  <2> HIDE DEF Ranked
  <2>15. Len(options) = count /\ \A k \in 1..count : options[k] = Option(routes[Ranked(k)])
    <3> HIDE DEF Option, options
    <3>1. QED
      BY <1>1, <2>13
  <2> HIDE DEF options
  <2>16. ASSUME NEW k \in 1..count PROVE OptionIsBest(options[k], pools, in, out, n)
    <3> DEFINE j == Ranked(k)
               route == routes[j]
               ahead == {i \in paying : Ahead(v, i, j)}
               better == {path \in Paths(pools, in, out) : Worth(pools, path, n) > Pays(j)}
    <3>1. j \in paying /\ Cardinality(ahead) = k - 1
      BY <2>14
    <3>2. j \in 1..Len(routes) /\ Pays(j) > 0 /\ Pays(j) \in Nat
      BY <2>5, <2>8, <3>1
    <3>3. options[k].route = route /\ options[k].amountOut = Pays(j)
      BY <2>15 DEF Pays
    <3>4. \A path \in better : \E i \in ahead : path = routes[i]
      <4>1. SUFFICES ASSUME NEW path \in better PROVE \E i \in ahead : path = routes[i]
        OBVIOUS
      <4>2. PICK i \in 1..Len(routes) : routes[i] = path
        BY <2>6
      <4>3. Pays(i) > Pays(j)
        BY <2>5, <4>2
      <4>4. i \in paying
        BY <2>5, <2>9, <3>2, <4>3
      <4>5. Ahead(v, i, j)
        BY <2>7, <3>2, <4>3 DEF Ahead
      <4>6. QED
        BY <4>2, <4>4, <4>5
    <3>5. IsFiniteSet(ahead)
      BY <2>12, FS_Subset
    <3>6. k - 1 = 0 \/ k - 1 = 1
      BY <2>13
    <3> HIDE DEF better, ahead, j
    <3>7. Cardinality(better) <= 1
      <4>1. CASE k - 1 = 0
        <5>1. ahead = {}
          BY <3>1, <3>5, <4>1, FS_EmptySet
        <5>2. better = {}
          BY <3>4, <5>1
        <5>3. QED
          BY <5>2, FS_EmptySet
      <4>2. CASE k - 1 = 1
        <5>1. PICK i : ahead = {i}
          BY <3>1, <3>5, <4>2, FS_Singleton
        <5>2. better \in SUBSET {routes[i]}
          BY <3>4, <5>1
        <5>3. IsFiniteSet({routes[i]}) /\ Cardinality({routes[i]}) = 1
          BY FS_Singleton
        <5>4. QED
          BY <5>2, <5>3, FS_Subset
      <4>3. QED
        BY <3>6, <4>1, <4>2
    <3>8. Worth(pools, route, n) = Pays(j) /\ route \in Paths(pools, in, out)
      BY <2>4, <2>5, <3>2
    <3> HIDE DEF route
    <3>9. QED
      BY <3>2, <3>3, <3>7, <3>8 DEF OptionIsBest, better
  <2>17. count = 0 => options = <<>>
    <3> HIDE DEF Option
    <3>1. QED
      BY <1>1 DEF options
  <2>18. QED
    BY <2>13, <2>15, <2>16, <2>17 DEF options
<1>4. QED
  BY <1>2, <1>3

-----------------------------------------------------------------------------
(* What is asked of a call that swaps over some pools. *)
SoundCall(c, pools) ==
  /\ c.route \in Paths(pools, c.in, c.out)
  /\ c.quoted = Worth(pools, c.route, c.amountIn) /\ c.quoted > 0
  /\ Cardinality({path \in Paths(pools, c.in, c.out) :
                    Worth(pools, path, c.amountIn) > c.quoted}) <= 1
  /\ IF c.slippage = 0 THEN c.minOut = 0
     ELSE /\ c.minOut * 10000 <= c.quoted * (10000 - c.slippage)
          /\ (c.minOut + 1) * 10000 > c.quoted * (10000 - c.slippage)

LEMMA QuotesAre ==
  ASSUME NEW m \in Markets, NEW in \in Listed \cup {Weth}, NEW out \in Listed \cup {Weth},
         NEW n \in Amounts
  PROVE  Quotes[<<m, in, out, n>>] = RouteOptions(PoolsOf(m), in, out, n)
<1> DEFINE D == Markets \X (Listed \cup {Weth}) \X (Listed \cup {Weth}) \X Amounts
           all == [q \in D |-> RouteOptions(PoolsOf(q[1]), q[2], q[3], q[4])]
<1>1. Quotes = all
  BY DEF Quotes
<1>2. <<m, in, out, n>> \in D
  OBVIOUS
<1>3. QED
  BY <1>1, <1>2

(* The least the user accepts is the quote less the tolerance, rounded down. *)
LEMMA MinAmountOutIs ==
  ASSUME NEW n \in Nat, NEW bps \in Nat, bps <= 5000
  PROVE  /\ MinAmountOut(n, bps) * 10000 <= n * (10000 - bps)
         /\ (MinAmountOut(n, bps) + 1) * 10000 > n * (10000 - bps)
<1> DEFINE kept == n * (10000 - bps)
<1>1. kept \in Nat
  <2>1. 10000 - bps \in Nat
    OBVIOUS
  <2>2. QED
    BY <2>1
<1>2. MinAmountOut(n, bps) = kept \div 10000
  BY DEF MinAmountOut
<1> HIDE DEF kept
<1>3. /\ kept \div 10000 \in Nat /\ (kept \div 10000) * 10000 <= kept
      /\ kept < (kept \div 10000 + 1) * 10000
  BY <1>1, DivBounds
<1>4. QED
  BY <1>1, <1>2, <1>3 DEF kept

(* What handleSwap asks the wallet for. *)
LEMMA HandleSwapIsSound ==
  ASSUME IInv, Swap!HandleSwap, NEW r \in requests', r \notin requests
  PROVE  SoundCall(r.call, PoolsOf(market))
<1> DEFINE st == swapStore
           pools == PoolsOf(market)
           options == RouteOptions(pools, st.tokenIn, st.tokenOut, st.amountIn)
           k == IF swapPanel.selected > Len(options) THEN Len(options) ELSE swapPanel.selected
<1>1. /\ market \in Markets /\ swapStore \in StoreTypes /\ swapPanel \in PanelTypes
      /\ SessionOk
  BY SwapFacts DEF IInv, FlowsTyped, SwapTyped
<1>2. /\ Swap!Ready /\ st.amountIn > 0 /\ Swap!NoToken \notin {st.tokenIn, st.tokenOut}
      /\ Swap!Options # <<>>
  BY DEF Swap!HandleSwap, Swap!SwapOffered, Swap!Ready, Swap!RouteExists, Swap!s
<1>3. /\ st.tokenIn \in Listed \cup {Weth} /\ st.tokenOut \in Listed \cup {Weth}
      /\ st.amountIn \in Amounts /\ st.amountIn \in Nat \ {0}
      /\ st.slippage \in Nat /\ st.slippage <= 5000 /\ swapPanel.selected \in 1..2
  <2>1. /\ st.tokenIn \in SwapTokens /\ st.tokenOut \in SwapTokens
        /\ st.amountIn \in Amounts /\ st.slippage \in Slippages /\ swapPanel.selected \in 1..2
    BY <1>1 DEF StoreTypes, PanelTypes
  <2>2. st.tokenIn \in Listed \cup {Weth} /\ st.tokenOut \in Listed \cup {Weth}
    BY <1>2, <2>1 DEF SwapTokens, Swap!Offered
  <2>3. st.slippage \in Nat /\ st.slippage <= 5000
    BY <2>1, QuotesAssumption
  <2>4. st.amountIn \in Nat \ {0}
    <3>1. st.amountIn \in Nat
      BY <2>1, SessionAssumption
    <3>2. st.amountIn > 0
      BY <1>2
    <3> HIDE DEF st
    <3>3. QED
      BY <3>1, <3>2
  <2>5. QED
    BY <2>1, <2>2, <2>3, <2>4
<1>4. Swap!Options = options
  <2>1. Quotes[<<market, st.tokenIn, st.tokenOut, st.amountIn>>] = options
    BY <1>1, <1>3, QuotesAre
  <2>2. Swap!Options = Quotes[<<market, st.tokenIn, st.tokenOut, st.amountIn>>]
    BY <1>2 DEF Swap!Options, Swap!s
  <2>3. QED
    BY <2>1, <2>2
<1>5. IsPoolList(pools)
  BY <1>1, QuotesAssumption
<1> HIDE DEF pools
<1>6. /\ Len(options) \in Nat \ {0}
      /\ \A i \in 1..Len(options) :
           OptionIsBest(options[i], pools, st.tokenIn, st.tokenOut, st.amountIn)
  BY <1>2, <1>3, <1>4, <1>5, OptionsAreBest
<1> HIDE DEF options
<1>7. k \in 1..Len(options)
  BY <1>3, <1>6
<1> DEFINE option == options[k]
<1>8. Swap!Selected = option
  BY <1>4 DEF Swap!Selected
<1>9. OptionIsBest(option, pools, st.tokenIn, st.tokenOut, st.amountIn)
  BY <1>6, <1>7
<1> HIDE DEF option
<1>10. /\ r.call.in = st.tokenIn /\ r.call.out = st.tokenOut /\ r.call.amountIn = st.amountIn
       /\ r.call.route = option.route /\ r.call.quoted = option.amountOut
       /\ r.call.slippage = st.slippage
       /\ r.call.minOut = IF st.slippage > 0 THEN Swap!R!MinAmountOut(option.amountOut, st.slippage)
                          ELSE 0
  BY <1>8 DEF Swap!HandleSwap, Swap!Ask, Swap!s
<1>11. \A n, bps : Swap!R!MinAmountOut(n, bps) = MinAmountOut(n, bps)
  BY DEF Swap!R!MinAmountOut, MinAmountOut
<1>12. option.amountOut \in Nat
  BY <1>9 DEF OptionIsBest
<1>13. IF r.call.slippage = 0 THEN r.call.minOut = 0
       ELSE /\ r.call.minOut * 10000 <= r.call.quoted * (10000 - r.call.slippage)
            /\ (r.call.minOut + 1) * 10000 > r.call.quoted * (10000 - r.call.slippage)
  <2>1. CASE st.slippage = 0
    BY <1>10, <2>1
  <2>2. CASE st.slippage # 0
    <3> DEFINE n == option.amountOut
               bps == st.slippage
    <3>1. n \in Nat /\ bps \in Nat /\ bps <= 5000 /\ bps > 0
      BY <1>3, <1>12, <2>2
    <3>2. r.call.quoted = n /\ r.call.slippage = bps /\ r.call.minOut = MinAmountOut(n, bps)
      BY <1>10, <1>11, <3>1
    <3> HIDE DEF n, bps
    <3>3. /\ MinAmountOut(n, bps) * 10000 <= n * (10000 - bps)
          /\ (MinAmountOut(n, bps) + 1) * 10000 > n * (10000 - bps)
      BY <3>1, MinAmountOutIs
    <3>4. QED
      BY <3>1, <3>2, <3>3
  <2>3. QED
    BY <2>1, <2>2
<1>14. QED
  BY <1>9, <1>10, <1>13 DEF SoundCall, OptionIsBest, pools

(* Only handleSwap asks for a swap. *)
LEMMA OnlyHandleSwapSwaps ==
  ASSUME IInv, [Next]_vars, ~Swap!HandleSwap, NEW r \in requests', r.form = "swap", r.call.op = "swap"
  PROVE  r \in requests
<1> SUFFICES ASSUME r \notin requests PROVE FALSE
  OBVIOUS
<1>1. \A S : StepOf(S) => "swap" \in S
  <2>1. SUFFICES ASSUME NEW S, StepOf(S) PROVE "swap" \in S
    OBVIOUS
  <2>2. CASE AskStep(S)
    <3>1. PICK form \in S : \E call : Request(form, call)
      BY <2>2 DEF AskStep
    <3>2. r.form = form
      BY <3>1 DEF Request
    <3>3. QED
      BY <3>1, <3>2
  <2>3. CASE SendStep(S) \/ RejectStep(S)
    BY <2>3 DEF SendStep, RejectStep, Send, Reject
  <2>4. CASE ToastStep(S) \/ LearnStep(S) \/ CloseStep(S)
    BY <2>4 DEF ToastStep, LearnStep, CloseStep, ToastClosing, Learn, Unmount, Navigate
  <2>5. CASE MineStep \/ ReadStep \/ Editing \/ Mount \/ UNCHANGED session
    BY <2>5 DEF MineStep, ReadStep, MineTx, ReadAllowance, Editing, Mount, session
  <2>6. QED
    BY <2>1, <2>2, <2>3, <2>4, <2>5 DEF StepOf
<1>2. CASE SwapStep
  <2>1. CASE Swap!HandleApprove
    <3>1. PICK call : Request("swap", call) /\ call.op = "approve"
      BY <2>1, SwapEffects DEF Swap!HandleApprove
    <3>2. QED
      BY <3>1 DEF Request
  <2>2. CASE Swap!ApproveMined \/ Swap!ApproveReverted \/ Swap!SwapMined
    BY <2>2 DEF Swap!ApproveMined, Swap!ApproveReverted, Swap!SwapMined,
                Swap!Toast, Swap!ToastClosing, Swap!Learn
  <2>3. CASE \E f \in refetches : Swap!RefetchDone(f)
    BY <2>3 DEF Swap!RefetchDone, Swap!ReadAllowance, Swap!session
  <2>4. CASE \E q \in Swap!Open("swap") : \/ Swap!ApproveSigned(q) \/ Swap!ApproveRejected(q)
                                          \/ Swap!SwapSigned(q) \/ Swap!SwapRejected(q)
    BY <2>4 DEF Swap!ApproveSigned, Swap!ApproveRejected, Swap!SwapSigned, Swap!SwapRejected,
                Swap!Send, Swap!Reject
  <2>5. CASE Swap!CloseConfirmed \/ Swap!FollowForm
    BY <2>5 DEF Swap!CloseConfirmed, Swap!FollowForm, Swap!session
  <2>6. CASE Swap!SetAmountIn \/ Swap!SetTokenIn \/ Swap!SetTokenOut \/ Swap!Flip
    BY <2>6 DEF Swap!SetAmountIn, Swap!SetTokenIn, Swap!SetTokenOut, Swap!Flip, Swap!Edit,
                Swap!Editing
  <2>7. CASE Swap!SetSlippage \/ Swap!SelectRoute
    BY <2>7 DEF Swap!SetSlippage, Swap!SelectRoute, Swap!Editing
  <2>8. QED
    BY <1>2, <2>1, <2>2, <2>3, <2>4, <2>5, <2>6, <2>7 DEF SwapStep, Swap!NextSwap
<1>3. CASE LiquidityStep
  BY <1>1, <1>3, LiquidityStepsKeep DEF LiquidityStep, LiquidityKept
<1>4. CASE StakingStep
  BY <1>1, <1>4, StakingStepsKeep DEF StakingStep, StakingKept, StakingForms
<1>5. CASE GovernanceStep
  BY <1>1, <1>5, GovernanceStepsKeep DEF GovernanceStep, GovernanceKept, GForms
<1>6. CASE Answered \/ Mined \/ UNCHANGED vars
  BY <1>6 DEF Answered, Mined, ReadAllowance, MineTx, vars, session
<1>7. CASE Leave
  BY <1>7 DEF Leave, Navigate
<1>8. QED
  BY <1>2, <1>3, <1>4, <1>5, <1>6, <1>7 DEF Next

(* The pools a page has loaded are those of the session. *)
LEMMA MarketStays ==
  ASSUME [Next]_vars
  PROVE  market' = market
<1>1. CASE SwapStep
  <2>1. CASE Swap!SetAmountIn \/ Swap!SetTokenIn \/ Swap!SetTokenOut \/ Swap!Flip
    BY <2>1 DEF Swap!SetAmountIn, Swap!SetTokenIn, Swap!SetTokenOut, Swap!Flip, Swap!Edit
  <2>2. CASE Swap!SetSlippage \/ Swap!SelectRoute \/ Swap!FollowForm
    BY <2>2 DEF Swap!SetSlippage, Swap!SelectRoute, Swap!FollowForm
  <2>3. CASE Swap!HandleApprove \/ Swap!HandleSwap
    BY <2>3 DEF Swap!HandleApprove, Swap!HandleSwap
  <2>4. CASE Swap!ApproveMined \/ Swap!ApproveReverted \/ Swap!SwapMined \/ Swap!CloseConfirmed
    BY <2>4 DEF Swap!ApproveMined, Swap!ApproveReverted, Swap!SwapMined, Swap!CloseConfirmed
  <2>5. CASE \E f \in refetches : Swap!RefetchDone(f)
    BY <2>5 DEF Swap!RefetchDone
  <2>6. ASSUME NEW r, \/ Swap!ApproveSigned(r) \/ Swap!ApproveRejected(r)
                      \/ Swap!SwapSigned(r) \/ Swap!SwapRejected(r)
        PROVE  market' = market
    BY <2>6 DEF Swap!ApproveSigned, Swap!ApproveRejected, Swap!SwapSigned, Swap!SwapRejected
  <2>7. QED
    BY <1>1, <2>1, <2>2, <2>3, <2>4, <2>5, <2>6 DEF SwapStep, Swap!NextSwap
<1>2. CASE LiquidityStep \/ StakingStep \/ GovernanceStep
  BY <1>2 DEF LiquidityStep, StakingStep, GovernanceStep, swapVars
<1>3. CASE Answered \/ Mined \/ UNCHANGED vars
  BY <1>3 DEF Answered, Mined, vars, flows, swapVars
<1>4. CASE Leave
  BY <1>4 DEF Leave
<1>5. QED
  BY <1>1, <1>2, <1>3, <1>4 DEF Next

LEMMA SwapsStaySound ==
  ASSUME IInv, SignedSwapIsSound, [Next]_vars
  PROVE  SignedSwapIsSound'
<1>1. \A r \in requests : r.form = "swap" /\ r.call.op = "swap" => SoundCall(r.call, PoolsOf(market))
  BY DEF SignedSwapIsSound, SoundCall, Open
<1>2. ASSUME NEW r \in requests', r.form = "swap", r.call.op = "swap"
      PROVE  SoundCall(r.call, PoolsOf(market))
  <2>1. CASE r \in requests
    BY <1>1, <1>2, <2>1
  <2>2. CASE r \notin requests
    BY <1>2, <2>2, OnlyHandleSwapSwaps, HandleSwapIsSound
  <2>3. QED
    BY <2>1, <2>2
<1>3. market' = market
  BY MarketStays
<1>4. \A r \in requests' : r.form = "swap" /\ r.call.op = "swap" => SoundCall(r.call, PoolsOf(market'))
  BY <1>2, <1>3
<1>5. QED
  BY <1>4 DEF SignedSwapIsSound, SoundCall, Open

-----------------------------------------------------------------------------
(* Whatever the wallet, the chain and the user do, the state of the        *)
(* session and of the four flows stays of its types: every hash a hook     *)
(* holds is one of a transaction that was sent.                            *)
THEOREM TypeCorrect == Spec => []TypeOK
BY Inductive, IInvTypeOK, PTL

(* A toast that announces an outcome announces the one the transaction     *)
(* has: the effects that read a receipt run for the hash they were given.  *)
THEOREM ToastsTell == Spec => []ToastsTellTheOutcome
<1>1. IInv => ToastsTellTheOutcome
  BY DEF IInv
<1>2. QED
  BY <1>1, Inductive, PTL

(* The wallet is asked to spend more than is approved only behind a cached *)
(* allowance, or after a failure that let the staking panel skip the       *)
(* approval.                                                               *)
THEOREM WithinAllowance == Spec => []AskedWithinAllowance
BY Inductive, IInvWithinAllowance, PTL

(* Some hook follows every transaction whose toast is still pending, as    *)
(* long as its form is there and its step was not overwritten.             *)
THEOREM PendingAreWatched == Spec => []PendingToastsAreWatched
BY Inductive, IInvWatched, PTL

(* No form has two requests of a kind in the wallet unless its step was    *)
(* overwritten in between, a form that is gone included.                   *)
THEOREM OneRequest == Spec => []OneRequestPerForm
<1>1. Init => OneRequestPerForm
  BY DEF Init, InitSession, OneRequestPerForm
<1>2. QED
  BY <1>1, OneRequestKept, IInvOneCurrent, Inductive, PTL DEF Spec

(* Whatever the form went through, a swap in the wallet goes along a path  *)
(* over the pools listed, is quoted what that path pays, with at most one  *)
(* path that pays more, and asks for the quote less the tolerance.         *)
THEOREM SignedSwapSound == Spec => []SignedSwapIsSound
<1>1. Init => SignedSwapIsSound
  BY DEF Init, InitSession, SignedSwapIsSound, Open
<1>2. QED
  BY <1>1, SwapsStaySound, Inductive, PTL DEF Spec
=============================================================================
