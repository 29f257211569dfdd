----------------------------- MODULE V2Governor -----------------------------
(***************************************************************************)
(* On-chain governance, V2Governor.sol, over an ERC20Votes token.          *)
(*                                                                         *)
(* propose, castVote and cancel are single transactions.  execute calls    *)
(* arbitrary targets, which may call the governor back, so it is a         *)
(* transaction of several steps: one per call, on a stack of executions    *)
(* in progress.  Nothing else happens while the stack is not empty, and a  *)
(* call that fails reverts the whole transaction to what it was before.    *)
(*                                                                         *)
(* The token only ever tells votes at the end of an earlier block, so all  *)
(* transfers and delegations of a block are one choice of a distribution.  *)
(***************************************************************************)
EXTENDS Integers, Sequences, FiniteSets, Functions

CONSTANTS
  Accounts,           \* token holders
  VoteDistributions,  \* account -> votes, what transfers and delegations lead to
  CallLists,          \* the lists of calls proposals may carry
  VotingPeriods, Quorums, Thresholds, GracePeriods,  \* initial parameters
  SecondsPerBlock,    \* 12 in propose
  BlockTimes,         \* seconds a block may really take
  MaxUint64, MaxUint256,  \* the widths of endTime and of sums with it
  MaxBlock,           \* bound on the block number
  MaxProposals        \* bound on the number of proposals

ASSUME GovernorAssumption ==
  /\ IsFiniteSet(Accounts)
  /\ VoteDistributions \subseteq [Accounts -> Nat]
  /\ VotingPeriods \subseteq Nat /\ Quorums \subseteq Nat
  /\ Thresholds \subseteq Nat /\ GracePeriods \subseteq Nat
  /\ SecondsPerBlock \in Nat /\ BlockTimes \subseteq Nat
  /\ MaxUint64 \in Nat /\ MaxUint256 \in Nat /\ MaxBlock \in Nat /\ MaxProposals \in Nat

VoteType == {"against", "for", "abstain"}

Setters ==
  {"setVotingPeriodBlocks", "setQuorumRequired", "setProposalThreshold", "setGracePeriod"}

\* A call of a proposal: to the governor itself (a setter, execute or cancel)
\* or to another contract, which succeeds or fails.
Call == [op : Setters \cup {"execute", "cancel", "succeed", "fail"}, arg : Nat]

ASSUME CallAssumption == CallLists \subseteq Seq(Call)

VARIABLES
  block, time,          \* block.number, block.timestamp
  pastVotes,            \* pastVotes[b][a]: votes of a at the end of block b
  votingPeriodBlocks, quorumRequired, proposalThreshold, gracePeriod,
  proposals,            \* the array of proposals, counted from 1
  hasVoted,             \* pairs <<proposal, voter>>
  stack,                \* executions in progress, the innermost last
  saved,                \* the state a revert returns to
  performed             \* history: proposal -> calls it has performed

chainVars == <<block, time, pastVotes>>
params == <<votingPeriodBlocks, quorumRequired, proposalThreshold, gracePeriod>>
txVars == <<stack, saved>>
vars == <<chainVars, params, proposals, hasVoted, txVars, performed>>

Idle == stack = <<>>

\* What execute may change and a revert restores.
Revertible == <<params, proposals, performed>>

Init ==
  /\ block = 2 /\ time = 0
  /\ \E votes \in VoteDistributions : pastVotes = <<votes>>
  /\ votingPeriodBlocks \in VotingPeriods /\ quorumRequired \in Quorums
  /\ proposalThreshold \in Thresholds /\ gracePeriod \in GracePeriods
  /\ proposals = <<>> /\ hasVoted = {} /\ performed = <<>>
  /\ stack = <<>> /\ saved = <<>>

-----------------------------------------------------------------------------
(* A block ends; votes have moved in it in any way.                        *)
NextBlock ==
  /\ Idle
  /\ block < MaxBlock
  /\ block' = block + 1
  /\ \E seconds \in BlockTimes : time' = time + seconds
  /\ \E votes \in VoteDistributions : pastVotes' = Append(pastVotes, votes)
  /\ UNCHANGED <<params, proposals, hasVoted, txVars, performed>>

GetPastVotes(a, b) == pastVotes[b][a]

\* The length of the vote is cut to 64 bits; the sums that follow are checked.
EndTime == time + ((votingPeriodBlocks * SecondsPerBlock) % (MaxUint64 + 1))

Propose(a, calls) ==
  /\ Idle
  /\ Len(proposals) < MaxProposals
  /\ GetPastVotes(a, block - 1) >= proposalThreshold
  /\ votingPeriodBlocks * SecondsPerBlock <= MaxUint256
  /\ EndTime <= MaxUint64
  /\ proposals' = Append(proposals,
       [proposer |-> a, snapshotBlock |-> block - 1,
        endTime |-> EndTime, status |-> "Active", quorum |-> quorumRequired,
        calls |-> calls, votes |-> [type \in VoteType |-> 0]])
  /\ performed' = Append(performed, 0)
  /\ UNCHANGED <<chainVars, params, hasVoted, txVars>>

\* Mutant: the weight is read when the vote is cast.
WeightNow(v, id) == GetPastVotes(v, block - 1)

Weight(v, id) == GetPastVotes(v, proposals[id].snapshotBlock)

CastVote(v, id, type) ==
  /\ Idle
  /\ proposals[id].status = "Active"
  /\ time <= proposals[id].endTime
  /\ <<id, v>> \notin hasVoted
  /\ Weight(v, id) > 0
  /\ hasVoted' = hasVoted \cup {<<id, v>>}
  /\ proposals' = [proposals EXCEPT ![id].votes[type] = @ + Weight(v, id)]
  /\ UNCHANGED <<chainVars, params, txVars, performed>>

-----------------------------------------------------------------------------
TotalVotes(p) == p.votes["for"] + p.votes["against"] + p.votes["abstain"]

Passed(p) ==
  /\ TotalVotes(p) >= p.quorum
  /\ p.votes["for"] > p.votes["against"]

(* The checks of execute, in a state without or within a transaction.      *)
CanExecute(id) ==
  /\ id \in DOMAIN proposals
  /\ LET p == proposals[id]
     IN  /\ p.status = "Active"
         /\ time > p.endTime
         /\ p.endTime + gracePeriod <= MaxUint256
         /\ time <= p.endTime + gracePeriod
         /\ Passed(p)

(* The checks of cancel for a caller other than the proposer.              *)
AnyoneMayCancel(id) ==
  /\ id \in DOMAIN proposals
  /\ proposals[id].status = "Active"
  /\ GetPastVotes(proposals[id].proposer, block - 1) < proposalThreshold

Cancel(a, id) ==
  /\ Idle
  /\ proposals[id].status = "Active"
  /\ a = proposals[id].proposer \/ AnyoneMayCancel(id)
  /\ proposals' = [proposals EXCEPT ![id].status = "Canceled"]
  /\ UNCHANGED <<chainVars, params, hasVoted, txVars, performed>>

-----------------------------------------------------------------------------
(* execute: the status is written first, then the calls run one by one.    *)

\* Mutant: the status is written when the calls have run.
MarkLate(id) == UNCHANGED proposals

MarkExecuted(id) == proposals' = [proposals EXCEPT ![id].status = "Executed"]

Execute(id) ==
  /\ Idle
  /\ CanExecute(id)
  /\ MarkExecuted(id)
  /\ stack' = <<[id |-> id, next |-> 1]>>
  /\ saved' = Revertible
  /\ UNCHANGED <<chainVars, params, hasVoted, performed>>

Frame == stack[Len(stack)]

MoreCalls == ~Idle /\ Frame.next <= Len(proposals[Frame.id].calls)
NextCall == proposals[Frame.id].calls[Frame.next]

\* The innermost execution goes on to its next call.
Advance == [stack EXCEPT ![Len(stack)].next = @ + 1]
Performed == performed' = [performed EXCEPT ![Frame.id] = @ + 1]

RunSetter ==
  /\ MoreCalls
  /\ NextCall.op \in Setters
  /\ LET new(op, old) == IF NextCall.op = op THEN NextCall.arg ELSE old
     IN  /\ votingPeriodBlocks' = new("setVotingPeriodBlocks", votingPeriodBlocks)
         /\ quorumRequired' = new("setQuorumRequired", quorumRequired)
         /\ proposalThreshold' = new("setProposalThreshold", proposalThreshold)
         /\ gracePeriod' = new("setGracePeriod", gracePeriod)
  /\ stack' = Advance
  /\ Performed
  /\ UNCHANGED <<chainVars, proposals, hasVoted, saved>>

RunOtherContract ==
  /\ MoreCalls
  /\ NextCall.op = "succeed"
  /\ stack' = Advance
  /\ Performed
  /\ UNCHANGED <<chainVars, params, proposals, hasVoted, saved>>

RunExecute ==
  /\ MoreCalls
  /\ NextCall.op = "execute"
  /\ CanExecute(NextCall.arg)
  /\ MarkExecuted(NextCall.arg)
  /\ stack' = Append(Advance, [id |-> NextCall.arg, next |-> 1])
  /\ Performed
  /\ UNCHANGED <<chainVars, params, hasVoted, saved>>

RunCancel ==
  /\ MoreCalls
  /\ NextCall.op = "cancel"
  /\ AnyoneMayCancel(NextCall.arg)
  /\ proposals' = [proposals EXCEPT ![NextCall.arg].status = "Canceled"]
  /\ stack' = Advance
  /\ Performed
  /\ UNCHANGED <<chainVars, params, hasVoted, saved>>

CallFails ==
  \/ NextCall.op = "fail"
  \/ NextCall.op = "execute" /\ ~CanExecute(NextCall.arg)
  \/ NextCall.op = "cancel" /\ ~AnyoneMayCancel(NextCall.arg)

\* Mutant: what the earlier calls did stays done.
KeepEffects == UNCHANGED Revertible

\* Mutant: a failure reopens the proposal and leaves what the setters did.
ReopenOnly ==
  /\ proposals' = saved[2] /\ performed' = saved[3]
  /\ UNCHANGED params

RestoreSaved ==
  /\ votingPeriodBlocks' = saved[1][1] /\ quorumRequired' = saved[1][2]
  /\ proposalThreshold' = saved[1][3] /\ gracePeriod' = saved[1][4]
  /\ proposals' = saved[2]
  /\ performed' = saved[3]

Revert ==
  /\ MoreCalls
  /\ CallFails
  /\ RestoreSaved
  /\ stack' = <<>> /\ saved' = <<>>
  /\ UNCHANGED <<chainVars, hasVoted>>

Return ==
  /\ ~Idle /\ ~MoreCalls
  /\ stack' = SubSeq(stack, 1, Len(stack) - 1)
  /\ saved' = IF Len(stack) = 1 THEN <<>> ELSE saved
  /\ UNCHANGED <<chainVars, params, proposals, hasVoted, performed>>

Running == RunSetter \/ RunOtherContract \/ RunExecute \/ RunCancel \/ Revert \/ Return

-----------------------------------------------------------------------------
Next ==
  \/ NextBlock
  \/ \E a \in Accounts :
       \/ \E calls \in CallLists : Propose(a, calls)
       \/ \E id \in DOMAIN proposals :
            \/ \E type \in VoteType : CastVote(a, id, type)
            \/ Cancel(a, id)
  \/ \E id \in DOMAIN proposals : Execute(id)
  \/ Running

Spec == Init /\ [][Next]_vars

-----------------------------------------------------------------------------
(* The view getProposalStatus; a sum that does not fit reverts.            *)
\* Mutant: the grace period is not looked at.
StatusWithoutGrace(p) ==
  CASE p.status \in {"Canceled", "Executed"} -> p.status
    [] p.status = "Active" /\ (time <= p.endTime \/ Passed(p)) -> "Active"
    [] OTHER -> IF TotalVotes(p) >= p.quorum THEN "Defeated" ELSE "Expired"

ProposalStatus(p) ==
  CASE p.status \in {"Canceled", "Executed"} -> p.status
    [] p.status = "Active" /\ time <= p.endTime -> "Active"
    [] p.status = "Active" /\ time > p.endTime /\ Passed(p) ->
         IF p.endTime + gracePeriod > MaxUint256 THEN "Reverts"
         ELSE IF time > p.endTime + gracePeriod THEN "Expired" ELSE "Active"
    [] OTHER -> IF TotalVotes(p) >= p.quorum THEN "Defeated" ELSE "Expired"

-----------------------------------------------------------------------------
Status == {"Active", "Executed", "Canceled"}

Proposal ==
  [proposer : Accounts, snapshotBlock : Nat, endTime : Nat,
   status : Status, quorum : Nat,
   calls : CallLists, votes : [VoteType -> Nat]]

(* Types, and every execution in progress is of a proposal already marked  *)
(* Executed, so no call can execute it again.                              *)
TypeOK ==
  /\ block \in Nat \ {0, 1} /\ time \in Nat
  /\ pastVotes \in Seq(VoteDistributions) /\ Len(pastVotes) = block - 1
  /\ params \in Nat \X Nat \X Nat \X Nat
  /\ proposals \in Seq(Proposal)
  /\ hasVoted \subseteq (DOMAIN proposals) \X Accounts
  /\ performed \in Seq(Nat) /\ DOMAIN performed = DOMAIN proposals
  /\ stack \in Seq([id : DOMAIN proposals, next : Nat \ {0}])
  /\ \A i \in DOMAIN stack : proposals[stack[i].id].status = "Executed"
  /\ Idle <=> saved = <<>>

(* Every tally is the snapshot weight of those who voted, each once, no    *)
(* matter how votes are moved between accounts while voting goes on.       *)
TalliesMatchSnapshot ==
  \A id \in DOMAIN proposals :
    TotalVotes(proposals[id])
      = SumFunctionOnSet(pastVotes[proposals[id].snapshotBlock],
                         {v \in Accounts : <<id, v>> \in hasVoted})

(* An executed proposal has performed each of its calls once, any other    *)
(* none, although calls may re-enter execute and any of them may fail.     *)
CallsRunOnce ==
  \A id \in DOMAIN proposals :
    LET p == proposals[id]
    IN  /\ performed[id] <= Len(p.calls)
        /\ Idle => performed[id] = IF p.status = "Executed" THEN Len(p.calls) ELSE 0

(* The status the frontend shows offers execution ("active" after the end  *)
(* of voting, ProposalCard.tsx) exactly when execute would be accepted.    *)
StatusOffersExecution ==
  \A id \in DOMAIN proposals :
    LET p == proposals[id]
    IN  (ProposalStatus(p) = "Active" /\ time > p.endTime) <=> CanExecute(id)

\* The governor as committed: before the transaction in progress, if any.
CommittedProposals == IF Idle THEN proposals ELSE saved[2]
CommittedParams == IF Idle THEN params ELSE saved[1]

(* Transactions are atomic: with what is committed for the state, and      *)
(* however calls nest, re-enter and fail, the governor does only what      *)
(* Referendum says a governor without transactions in progress may do.     *)
Promised == INSTANCE Referendum WITH
  Voters <- Accounts, Weights <- (UNION {Range(votes) : votes \in VoteDistributions}) \ {0},
  now <- time, motions <- CommittedProposals, settings <- CommittedParams, ballots <- hasVoted
ImplementsReferendum == Promised!Spec
=============================================================================
