-------------------------- MODULE V2GovernorProofs --------------------------
(***************************************************************************)
(* The safety of the governor for every set of accounts, every history of  *)
(* votes and every list of calls, re-entrant ones included.                *)
(***************************************************************************)
EXTENDS V2Governor, Groundwork, SequenceTheorems, TLAPS

(* What a revert would return to: the same proposals, which only differ in *)
(* status, and a governor in which no execution is in progress.            *)
SavedIsConsistent ==
  ~Idle =>
    /\ saved \in (Nat \X Nat \X Nat \X Nat) \X Seq(Proposal) \X Seq(Nat)
    /\ DOMAIN saved[2] = DOMAIN proposals /\ DOMAIN saved[3] = DOMAIN proposals
    /\ \A id \in DOMAIN proposals :
         /\ saved[2][id] = [proposals[id] EXCEPT !.status = saved[2][id].status]
         /\ saved[3][id] = IF saved[2][id].status = "Executed"
                           THEN Len(saved[2][id].calls) ELSE 0

(* Each execution in progress is of another proposal and has performed the *)
(* calls before its next; any other proposal all of its calls or none.     *)
FramesCount ==
  /\ \A i, j \in DOMAIN stack : stack[i].id = stack[j].id => i = j
  /\ \A i \in DOMAIN stack :
       /\ stack[i].next <= Len(proposals[stack[i].id].calls) + 1
       /\ performed[stack[i].id] = stack[i].next - 1
  /\ \A id \in DOMAIN proposals :
       (\A i \in DOMAIN stack : stack[i].id # id) =>
         performed[id] = IF proposals[id].status = "Executed"
                         THEN Len(proposals[id].calls) ELSE 0

(* Snapshots are of blocks that have ended.                                *)
SnapshotsArePast ==
  \A id \in DOMAIN proposals : proposals[id].snapshotBlock \in DOMAIN pastVotes

IInv ==
  /\ TypeOK
  /\ SavedIsConsistent
  /\ FramesCount
  /\ SnapshotsArePast
  /\ TalliesMatchSnapshot
-----------------------------------------------------------------------------
LEMMA IntervalsEnd ==
  ASSUME NEW m \in Nat, NEW n \in Nat, 1 .. m = 1 .. n
  PROVE  m = n
<1>1. CASE m < n
  <2>1. n \in 1 .. n /\ n \notin 1 .. m
    BY <1>1
  <2>2. QED
    BY <2>1
<1>2. CASE n < m
  <2>1. m \in 1 .. m /\ m \notin 1 .. n
    BY <1>2
  <2>2. QED
    BY <2>1
<1>3. QED
  BY <1>1, <1>2

LEMMA SequenceFacts ==
  ASSUME TypeOK
  PROVE  /\ Len(proposals) \in Nat /\ DOMAIN proposals = 1 .. Len(proposals)
         /\ \A id \in DOMAIN proposals : proposals[id] \in Proposal
         /\ DOMAIN performed = DOMAIN proposals /\ Len(performed) = Len(proposals)
         /\ \A id \in DOMAIN proposals : performed[id] \in Nat
         /\ Len(stack) \in Nat /\ DOMAIN stack = 1 .. Len(stack)
         /\ \A i \in DOMAIN stack :
              stack[i] \in [id : DOMAIN proposals, next : Nat \ {0}]
         /\ DOMAIN pastVotes = 1 .. (block - 1)
         /\ \A b \in DOMAIN pastVotes : pastVotes[b] \in [Accounts -> Nat]
<1> USE DEF TypeOK
<1>1. /\ Len(proposals) \in Nat /\ DOMAIN proposals = 1 .. Len(proposals)
      /\ \A id \in DOMAIN proposals : proposals[id] \in Proposal
  BY LenProperties, ElementOfSeq
<1>2. /\ Len(performed) \in Nat /\ DOMAIN performed = 1 .. Len(performed)
      /\ \A id \in DOMAIN performed : performed[id] \in Nat
  BY LenProperties, ElementOfSeq
<1>3. /\ Len(stack) \in Nat /\ DOMAIN stack = 1 .. Len(stack)
      /\ \A i \in DOMAIN stack :
           stack[i] \in [id : DOMAIN proposals, next : Nat \ {0}]
  <2> DEFINE S == [id : DOMAIN proposals, next : Nat \ {0}]
  <2>1. stack \in Seq(S)
    OBVIOUS
  <2> HIDE DEF S
  <2>2. /\ Len(stack) \in Nat /\ DOMAIN stack = 1 .. Len(stack)
        /\ \A i \in DOMAIN stack : stack[i] \in S
    BY <2>1, LenProperties, ElementOfSeq
  <2>3. QED
    BY <2>2 DEF S
<1>4. /\ DOMAIN pastVotes = 1 .. (block - 1)
      /\ \A b \in DOMAIN pastVotes : pastVotes[b] \in [Accounts -> Nat]
  BY LenProperties, ElementOfSeq, GovernorAssumption
<1>5. Len(performed) = Len(proposals)
  BY <1>1, <1>2, IntervalsEnd
<1>6. QED
  BY <1>1, <1>2, <1>3, <1>4, <1>5

(* A change of one status leaves everything else of every proposal.        *)
LEMMA StatusChange ==
  ASSUME TypeOK, NEW id \in DOMAIN proposals, NEW s \in Status,
         proposals' = [proposals EXCEPT ![id].status = s]
  PROVE  /\ proposals' \in Seq(Proposal)
         /\ DOMAIN proposals' = DOMAIN proposals
         /\ proposals'[id] = [proposals[id] EXCEPT !.status = s]
         /\ \A j \in DOMAIN proposals : j # id => proposals'[j] = proposals[j]
<1>1. [proposals[id] EXCEPT !.status = s] \in Proposal
  BY SequenceFacts DEF Proposal
<1>2. proposals' = [proposals EXCEPT ![id] = [proposals[id] EXCEPT !.status = s]]
  OBVIOUS
<1>3. proposals \in Seq(Proposal) /\ id \in 1 .. Len(proposals)
  BY SequenceFacts DEF TypeOK
<1>4. proposals' \in Seq(Proposal)
  BY <1>1, <1>2, <1>3, ExceptSeq
<1>5. QED
  BY <1>2, <1>4

(* Tallies stand as long as nobody votes.                                  *)
LEMMA TalliesKept ==
  ASSUME SnapshotsArePast, TalliesMatchSnapshot,
         UNCHANGED <<pastVotes, hasVoted>>, DOMAIN proposals' = DOMAIN proposals,
         \A id \in DOMAIN proposals :
           /\ proposals'[id].votes = proposals[id].votes
           /\ proposals'[id].snapshotBlock = proposals[id].snapshotBlock
  PROVE  SnapshotsArePast' /\ TalliesMatchSnapshot'
BY DEF SnapshotsArePast, TalliesMatchSnapshot, TotalVotes

LEMMA WiderPairs ==
  ASSUME NEW R, NEW S, NEW T, NEW U, R \subseteq S \X U, S \subseteq T
  PROVE  R \subseteq T \X U
OBVIOUS

(* The types of a state without an execution in progress.                  *)
LEMMA TypeOKIdle ==
  ASSUME stack' = <<>>, saved' = <<>>,
         block' \in Nat \ {0, 1}, time' \in Nat,
         pastVotes' \in Seq(VoteDistributions), Len(pastVotes') = block' - 1,
         params' \in Nat \X Nat \X Nat \X Nat,
         proposals' \in Seq(Proposal),
         hasVoted' \subseteq (DOMAIN proposals') \X Accounts,
         performed' \in Seq(Nat), DOMAIN performed' = DOMAIN proposals'
  PROVE  TypeOK'
<1>1. stack' \in Seq([id : DOMAIN proposals', next : Nat \ {0}])
  BY EmptySeq
<1>2. DOMAIN stack' = {}
  OBVIOUS
<1>3. (Idle <=> saved = <<>>)'
  BY DEF Idle
<1>4. \A i \in DOMAIN stack' : proposals'[stack'[i].id].status = "Executed"
  BY <1>2
<1>5. QED
  BY <1>1, <1>3, <1>4 DEF TypeOK

LEMMA InitIInv == ASSUME Init PROVE IInv
<1> USE DEF Init
<1>1. TypeOK
  <2>1. pastVotes \in Seq(VoteDistributions) /\ Len(pastVotes) = block - 1
    OBVIOUS
  <2>2. params \in Nat \X Nat \X Nat \X Nat
    BY GovernorAssumption DEF params
  <2>3. QED
    BY <2>1, <2>2 DEF TypeOK, Idle
<1>2. QED
  BY <1>1 DEF IInv, SavedIsConsistent, FramesCount, SnapshotsArePast,
              TalliesMatchSnapshot, Idle
-----------------------------------------------------------------------------
(* Steps outside of a transaction. *)

LEMMA NextBlockIInv == ASSUME IInv, NextBlock PROVE IInv'
<1> USE DEF NextBlock
<1>1. PICK votes \in VoteDistributions : pastVotes' = Append(pastVotes, votes)
  OBVIOUS
<1>2. /\ pastVotes' \in Seq(VoteDistributions) /\ Len(pastVotes') = block
      /\ \A b \in DOMAIN pastVotes : b \in DOMAIN pastVotes' /\ pastVotes'[b] = pastVotes[b]
  <2>1. pastVotes \in Seq(VoteDistributions) /\ Len(pastVotes) = block - 1 /\ block \in Nat
    BY DEF IInv, TypeOK
  <2>2. /\ Append(pastVotes, votes) \in Seq(VoteDistributions)
        /\ Len(Append(pastVotes, votes)) = Len(pastVotes) + 1
        /\ \A i \in 1 .. Len(pastVotes) : Append(pastVotes, votes)[i] = pastVotes[i]
    BY <2>1, AppendProperties
  <2>3. DOMAIN pastVotes = 1 .. Len(pastVotes) /\ DOMAIN pastVotes' = 1 .. Len(pastVotes')
    BY <1>1, <2>1, <2>2, LenProperties
  <2>4. QED
    BY <1>1, <2>1, <2>2, <2>3
<1>3. UNCHANGED <<params, proposals, hasVoted, stack, saved, performed>>
  BY DEF txVars
<1>4. block' \in Nat /\ time' \in Nat /\ block' = block + 1
  BY GovernorAssumption DEF IInv, TypeOK
<1>5. TypeOK'
  BY <1>2, <1>3, <1>4 DEF IInv, TypeOK, Idle
<1>6. SavedIsConsistent'
  BY <1>3 DEF IInv, SavedIsConsistent, Idle
<1>7. FramesCount'
  BY <1>3 DEF IInv, FramesCount
<1>8. SnapshotsArePast' /\ TalliesMatchSnapshot'
  BY <1>2, <1>3 DEF IInv, SnapshotsArePast, TalliesMatchSnapshot
<1>9. QED
  BY <1>5, <1>6, <1>7, <1>8 DEF IInv

LEMMA ProposeIInv ==
  ASSUME IInv, NEW a \in Accounts, NEW calls \in CallLists, Propose(a, calls)
  PROVE  IInv'
<1> DEFINE new == [proposer |-> a, snapshotBlock |-> block - 1, endTime |-> EndTime,
                   status |-> "Active", quorum |-> quorumRequired,
                   calls |-> calls, votes |-> [type \in VoteType |-> 0]]
           n == Len(proposals) + 1
<1>0. TypeOK /\ Idle /\ block \in Nat \ {0, 1}
  BY DEF IInv, TypeOK, Propose
<1>1. UNCHANGED <<chainVars, params, hasVoted, stack, saved>>
      /\ proposals' = Append(proposals, new) /\ performed' = Append(performed, 0)
  BY DEF Propose, txVars
<1>2. votingPeriodBlocks \in Nat /\ quorumRequired \in Nat /\ time \in Nat
  BY <1>0 DEF TypeOK, params
<1>3. EndTime \in Nat
  BY <1>2, GovernorAssumption DEF EndTime
<1>4. block - 1 \in DOMAIN pastVotes
  BY <1>0, SequenceFacts DEF TypeOK
<1>5. new \in Proposal /\ new.status = "Active" /\ new.snapshotBlock = block - 1
      /\ new.votes = [type \in VoteType |-> 0]
  BY <1>2, <1>3, <1>0 DEF Proposal, Status
<1> HIDE DEF new
<1>6. /\ proposals' \in Seq(Proposal) /\ n \notin DOMAIN proposals
      /\ DOMAIN proposals' = DOMAIN proposals \cup {n}
      /\ proposals'[n] = new
      /\ \A id \in DOMAIN proposals : proposals'[id] = proposals[id]
  <2>1. proposals \in Seq(Proposal) /\ Len(proposals) \in Nat
        /\ DOMAIN proposals = 1 .. Len(proposals)
    BY <1>0, SequenceFacts DEF TypeOK
  <2>2. /\ proposals' \in Seq(Proposal) /\ Len(proposals') = n
        /\ \A id \in 1 .. Len(proposals) : proposals'[id] = proposals[id]
        /\ proposals'[n] = new
    BY <1>1, <1>5, <2>1, AppendProperties
  <2>3. DOMAIN proposals' = 1 .. n
    BY <2>2, LenProperties
  <2>4. QED
    BY <2>1, <2>2, <2>3
<1>7. /\ performed' \in Seq(Nat) /\ DOMAIN performed' = DOMAIN proposals'
      /\ performed'[n] = 0
      /\ \A id \in DOMAIN proposals : performed'[id] = performed[id]
  <2>1. performed \in Seq(Nat) /\ Len(performed) = Len(proposals)
        /\ DOMAIN proposals = 1 .. Len(proposals) /\ Len(proposals) \in Nat
    BY <1>0, SequenceFacts DEF TypeOK
  <2>2. /\ performed' \in Seq(Nat) /\ Len(performed') = n
        /\ \A id \in 1 .. Len(proposals) : performed'[id] = performed[id]
        /\ performed'[n] = 0
    BY <1>1, <2>1, AppendProperties
  <2>3. DOMAIN performed' = 1 .. n
    BY <2>2, LenProperties
  <2>4. QED
    BY <1>6, <2>1, <2>2, <2>3
<1>8. TypeOK'
  <2>1. stack' = <<>> /\ saved' = <<>>
    BY <1>0, <1>1 DEF Idle, TypeOK
  <2>2. hasVoted' \subseteq (DOMAIN proposals') \X Accounts
    <3>1. hasVoted \subseteq (DOMAIN proposals) \X Accounts /\ hasVoted' = hasVoted
      BY <1>0, <1>1 DEF TypeOK
    <3>2. DOMAIN proposals \subseteq DOMAIN proposals'
      BY <1>6
    <3>3. QED
      BY <3>1, <3>2, WiderPairs
  <2>3. /\ block' \in Nat \ {0, 1} /\ time' \in Nat
        /\ pastVotes' \in Seq(VoteDistributions) /\ Len(pastVotes') = block' - 1
        /\ params' \in Nat \X Nat \X Nat \X Nat
    BY <1>0, <1>1 DEF TypeOK, chainVars
  <2>4. QED
    BY <1>6, <1>7, <2>1, <2>2, <2>3, TypeOKIdle
<1>9. SavedIsConsistent' /\ FramesCount'
  <2>1. Idle' /\ DOMAIN stack' = {}
    BY <1>0, <1>1 DEF Idle
  <2>2. \A id \in DOMAIN proposals :
          performed[id] = IF proposals[id].status = "Executed"
                          THEN Len(proposals[id].calls) ELSE 0
    BY <1>1, <2>1 DEF IInv, FramesCount
  <2>3. QED
    BY <1>5, <1>6, <1>7, <2>1, <2>2 DEF SavedIsConsistent, FramesCount
<1>10. SnapshotsArePast'
  BY <1>1, <1>4, <1>5, <1>6 DEF IInv, SnapshotsArePast, chainVars
<1>11. TalliesMatchSnapshot'
  <2>1. ASSUME NEW id \in DOMAIN proposals
        PROVE  TotalVotes(proposals'[id])
                 = SumFunctionOnSet(pastVotes'[proposals'[id].snapshotBlock],
                                    {v \in Accounts : <<id, v>> \in hasVoted'})
    BY <1>1, <1>6 DEF IInv, TalliesMatchSnapshot, chainVars
  <2>2. {v \in Accounts : <<n, v>> \in hasVoted'} = {}
    BY <1>0, <1>1, <1>6 DEF TypeOK
  <2>3. TotalVotes(proposals'[n]) = 0
    BY <1>5, <1>6 DEF TotalVotes, VoteType
  <2>4. QED
    BY <1>6, <2>1, <2>2, <2>3, SumEmpty DEF TalliesMatchSnapshot
<1>12. QED
  BY <1>8, <1>9, <1>10, <1>11 DEF IInv

LEMMA CastVoteIInv ==
  ASSUME IInv, NEW v \in Accounts, NEW id \in DOMAIN proposals,
         NEW type \in VoteType, CastVote(v, id, type)
  PROVE  IInv'
<1> DEFINE p == proposals[id]
           votes == [p.votes EXCEPT ![type] = @ + Weight(v, id)]
           new == [p EXCEPT !.votes = votes]
           f == pastVotes[p.snapshotBlock]
           Voters(j) == {u \in Accounts : <<j, u>> \in hasVoted}
<1>0. /\ TypeOK /\ Idle /\ SnapshotsArePast /\ TalliesMatchSnapshot
      /\ <<id, v>> \notin hasVoted
      /\ hasVoted' = hasVoted \cup {<<id, v>>}
      /\ proposals' = [proposals EXCEPT ![id].votes[type] = @ + Weight(v, id)]
      /\ UNCHANGED <<chainVars, params, stack, saved, performed>>
  BY DEF IInv, CastVote, txVars
<1>1. p \in Proposal /\ p.votes \in [VoteType -> Nat] /\ p.snapshotBlock \in DOMAIN pastVotes
      /\ f \in [Accounts -> Nat]
  BY <1>0, SequenceFacts DEF Proposal, SnapshotsArePast
<1>2. Weight(v, id) = f[v] /\ f[v] \in Nat
  BY <1>1 DEF Weight, GetPastVotes
<1>3. votes \in [VoteType -> Nat]
  BY <1>1, <1>2
<1>4. new \in Proposal
  BY <1>1, <1>3 DEF Proposal
<1>5. /\ proposals' \in Seq(Proposal) /\ DOMAIN proposals' = DOMAIN proposals
      /\ proposals'[id] = new
      /\ \A j \in DOMAIN proposals : j # id => proposals'[j] = proposals[j]
  <2>1. proposals' = [proposals EXCEPT ![id] = new]
    BY <1>0
  <2>2. proposals \in Seq(Proposal) /\ id \in 1 .. Len(proposals)
    BY <1>0, SequenceFacts DEF TypeOK
  <2> HIDE DEF new
  <2>3. proposals' \in Seq(Proposal)
    BY <1>4, <2>1, <2>2, ExceptSeq
  <2>4. QED
    BY <2>1, <2>3
<1>6. /\ new.status = p.status /\ new.calls = p.calls
      /\ new.snapshotBlock = p.snapshotBlock /\ new.votes = votes
  BY <1>1 DEF Proposal
<1> HIDE DEF new, votes
<1>7. TypeOK'
  <2>1. stack' = <<>> /\ saved' = <<>>
    BY <1>0 DEF Idle, TypeOK
  <2>2. hasVoted' \subseteq (DOMAIN proposals') \X Accounts
    <3>1. hasVoted \subseteq (DOMAIN proposals) \X Accounts
      BY <1>0 DEF TypeOK
    <3>2. <<id, v>> \in (DOMAIN proposals) \X Accounts
      OBVIOUS
    <3>3. QED
      BY <1>0, <1>5, <3>1, <3>2
  <2>3. /\ block' \in Nat \ {0, 1} /\ time' \in Nat
        /\ pastVotes' \in Seq(VoteDistributions) /\ Len(pastVotes') = block' - 1
        /\ params' \in Nat \X Nat \X Nat \X Nat
        /\ performed' \in Seq(Nat) /\ DOMAIN performed' = DOMAIN proposals'
    BY <1>0, <1>5 DEF TypeOK, chainVars
  <2>4. QED
    BY <1>5, <2>1, <2>2, <2>3, TypeOKIdle
<1>8. SavedIsConsistent' /\ FramesCount'
  <2>1. Idle' /\ DOMAIN stack' = {} /\ DOMAIN stack = {}
    BY <1>0 DEF Idle
  <2>2. QED
    BY <1>0, <1>5, <1>6, <2>1 DEF IInv, SavedIsConsistent, FramesCount
<1>9. SnapshotsArePast'
  BY <1>0, <1>5, <1>6 DEF SnapshotsArePast, chainVars
<1>10. TalliesMatchSnapshot'
  <2>1. ASSUME NEW j \in DOMAIN proposals, j # id
        PROVE  TotalVotes(proposals'[j])
                 = SumFunctionOnSet(pastVotes'[proposals'[j].snapshotBlock],
                                    {u \in Accounts : <<j, u>> \in hasVoted'})
    <3>1. {u \in Accounts : <<j, u>> \in hasVoted'} = Voters(j)
      BY <1>0, <2>1
    <3>2. QED
      BY <1>0, <1>5, <2>1, <3>1 DEF TalliesMatchSnapshot, chainVars
  <2>2. {u \in Accounts : <<id, u>> \in hasVoted'} = Voters(id) \cup {v}
    BY <1>0
  <2>3. SumFunctionOnSet(f, Voters(id) \cup {v}) = f[v] + SumFunctionOnSet(f, Voters(id))
    <3> DEFINE S == Voters(id) \cup {v}
    <3>1. S \subseteq Accounts /\ v \in S /\ S \ {v} = Voters(id)
      BY <1>0
    <3>2. IsFiniteSet(S)
      <4>1. IsFiniteSet(Accounts)
        BY GovernorAssumption
      <4> HIDE DEF S
      <4>2. QED
        BY <3>1, <4>1, FS_Subset
    <3>5. \A u \in S : f[u] \in Int
      BY <1>1, <3>1
    <3> HIDE DEF S, f, Voters
    <3>3. SumFunctionOnSet(f, S) = f[v] + SumFunctionOnSet(f, S \ {v})
      BY <3>1, <3>2, <3>5, SumRemove
    <3>4. QED
      BY <3>1, <3>3 DEF S
  <2>4. TotalVotes(new) = TotalVotes(p) + f[v]
    BY <1>1, <1>2, <1>6 DEF TotalVotes, VoteType, votes
  <2>5. TotalVotes(p) = SumFunctionOnSet(f, Voters(id)) /\ TotalVotes(p) \in Nat
    BY <1>0, <1>1 DEF TalliesMatchSnapshot, TotalVotes, VoteType
  <2>6. pastVotes'[proposals'[id].snapshotBlock] = f
    BY <1>0, <1>5, <1>6 DEF chainVars
  <2>7. TotalVotes(proposals'[id])
          = SumFunctionOnSet(pastVotes'[proposals'[id].snapshotBlock],
                             {u \in Accounts : <<id, u>> \in hasVoted'})
    <3> HIDE DEF f, Voters
    <3>1. TotalVotes(p) + f[v] = f[v] + TotalVotes(p)
      BY <1>2, <2>5
    <3>2. TotalVotes(proposals'[id]) = TotalVotes(new)
      BY <1>5
    <3>3. QED
      BY <2>2, <2>3, <2>4, <2>5, <2>6, <3>1, <3>2
  <2>8. QED
    BY <1>5, <2>1, <2>7 DEF TalliesMatchSnapshot
<1>11. QED
  BY <1>7, <1>8, <1>9, <1>10 DEF IInv

LEMMA CancelIInv ==
  ASSUME IInv, NEW a \in Accounts, NEW id \in DOMAIN proposals, Cancel(a, id)
  PROVE  IInv'
<1>1. /\ TypeOK /\ Idle /\ proposals[id].status = "Active"
      /\ proposals' = [proposals EXCEPT ![id].status = "Canceled"]
      /\ UNCHANGED <<chainVars, params, hasVoted, stack, saved, performed>>
  BY DEF IInv, Cancel, txVars
<1>2. /\ proposals' \in Seq(Proposal) /\ DOMAIN proposals' = DOMAIN proposals
      /\ proposals'[id] = [proposals[id] EXCEPT !.status = "Canceled"]
      /\ \A j \in DOMAIN proposals : j # id => proposals'[j] = proposals[j]
  BY <1>1, StatusChange DEF Status
<1>3. /\ proposals'[id].status = "Canceled"
      /\ proposals'[id].votes = proposals[id].votes
      /\ proposals'[id].snapshotBlock = proposals[id].snapshotBlock
  <2>1. proposals[id] \in Proposal
    BY <1>1, SequenceFacts
  <2>2. QED
    BY <1>2, <2>1 DEF Proposal
<1>4. TypeOK'
  <2>1. stack' = <<>> /\ saved' = <<>>
    BY <1>1 DEF Idle, TypeOK
  <2>2. /\ block' \in Nat \ {0, 1} /\ time' \in Nat
        /\ pastVotes' \in Seq(VoteDistributions) /\ Len(pastVotes') = block' - 1
        /\ params' \in Nat \X Nat \X Nat \X Nat
        /\ hasVoted' \subseteq (DOMAIN proposals') \X Accounts
        /\ performed' \in Seq(Nat) /\ DOMAIN performed' = DOMAIN proposals'
    BY <1>1, <1>2 DEF TypeOK, chainVars
  <2>3. QED
    BY <1>2, <2>1, <2>2, TypeOKIdle
<1>5. SavedIsConsistent' /\ FramesCount'
  <2>1. Idle' /\ DOMAIN stack' = {} /\ DOMAIN stack = {}
    BY <1>1 DEF Idle
  <2>2. QED
    BY <1>1, <1>2, <1>3, <2>1 DEF IInv, SavedIsConsistent, FramesCount
<1>6. SnapshotsArePast' /\ TalliesMatchSnapshot'
  BY <1>1, <1>2, <1>3, TalliesKept DEF IInv, chainVars
<1>7. QED
  BY <1>4, <1>5, <1>6 DEF IInv
-----------------------------------------------------------------------------
(* Steps of a transaction. *)

LEMMA ExecuteIInv ==
  ASSUME IInv, NEW id \in DOMAIN proposals, Execute(id)
  PROVE  IInv'
<1> DEFINE frame == [id |-> id, next |-> 1]
<1>1. /\ TypeOK /\ Idle /\ FramesCount /\ proposals[id].status = "Active"
      /\ proposals' = [proposals EXCEPT ![id].status = "Executed"]
      /\ stack' = <<frame>>
      /\ saved' = <<params, proposals, performed>>
      /\ UNCHANGED <<chainVars, params, hasVoted, performed>>
  BY DEF IInv, Execute, CanExecute, MarkExecuted, Revertible
<1>2. /\ proposals' \in Seq(Proposal) /\ DOMAIN proposals' = DOMAIN proposals
      /\ proposals'[id] = [proposals[id] EXCEPT !.status = "Executed"]
      /\ \A j \in DOMAIN proposals : j # id => proposals'[j] = proposals[j]
  BY <1>1, StatusChange DEF Status
<1>3. \A j \in DOMAIN proposals :
        /\ proposals[j] \in Proposal
        /\ proposals[j] = [proposals'[j] EXCEPT !.status = proposals[j].status]
        /\ proposals'[j].votes = proposals[j].votes
        /\ proposals'[j].calls = proposals[j].calls
        /\ proposals'[j].snapshotBlock = proposals[j].snapshotBlock
        /\ proposals'[j].status = IF j = id THEN "Executed" ELSE proposals[j].status
  <2>1. \A j \in DOMAIN proposals : proposals[j] \in Proposal
    BY <1>1, SequenceFacts
  <2>2. QED
    BY <1>2, <2>1 DEF Proposal
<1>4. ~Idle' /\ DOMAIN stack' = {1} /\ stack'[1] = frame /\ saved' # <<>>
  BY <1>1 DEF Idle
<1>5. \A j \in DOMAIN proposals :
        performed[j] = IF proposals[j].status = "Executed"
                       THEN Len(proposals[j].calls) ELSE 0
  BY <1>1 DEF FramesCount, Idle
<1>6. TypeOK'
  <2>1. /\ block' \in Nat \ {0, 1} /\ time' \in Nat
        /\ pastVotes' \in Seq(VoteDistributions) /\ Len(pastVotes') = block' - 1
        /\ params' \in Nat \X Nat \X Nat \X Nat
        /\ hasVoted' \subseteq (DOMAIN proposals') \X Accounts
        /\ performed' \in Seq(Nat) /\ DOMAIN performed' = DOMAIN proposals'
    BY <1>1, <1>2 DEF TypeOK, chainVars
  <2>2. stack' \in Seq([id : DOMAIN proposals', next : Nat \ {0}])
    BY <1>1, <1>2
  <2>3. \A i \in DOMAIN stack' : proposals'[stack'[i].id].status = "Executed"
    BY <1>3, <1>4
  <2>4. (Idle <=> saved = <<>>)'
    BY <1>4
  <2>5. QED
    BY <1>2, <2>1, <2>2, <2>3, <2>4 DEF TypeOK
<1>7. SavedIsConsistent'
  <2>1. saved' \in (Nat \X Nat \X Nat \X Nat) \X Seq(Proposal) \X Seq(Nat)
    BY <1>1 DEF TypeOK
  <2>2. saved'[2] = proposals /\ saved'[3] = performed
    BY <1>1
  <2>3. DOMAIN performed = DOMAIN proposals
    BY <1>1, SequenceFacts
  <2>4. QED
    BY <1>2, <1>3, <1>5, <2>1, <2>2, <2>3 DEF SavedIsConsistent
<1>8. FramesCount'
  <2>1. Len(proposals[id].calls) \in Nat /\ performed[id] = 0
    <3>1. proposals[id].calls \in Seq(Call)
      BY <1>3, CallAssumption DEF Proposal
    <3>2. Len(proposals[id].calls) \in Nat
      BY <3>1, LenProperties
    <3>3. QED
      BY <1>1, <1>5, <3>2
  <2>2. performed' = performed
    BY <1>1
  <2>3. QED
    BY <1>2, <1>3, <1>4, <1>5, <2>1, <2>2 DEF FramesCount
<1>9. SnapshotsArePast' /\ TalliesMatchSnapshot'
  BY <1>1, <1>2, <1>3, TalliesKept DEF IInv, chainVars
<1>10. QED
  BY <1>6, <1>7, <1>8, <1>9 DEF IInv

(* A call of the innermost execution moves that execution and its count.   *)
LEMMA AdvanceFacts ==
  ASSUME IInv, MoreCalls, Performed
  PROVE  /\ Len(stack) \in DOMAIN stack /\ Frame.id \in DOMAIN proposals
         /\ Frame.next \in Nat \ {0} /\ Frame.next <= Len(proposals[Frame.id].calls)
         /\ Advance \in Seq([id : DOMAIN proposals, next : Nat \ {0}])
         /\ Len(Advance) = Len(stack)
         /\ \A i \in DOMAIN stack : /\ Advance[i].id = stack[i].id
                                    /\ Advance[i].next =
                                         IF i = Len(stack) THEN Frame.next + 1
                                         ELSE stack[i].next
         /\ performed' \in Seq(Nat) /\ DOMAIN performed' = DOMAIN performed
         /\ performed[Frame.id] = Frame.next - 1
         /\ \A j \in DOMAIN performed :
              performed'[j] = IF j = Frame.id THEN Frame.next ELSE performed[j]
<1> DEFINE F == [id : DOMAIN proposals, next : Nat \ {0}]
           n == Len(stack)
           moved == [Frame EXCEPT !.next = @ + 1]
<1>1. TypeOK /\ FramesCount /\ ~Idle
  BY DEF IInv, MoreCalls
<1>2. n \in Nat /\ DOMAIN stack = 1 .. n /\ stack \in Seq(F)
      /\ \A i \in DOMAIN stack : stack[i] \in F
  BY <1>1, SequenceFacts DEF TypeOK
<1>3. n \in 1 .. n
  <2>1. n # 0
    <3> HIDE DEF F
    <3>1. QED
      BY <1>1, <1>2, EmptySeq DEF Idle
  <2>2. QED
    BY <1>2, <2>1
<1>4. Frame \in F /\ Frame = stack[n]
  BY <1>2, <1>3 DEF Frame
<1>5. moved \in F /\ moved.id = Frame.id /\ moved.next = Frame.next + 1
  BY <1>4
<1>6. Advance = [stack EXCEPT ![n] = moved]
  BY <1>4 DEF Advance
<1>7. Advance \in Seq(F) /\ Len(Advance) = n /\ DOMAIN Advance = 1 .. n
      /\ \A i \in 1 .. n : Advance[i] = IF i = n THEN moved ELSE stack[i]
  <2> HIDE DEF F, moved
  <2>1. Advance \in Seq(F) /\ Len(Advance) = n
    BY <1>2, <1>3, <1>5, <1>6, ExceptSeq
  <2>2. QED
    BY <1>2, <1>3, <1>6, <2>1, LenProperties
<1>8. performed[Frame.id] = Frame.next - 1
  BY <1>1, <1>2, <1>3, <1>4 DEF FramesCount
<1>9. performed' \in Seq(Nat) /\ DOMAIN performed' = DOMAIN performed
      /\ \A j \in DOMAIN performed :
           performed'[j] = IF j = Frame.id THEN Frame.next ELSE performed[j]
  <2>1. performed \in Seq(Nat) /\ Frame.id \in DOMAIN performed
        /\ DOMAIN performed = 1 .. Len(performed)
    BY <1>1, <1>4, SequenceFacts, LenProperties DEF TypeOK
  <2>2. performed' = [performed EXCEPT ![Frame.id] = Frame.next]
        /\ Frame.next \in Nat
    <3>1. Frame.next \in Nat
      BY <1>4
    <3>2. performed[Frame.id] + 1 = Frame.next
      BY <1>8, <3>1
    <3>3. QED
      BY <3>1, <3>2 DEF Performed
  <2>3. performed' \in Seq(Nat)
    BY <2>1, <2>2, ExceptSeq
  <2>4. QED
    BY <2>1, <2>2, <2>3
<1>10. Frame.next <= Len(proposals[Frame.id].calls)
  BY DEF MoreCalls
<1>11. QED
  BY <1>2, <1>3, <1>4, <1>5, <1>7, <1>8, <1>9, <1>10

(* A call that leaves the stack as high as it is, and of the proposals at  *)
(* most a status, without making or unmaking one Executed.                 *)
LEMMA PlainCallIInv ==
  ASSUME IInv, MoreCalls, Performed, stack' = Advance,
         UNCHANGED <<chainVars, hasVoted, saved>>,
         params' \in Nat \X Nat \X Nat \X Nat,
         proposals' \in Seq(Proposal), DOMAIN proposals' = DOMAIN proposals,
         \A j \in DOMAIN proposals :
           /\ proposals'[j] = [proposals[j] EXCEPT !.status = proposals'[j].status]
           /\ proposals'[j].status = "Executed" <=> proposals[j].status = "Executed"
  PROVE  IInv'
<1> DEFINE F == [id : DOMAIN proposals, next : Nat \ {0}]
<1>1. TypeOK /\ SavedIsConsistent /\ FramesCount /\ ~Idle
  BY DEF IInv, MoreCalls
<1>2. \A j \in DOMAIN proposals :
        /\ proposals[j] \in Proposal
        /\ proposals'[j].votes = proposals[j].votes
        /\ proposals'[j].calls = proposals[j].calls
        /\ proposals'[j].snapshotBlock = proposals[j].snapshotBlock
        /\ \A s : [proposals'[j] EXCEPT !.status = s] = [proposals[j] EXCEPT !.status = s]
  <2>1. \A j \in DOMAIN proposals : proposals[j] \in Proposal
    BY <1>1, SequenceFacts
  <2>2. QED
    BY <2>1 DEF Proposal
<1>3. /\ Len(stack) \in DOMAIN stack /\ Frame = stack[Len(stack)]
      /\ DOMAIN stack' = DOMAIN stack /\ Len(stack') = Len(stack)
      /\ stack' \in Seq(F)
      /\ \A i \in DOMAIN stack :
           /\ stack'[i].id = stack[i].id
           /\ stack'[i].next = IF i = Len(stack) THEN Frame.next + 1 ELSE stack[i].next
  <2>1. DOMAIN stack = 1 .. Len(stack)
    BY <1>1, SequenceFacts
  <2>2. Advance \in Seq(F) /\ Len(Advance) = Len(stack)
    BY AdvanceFacts
  <2> HIDE DEF F
  <2>3. DOMAIN stack' = DOMAIN stack
    BY <2>1, <2>2, LenProperties
  <2>4. QED
    BY <2>2, <2>3, AdvanceFacts DEF Frame
<1>4. ~Idle'
  BY <1>3 DEF Idle
<1>5. TypeOK'
  <2>1. /\ block' \in Nat \ {0, 1} /\ time' \in Nat
        /\ pastVotes' \in Seq(VoteDistributions) /\ Len(pastVotes') = block' - 1
        /\ hasVoted' \subseteq (DOMAIN proposals') \X Accounts
    BY <1>1 DEF TypeOK, chainVars
  <2>2. performed' \in Seq(Nat) /\ DOMAIN performed' = DOMAIN proposals'
    BY <1>1, AdvanceFacts, SequenceFacts
  <2>3. stack' \in Seq([id : DOMAIN proposals', next : Nat \ {0}])
    BY <1>3
  <2>4. \A i \in DOMAIN stack' : proposals'[stack'[i].id].status = "Executed"
    BY <1>1, <1>3, SequenceFacts DEF TypeOK
  <2>5. (Idle <=> saved = <<>>)'
    BY <1>1, <1>4 DEF TypeOK
  <2>6. QED
    BY <2>1, <2>2, <2>3, <2>4, <2>5 DEF TypeOK
<1>6. SavedIsConsistent'
  BY <1>1, <1>2 DEF SavedIsConsistent
<1>7. FramesCount'
  <2>1. \A i \in DOMAIN stack : stack[i].id \in DOMAIN proposals
    BY <1>1, SequenceFacts
  <2>2. \A i, j \in DOMAIN stack' : stack'[i].id = stack'[j].id => i = j
    BY <1>1, <1>3 DEF FramesCount
  <2>3. ASSUME NEW i \in DOMAIN stack'
        PROVE  /\ stack'[i].next <= Len(proposals'[stack'[i].id].calls) + 1
               /\ performed'[stack'[i].id] = stack'[i].next - 1
    <3>1. CASE i = Len(stack)
      <4>1. stack'[i].next = Frame.next + 1 /\ stack'[i].id = Frame.id
            /\ performed'[Frame.id] = Frame.next
            /\ Frame.next \in Nat /\ Frame.next <= Len(proposals[Frame.id].calls)
        BY <1>3, <3>1, AdvanceFacts, SequenceFacts, <1>1
      <4>2. Len(proposals[Frame.id].calls) \in Nat
        <5>1. proposals[Frame.id].calls \in Seq(Call)
          BY <1>2, AdvanceFacts, CallAssumption DEF Proposal
        <5>2. QED
          BY <5>1, LenProperties
      <4>3. proposals'[Frame.id].calls = proposals[Frame.id].calls
        BY <1>2, AdvanceFacts
      <4>4. QED
        BY <4>1, <4>2, <4>3
    <3>2. CASE i # Len(stack)
      <4>1. stack'[i].next = stack[i].next /\ stack'[i].id = stack[i].id
            /\ stack[i].id # Frame.id
        BY <1>1, <1>3, <3>2 DEF FramesCount
      <4>2. performed'[stack[i].id] = performed[stack[i].id]
        BY <1>1, <1>3, <2>1, <4>1, AdvanceFacts, SequenceFacts
      <4>3. i \in DOMAIN stack /\ stack[i].id \in DOMAIN proposals
        BY <1>3, <2>1
      <4>4. /\ stack[i].next <= Len(proposals[stack[i].id].calls) + 1
            /\ performed[stack[i].id] = stack[i].next - 1
        BY <1>1, <4>3 DEF FramesCount
      <4>5. proposals'[stack[i].id].calls = proposals[stack[i].id].calls
        BY <1>2, <4>3
      <4>6. QED
        BY ONLY <4>1, <4>2, <4>4, <4>5
    <3>3. QED
      BY <3>1, <3>2
  <2>4. ASSUME NEW id \in DOMAIN proposals',
               \A i \in DOMAIN stack' : stack'[i].id # id
        PROVE  performed'[id] = IF proposals'[id].status = "Executed"
                                THEN Len(proposals'[id].calls) ELSE 0
    <3>1. (\A i \in DOMAIN stack : stack[i].id # id) /\ id # Frame.id
      BY <1>3, <2>4
    <3>2. performed'[id] = performed[id]
      BY <1>1, <3>1, AdvanceFacts, SequenceFacts
    <3>3. QED
      BY <1>1, <1>2, <3>1, <3>2 DEF FramesCount
  <2>5. QED
    BY <2>2, <2>3, <2>4 DEF FramesCount
<1>8. SnapshotsArePast' /\ TalliesMatchSnapshot'
  BY <1>2, TalliesKept DEF IInv, chainVars
<1>9. QED
  BY <1>5, <1>6, <1>7, <1>8 DEF IInv

LEMMA RunSetterIInv == ASSUME IInv, RunSetter PROVE IInv'
<1>1. MoreCalls /\ Performed /\ stack' = Advance
      /\ UNCHANGED <<chainVars, hasVoted, saved, proposals>>
  BY DEF RunSetter
<1>2. TypeOK /\ Frame.id \in DOMAIN proposals /\ Frame.next \in Nat \ {0}
      /\ Frame.next <= Len(proposals[Frame.id].calls)
  BY <1>1, AdvanceFacts DEF IInv
<1>3. NextCall.arg \in Nat
  <2> DEFINE calls == proposals[Frame.id].calls
  <2>1. calls \in Seq(Call)
    BY <1>2, SequenceFacts, CallAssumption DEF Proposal
  <2>2. Frame.next \in 1 .. Len(calls)
    BY <1>2, <2>1, LenProperties
  <2>3. calls[Frame.next] \in Call
    BY <2>1, <2>2, ElementOfSeq
  <2>4. QED
    BY <2>3 DEF NextCall, Call
<1>4. params \in Nat \X Nat \X Nat \X Nat
  BY <1>2 DEF TypeOK
<1>5. params' \in Nat \X Nat \X Nat \X Nat
  BY <1>3, <1>4 DEF RunSetter, params
<1>6. \A j \in DOMAIN proposals :
        proposals'[j] = [proposals[j] EXCEPT !.status = proposals'[j].status]
  BY <1>1, <1>2, SequenceFacts DEF Proposal
<1>7. proposals' \in Seq(Proposal)
  BY <1>1, <1>2 DEF TypeOK
<1>8. QED
  BY <1>1, <1>5, <1>6, <1>7, PlainCallIInv

LEMMA RunOtherContractIInv == ASSUME IInv, RunOtherContract PROVE IInv'
<1>1. MoreCalls /\ Performed /\ stack' = Advance
      /\ UNCHANGED <<chainVars, hasVoted, saved, proposals, params>>
  BY DEF RunOtherContract
<1>2. TypeOK
  BY DEF IInv
<1>3. params' \in Nat \X Nat \X Nat \X Nat /\ proposals' \in Seq(Proposal)
  BY <1>1, <1>2 DEF TypeOK
<1>4. \A j \in DOMAIN proposals :
        proposals'[j] = [proposals[j] EXCEPT !.status = proposals'[j].status]
  BY <1>1, <1>2, SequenceFacts DEF Proposal
<1>5. QED
  BY <1>1, <1>3, <1>4, PlainCallIInv

LEMMA RunCancelIInv == ASSUME IInv, RunCancel PROVE IInv'
<1> DEFINE id == NextCall.arg
<1>1. /\ MoreCalls /\ Performed /\ stack' = Advance
      /\ UNCHANGED <<chainVars, params, hasVoted, saved>>
      /\ id \in DOMAIN proposals /\ proposals[id].status = "Active"
      /\ proposals' = [proposals EXCEPT ![id].status = "Canceled"]
  BY DEF RunCancel, AnyoneMayCancel
<1>2. TypeOK
  BY DEF IInv
<1>3. params' \in Nat \X Nat \X Nat \X Nat
  BY <1>1, <1>2 DEF TypeOK
<1> HIDE DEF id
<1>4. /\ proposals' \in Seq(Proposal) /\ DOMAIN proposals' = DOMAIN proposals
      /\ proposals'[id] = [proposals[id] EXCEPT !.status = "Canceled"]
      /\ \A j \in DOMAIN proposals : j # id => proposals'[j] = proposals[j]
  BY <1>1, <1>2, StatusChange DEF Status
<1>5. \A j \in DOMAIN proposals :
        /\ proposals'[j] = [proposals[j] EXCEPT !.status = proposals'[j].status]
        /\ proposals'[j].status = "Executed" <=> proposals[j].status = "Executed"
  <2>1. \A j \in DOMAIN proposals : proposals[j] \in Proposal
    BY <1>2, SequenceFacts
  <2>2. proposals'[id] = [proposals[id] EXCEPT !.status = proposals'[id].status]
        /\ proposals'[id].status = "Canceled"
    BY <1>1, <1>4, <2>1 DEF Proposal
  <2>3. \A j \in DOMAIN proposals :
          j # id => /\ proposals'[j] = proposals[j]
                    /\ proposals'[j] = [proposals[j] EXCEPT !.status = proposals'[j].status]
    BY <1>4, <2>1 DEF Proposal
  <2>4. QED
    BY <1>1, <2>2, <2>3
<1>6. QED
  BY <1>1, <1>3, <1>4, <1>5, PlainCallIInv

LEMMA RevertIInv == ASSUME IInv, Revert PROVE IInv'
<1>1. /\ TypeOK /\ SavedIsConsistent /\ ~Idle
      /\ params' = saved[1] /\ proposals' = saved[2] /\ performed' = saved[3]
      /\ stack' = <<>> /\ saved' = <<>>
      /\ UNCHANGED <<chainVars, hasVoted>>
  <2>1. saved[1] \in Nat \X Nat \X Nat \X Nat
    BY DEF IInv, SavedIsConsistent, Revert, MoreCalls
  <2>2. QED
    BY <2>1 DEF IInv, Revert, MoreCalls, RestoreSaved, params
<1>2. /\ params' \in Nat \X Nat \X Nat \X Nat
      /\ proposals' \in Seq(Proposal) /\ DOMAIN proposals' = DOMAIN proposals
      /\ performed' \in Seq(Nat) /\ DOMAIN performed' = DOMAIN proposals'
      /\ \A id \in DOMAIN proposals :
           /\ proposals'[id] = [proposals[id] EXCEPT !.status = proposals'[id].status]
           /\ performed'[id] = IF proposals'[id].status = "Executed"
                               THEN Len(proposals'[id].calls) ELSE 0
  BY <1>1 DEF SavedIsConsistent
<1>3. \A id \in DOMAIN proposals :
        /\ proposals'[id].votes = proposals[id].votes
        /\ proposals'[id].snapshotBlock = proposals[id].snapshotBlock
  BY <1>1, <1>2, SequenceFacts DEF Proposal
<1>4. TypeOK'
  <2>1. /\ block' \in Nat \ {0, 1} /\ time' \in Nat
        /\ pastVotes' \in Seq(VoteDistributions) /\ Len(pastVotes') = block' - 1
        /\ hasVoted' \subseteq (DOMAIN proposals') \X Accounts
    BY <1>1, <1>2 DEF TypeOK, chainVars
  <2>2. QED
    BY <1>1, <1>2, <2>1, TypeOKIdle
<1>5. SavedIsConsistent' /\ FramesCount'
  <2>1. Idle' /\ DOMAIN stack' = {}
    BY <1>1 DEF Idle
  <2>2. QED
    BY <1>2, <2>1 DEF SavedIsConsistent, FramesCount
<1>6. SnapshotsArePast' /\ TalliesMatchSnapshot'
  BY <1>1, <1>2, <1>3, TalliesKept DEF IInv, chainVars
<1>7. QED
  BY <1>4, <1>5, <1>6 DEF IInv

LEMMA RunExecuteIInv == ASSUME IInv, RunExecute PROVE IInv'
<1> DEFINE F == [id : DOMAIN proposals, next : Nat \ {0}]
           id == NextCall.arg
           inner == [id |-> id, next |-> 1]
           n == Len(stack)
<1>1. /\ MoreCalls /\ Performed /\ stack' = Append(Advance, inner)
      /\ UNCHANGED <<chainVars, params, hasVoted, saved>>
      /\ id \in DOMAIN proposals /\ proposals[id].status = "Active"
      /\ proposals' = [proposals EXCEPT ![id].status = "Executed"]
  BY DEF RunExecute, CanExecute, MarkExecuted
<1>2. TypeOK /\ SavedIsConsistent /\ FramesCount /\ ~Idle
  BY <1>1 DEF IInv, MoreCalls
<1>3. inner \in F /\ inner.id = id /\ inner.next = 1
  BY <1>1
<1> HIDE DEF id, inner
<1>4. /\ proposals' \in Seq(Proposal) /\ DOMAIN proposals' = DOMAIN proposals
      /\ proposals'[id] = [proposals[id] EXCEPT !.status = "Executed"]
      /\ \A j \in DOMAIN proposals : j # id => proposals'[j] = proposals[j]
  BY <1>1, <1>2, StatusChange DEF Status
<1>5. \A j \in DOMAIN proposals : proposals[j] \in Proposal
  BY <1>2, SequenceFacts
<1>6. /\ proposals'[id].votes = proposals[id].votes
      /\ proposals'[id].calls = proposals[id].calls
      /\ proposals'[id].snapshotBlock = proposals[id].snapshotBlock
      /\ proposals'[id].status = "Executed"
      /\ \A s : [proposals'[id] EXCEPT !.status = s] = [proposals[id] EXCEPT !.status = s]
  BY <1>1, <1>4, <1>5 DEF Proposal
<1>7. \A j \in DOMAIN proposals :
        /\ proposals'[j].votes = proposals[j].votes
        /\ proposals'[j].calls = proposals[j].calls
        /\ proposals'[j].snapshotBlock = proposals[j].snapshotBlock
        /\ \A s : [proposals'[j] EXCEPT !.status = s] = [proposals[j] EXCEPT !.status = s]
        /\ j # id => proposals'[j].status = proposals[j].status
  BY <1>4, <1>6
<1>8. /\ n \in Nat /\ n \in DOMAIN stack /\ DOMAIN stack = 1 .. n
      /\ Frame = stack[n] /\ Frame.id \in DOMAIN proposals
      /\ Frame.next \in Nat \ {0} /\ Frame.next <= Len(proposals[Frame.id].calls)
  BY <1>1, <1>2, AdvanceFacts, SequenceFacts DEF Frame
<1>9. /\ stack' \in Seq(F) /\ DOMAIN stack' = DOMAIN stack \cup {n + 1}
      /\ n + 1 \notin DOMAIN stack /\ stack'[n + 1] = inner
      /\ \A i \in DOMAIN stack :
           /\ stack'[i].id = stack[i].id
           /\ stack'[i].next = IF i = n THEN Frame.next + 1 ELSE stack[i].next
  <2>1. Advance \in Seq(F) /\ Len(Advance) = n
        /\ \A i \in DOMAIN stack :
             /\ Advance[i].id = stack[i].id
             /\ Advance[i].next = IF i = n THEN Frame.next + 1 ELSE stack[i].next
    BY <1>1, AdvanceFacts
  <2> HIDE DEF F
  <2>2. /\ stack' \in Seq(F) /\ Len(stack') = n + 1
        /\ \A i \in 1 .. n : stack'[i] = Advance[i]
        /\ stack'[n + 1] = inner
    BY <1>1, <1>3, <2>1, AppendProperties
  <2>3. DOMAIN stack' = 1 .. n + 1
    BY <2>2, LenProperties
  <2>4. QED
    BY <1>8, <2>1, <2>2, <2>3
<1>10. \A i \in DOMAIN stack : stack[i].id \in DOMAIN proposals /\ stack[i].id # id
  BY <1>1, <1>2, SequenceFacts DEF TypeOK
<1>11. ~Idle'
  BY <1>9 DEF Idle
<1>12. TypeOK'
  <2>1. /\ block' \in Nat \ {0, 1} /\ time' \in Nat
        /\ pastVotes' \in Seq(VoteDistributions) /\ Len(pastVotes') = block' - 1
        /\ hasVoted' \subseteq (DOMAIN proposals') \X Accounts
        /\ params' \in Nat \X Nat \X Nat \X Nat
    BY <1>1, <1>2, <1>4 DEF TypeOK, chainVars
  <2>2. performed' \in Seq(Nat) /\ DOMAIN performed' = DOMAIN proposals'
    BY <1>1, <1>2, <1>4, AdvanceFacts, SequenceFacts
  <2>3. stack' \in Seq([id : DOMAIN proposals', next : Nat \ {0}])
    BY <1>4, <1>9
  <2>4. \A i \in DOMAIN stack' : proposals'[stack'[i].id].status = "Executed"
    <3>1. \A i \in DOMAIN stack : proposals[stack[i].id].status = "Executed"
      BY <1>2 DEF TypeOK
    <3>2. \A i \in DOMAIN stack : proposals'[stack'[i].id].status = "Executed"
      BY <1>7, <1>9, <1>10, <3>1
    <3>3. QED
      BY <1>3, <1>6, <1>9, <3>2
  <2>5. (Idle <=> saved = <<>>)'
    BY <1>1, <1>2, <1>11 DEF TypeOK
  <2>6. QED
    BY <1>4, <2>1, <2>2, <2>3, <2>4, <2>5 DEF TypeOK
<1>13. SavedIsConsistent'
  BY <1>1, <1>2, <1>4, <1>7 DEF SavedIsConsistent
<1>14. \A j \in DOMAIN proposals : Len(proposals[j].calls) \in Nat
  <2>1. \A j \in DOMAIN proposals : proposals[j].calls \in Seq(Call)
    BY <1>5, CallAssumption DEF Proposal
  <2>2. QED
    BY <2>1, LenProperties
<1>15. \A j \in DOMAIN proposals :
         performed'[j] = IF j = Frame.id THEN Frame.next ELSE performed[j]
  BY <1>1, <1>2, AdvanceFacts, SequenceFacts
<1>16. FramesCount'
  <2>1. \A i, j \in DOMAIN stack' : stack'[i].id = stack'[j].id => i = j
    BY <1>2, <1>3, <1>9, <1>10 DEF FramesCount
  <2>2. ASSUME NEW i \in DOMAIN stack'
        PROVE  /\ stack'[i].next <= Len(proposals'[stack'[i].id].calls) + 1
               /\ performed'[stack'[i].id] = stack'[i].next - 1
    <3>1. CASE i = n + 1
      <4>1. performed[id] = 0 /\ id # Frame.id
        BY <1>1, <1>2, <1>8, <1>10 DEF FramesCount
      <4>2. stack'[i].next = 1 /\ stack'[i].id = id /\ performed'[id] = 0
        BY <1>1, <1>3, <1>9, <1>15, <3>1, <4>1
      <4>3. proposals'[id].calls = proposals[id].calls
            /\ Len(proposals[id].calls) \in Nat
        BY <1>1, <1>6, <1>14
      <4>4. 1 <= Len(proposals[id].calls) + 1 /\ 0 = 1 - 1
        BY <4>3
      <4>5. QED
        BY ONLY <4>2, <4>3, <4>4
    <3>2. CASE i = n
      <4>1. stack'[i].next = Frame.next + 1 /\ stack'[i].id = Frame.id
        BY <1>8, <1>9, <3>2
      <4>2. performed'[Frame.id] = Frame.next
            /\ proposals'[Frame.id].calls = proposals[Frame.id].calls
        BY <1>7, <1>8, <1>15
      <4>3. QED
        BY <1>8, <1>14, <4>1, <4>2
    <3>3. CASE i \in DOMAIN stack /\ i # n
      <4>1. stack'[i].next = stack[i].next /\ stack'[i].id = stack[i].id
            /\ stack[i].id # Frame.id
        BY <1>2, <1>8, <1>9, <3>3 DEF FramesCount
      <4>2. performed'[stack[i].id] = performed[stack[i].id]
            /\ proposals'[stack[i].id].calls = proposals[stack[i].id].calls
        BY <1>7, <1>10, <1>15, <3>3, <4>1
      <4>3. /\ stack[i].next <= Len(proposals[stack[i].id].calls) + 1
            /\ performed[stack[i].id] = stack[i].next - 1
        BY <1>2, <3>3 DEF FramesCount
      <4>4. QED
        BY ONLY <4>1, <4>2, <4>3
    <3>4. QED
      BY <1>9, <3>1, <3>2, <3>3
  <2>3. ASSUME NEW j \in DOMAIN proposals',
               \A i \in DOMAIN stack' : stack'[i].id # j
        PROVE  performed'[j] = IF proposals'[j].status = "Executed"
                                THEN Len(proposals'[j].calls) ELSE 0
    <3>1. (\A i \in DOMAIN stack : stack[i].id # j) /\ j # Frame.id /\ j # id
      BY <1>3, <1>8, <1>9, <2>3
    <3>2. performed'[j] = performed[j] /\ proposals'[j] = proposals[j]
      BY <1>4, <1>15, <3>1
    <3>3. QED
      BY <1>2, <1>4, <3>1, <3>2 DEF FramesCount
  <2>4. QED
    BY <2>1, <2>2, <2>3 DEF FramesCount
<1>17. SnapshotsArePast' /\ TalliesMatchSnapshot'
  BY <1>1, <1>4, <1>7, TalliesKept DEF IInv, chainVars
<1>18. QED
  BY <1>12, <1>13, <1>16, <1>17 DEF IInv

LEMMA ReturnIInv == ASSUME IInv, Return PROVE IInv'
<1> DEFINE F == [id : DOMAIN proposals, next : Nat \ {0}]
           n == Len(stack)
<1>1. /\ ~Idle /\ ~MoreCalls
      /\ stack' = SubSeq(stack, 1, n - 1)
      /\ saved' = IF n = 1 THEN <<>> ELSE saved
      /\ UNCHANGED <<chainVars, params, proposals, hasVoted, performed>>
  BY DEF Return
<1>2. TypeOK /\ SavedIsConsistent /\ FramesCount
  BY DEF IInv
<1>3. n \in Nat /\ DOMAIN stack = 1 .. n /\ stack \in Seq(F)
      /\ \A i \in DOMAIN stack : stack[i] \in F
  BY <1>2, SequenceFacts DEF TypeOK
<1>4. n # 0
  <2> HIDE DEF F
  <2>1. QED
    BY <1>1, <1>3, EmptySeq DEF Idle
<1>5. /\ stack' \in Seq(F) /\ DOMAIN stack' = 1 .. n - 1
      /\ \A i \in 1 .. n - 1 : stack'[i] = stack[i]
  <2> HIDE DEF F
  <2>1. /\ stack' \in Seq(F) /\ Len(stack') = n - 1
        /\ \A i \in 1 .. n - 1 : stack'[i] = stack[i]
    BY <1>1, <1>3, <1>4, SubSeqProperties
  <2>2. QED
    BY <2>1, LenProperties
<1>6. Idle' <=> n = 1
  <2>1. n = 1 => stack' = <<>>
    <3> HIDE DEF F
    <3>1. QED
      BY <1>5, EmptySeq, LenProperties
  <2>2. n # 1 => stack' # <<>>
    BY <1>3, <1>4, <1>5
  <2>3. QED
    BY <2>1, <2>2 DEF Idle
<1>7. TypeOK'
  <2>1. /\ block' \in Nat \ {0, 1} /\ time' \in Nat
        /\ pastVotes' \in Seq(VoteDistributions) /\ Len(pastVotes') = block' - 1
        /\ hasVoted' \subseteq (DOMAIN proposals') \X Accounts
        /\ params' \in Nat \X Nat \X Nat \X Nat
        /\ proposals' \in Seq(Proposal)
        /\ performed' \in Seq(Nat) /\ DOMAIN performed' = DOMAIN proposals'
    BY <1>1, <1>2 DEF TypeOK, chainVars
  <2>2. stack' \in Seq([id : DOMAIN proposals', next : Nat \ {0}])
    BY <1>1, <1>5
  <2>3. \A i \in DOMAIN stack' : proposals'[stack'[i].id].status = "Executed"
    <3>1. \A i \in DOMAIN stack : proposals[stack[i].id].status = "Executed"
      BY <1>2 DEF TypeOK
    <3>2. \A i \in DOMAIN stack' : i \in DOMAIN stack /\ stack'[i] = stack[i]
      BY <1>3, <1>5
    <3>3. QED
      BY <1>1, <3>1, <3>2
  <2>4. (Idle <=> saved = <<>>)'
    BY <1>1, <1>2, <1>6 DEF TypeOK
  <2>5. QED
    BY <2>1, <2>2, <2>3, <2>4 DEF TypeOK
<1>8. SavedIsConsistent'
  BY <1>1, <1>2, <1>6 DEF SavedIsConsistent
<1>9. FramesCount'
  <2>1. performed[stack[n].id] = Len(proposals[stack[n].id].calls)
    <3> DEFINE id == stack[n].id
               next == stack[n].next
    <3>1. n \in DOMAIN stack /\ id \in DOMAIN proposals /\ next \in Nat
      BY <1>3, <1>4
    <3>2. next <= Len(proposals[id].calls) + 1 /\ performed[id] = next - 1
      BY <1>2, <3>1 DEF FramesCount
    <3>3. ~(next <= Len(proposals[id].calls))
      BY <1>1 DEF MoreCalls, Frame
    <3>4. Len(proposals[id].calls) \in Nat
      <4>1. proposals[id].calls \in Seq(Call)
        BY <1>2, <3>1, SequenceFacts, CallAssumption DEF Proposal
      <4>2. QED
        BY <4>1, LenProperties
    <3> HIDE DEF id, next
    <3>5. performed[id] = Len(proposals[id].calls)
      BY <3>1, <3>2, <3>3, <3>4
    <3>6. QED
      BY <3>5 DEF id
  <2>2. proposals[stack[n].id].status = "Executed" /\ n \in DOMAIN stack
    BY <1>2, <1>3, <1>4 DEF TypeOK
  <2>3. ASSUME NEW j \in DOMAIN proposals,
               \A i \in DOMAIN stack' : stack'[i].id # j
        PROVE  performed[j] = IF proposals[j].status = "Executed"
                               THEN Len(proposals[j].calls) ELSE 0
    <3>1. CASE j = stack[n].id
      BY <2>1, <2>2, <3>1
    <3>2. CASE j # stack[n].id
      <4>1. ASSUME NEW i \in DOMAIN stack, i # n PROVE stack[i].id # j
        <5>1. i \in 1 .. n - 1
          BY <1>3, <4>1
        <5>2. i \in DOMAIN stack' /\ stack'[i] = stack[i]
          BY <1>5, <5>1
        <5>3. QED
          BY <2>3, <5>2
      <4>2. QED
        BY <1>2, <3>2, <4>1 DEF FramesCount
    <3>3. QED
      BY <3>1, <3>2
  <2>4. \A i \in DOMAIN stack' : i \in DOMAIN stack /\ stack'[i] = stack[i]
    BY <1>3, <1>5
  <2>5. QED
    BY <1>1, <1>2, <2>3, <2>4 DEF FramesCount
<1>10. SnapshotsArePast' /\ TalliesMatchSnapshot'
  BY <1>1, TalliesKept DEF IInv, chainVars
<1>11. QED
  BY <1>7, <1>8, <1>9, <1>10 DEF IInv
-----------------------------------------------------------------------------
LEMMA StutterIInv == ASSUME IInv, UNCHANGED vars PROVE IInv'
<1>1. UNCHANGED <<block, time, pastVotes, votingPeriodBlocks, quorumRequired,
                  proposalThreshold, gracePeriod, proposals, hasVoted, stack,
                  saved, performed>>
  BY DEF vars, chainVars, params, txVars
<1>2. TypeOK' /\ SavedIsConsistent' /\ FramesCount'
  BY <1>1 DEF IInv, TypeOK, SavedIsConsistent, FramesCount, Idle, params
<1>3. SnapshotsArePast' /\ TalliesMatchSnapshot'
  BY <1>1 DEF IInv, SnapshotsArePast, TalliesMatchSnapshot
<1>4. QED
  BY <1>2, <1>3 DEF IInv

(* The inductive invariant: what every reachable state of the governor is, *)
(* in a transaction or between two.                                        *)
THEOREM Inductive == Spec => []IInv
<1>1. Init => IInv
  BY InitIInv
<1>2. IInv /\ [Next]_vars => IInv'
  <2>1. SUFFICES ASSUME IInv, Next PROVE IInv'
    BY StutterIInv
  <2>2. CASE NextBlock
    BY <2>1, <2>2, NextBlockIInv
  <2>3. ASSUME NEW a \in Accounts, NEW calls \in CallLists, Propose(a, calls)
        PROVE  IInv'
    BY <2>1, <2>3, ProposeIInv
  <2>4. ASSUME NEW a \in Accounts, NEW id \in DOMAIN proposals, NEW type \in VoteType,
               CastVote(a, id, type)
        PROVE  IInv'
    BY <2>1, <2>4, CastVoteIInv
  <2>5. ASSUME NEW a \in Accounts, NEW id \in DOMAIN proposals, Cancel(a, id)
        PROVE  IInv'
    BY <2>1, <2>5, CancelIInv
  <2>6. ASSUME NEW id \in DOMAIN proposals, Execute(id) PROVE IInv'
    BY <2>1, <2>6, ExecuteIInv
  <2>7. CASE Running
    BY <2>1, <2>7, RunSetterIInv, RunOtherContractIInv, RunExecuteIInv,
       RunCancelIInv, RevertIInv, ReturnIInv DEF Running
  <2>8. QED
    BY <2>1, <2>2, <2>3, <2>4, <2>5, <2>6, <2>7 DEF Next
<1>3. QED
  BY <1>1, <1>2, PTL DEF Spec

(* The types, and that whatever an execution in progress calls, it runs    *)
(* for a proposal already marked Executed.                                 *)
THEOREM TypeCorrect == Spec => []TypeOK
<1>1. IInv => TypeOK
  BY DEF IInv
<1>2. QED
  BY <1>1, Inductive, PTL

(* Votes count once and with the weight of the snapshot, however many      *)
(* accounts there are and however votes are moved while voting goes on.    *)
THEOREM TalliesExact == Spec => []TalliesMatchSnapshot
<1>1. IInv => TalliesMatchSnapshot
  BY DEF IInv
<1>2. QED
  BY <1>1, Inductive, PTL

(* Re-entrant and failing calls included, an executed proposal has run     *)
(* each of its calls exactly once and any other proposal none.             *)
THEOREM CallsOnce == Spec => []CallsRunOnce
<1>1. ASSUME IInv PROVE CallsRunOnce
  <2>1. TypeOK /\ FramesCount
    BY <1>1 DEF IInv
  <2>2. ASSUME NEW id \in DOMAIN proposals
        PROVE  performed[id] <= Len(proposals[id].calls)
    <3>1. Len(proposals[id].calls) \in Nat
      <4>1. proposals[id].calls \in Seq(Call)
        BY <2>1, SequenceFacts, CallAssumption DEF Proposal
      <4>2. QED
        BY <4>1, LenProperties
    <3>2. CASE \E i \in DOMAIN stack : stack[i].id = id
      <4>1. PICK i \in DOMAIN stack : stack[i].id = id
        BY <3>2
      <4>2. stack[i].next \in Nat
        BY <2>1, SequenceFacts
      <4>3. stack[i].next <= Len(proposals[id].calls) + 1
            /\ performed[id] = stack[i].next - 1
        BY <2>1, <4>1 DEF FramesCount
      <4>4. QED
        BY <3>1, <4>2, <4>3
    <3>3. CASE \A i \in DOMAIN stack : stack[i].id # id
      BY <2>1, <3>1, <3>3 DEF FramesCount
    <3>4. QED
      BY <3>2, <3>3
  <2>3. ASSUME NEW id \in DOMAIN proposals, Idle
        PROVE  performed[id] = IF proposals[id].status = "Executed"
                               THEN Len(proposals[id].calls) ELSE 0
    BY <2>1, <2>3 DEF FramesCount, Idle
  <2>4. QED
    BY <2>2, <2>3 DEF CallsRunOnce
<1>2. QED
  BY <1>1, Inductive, PTL

(* Whatever the parameters have become since, getProposalStatus shows a    *)
(* proposal whose voting has ended as "active" exactly if execute accepts  *)
(* it, so the frontend offers no execution that fails and hides none.      *)
THEOREM StatusMatchesExecute == Spec => []StatusOffersExecution
<1>1. ASSUME TypeOK PROVE StatusOffersExecution
  <2>1. ASSUME NEW id \in DOMAIN proposals
        PROVE  (ProposalStatus(proposals[id]) = "Active" /\ time > proposals[id].endTime)
                 <=> CanExecute(id)
    <3> DEFINE p == proposals[id]
    <3>1. p \in Proposal /\ gracePeriod \in Nat /\ time \in Nat
      BY <1>1, SequenceFacts DEF TypeOK, params
    <3>2. p.status \in Status /\ p.endTime \in Nat
      BY <3>1 DEF Proposal
    <3>3. p.endTime + gracePeriod \in Nat /\ MaxUint256 \in Nat
      BY <3>1, <3>2, GovernorAssumption
    <3>4. CanExecute(id) <=> /\ p.status = "Active" /\ time > p.endTime
                             /\ p.endTime + gracePeriod <= MaxUint256
                             /\ time <= p.endTime + gracePeriod
                             /\ Passed(p)
      BY <2>1 DEF CanExecute
    <3> HIDE DEF p
    <3>5. (ProposalStatus(p) = "Active" /\ time > p.endTime)
            <=> /\ p.status = "Active" /\ time > p.endTime
                /\ p.endTime + gracePeriod <= MaxUint256
                /\ time <= p.endTime + gracePeriod
                /\ Passed(p)
      BY <3>1, <3>2, <3>3 DEF ProposalStatus, Status
    <3>6. QED
      BY <3>4, <3>5 DEF p
  <2>2. QED
    BY <2>1 DEF StatusOffersExecution
<1>2. QED
  BY <1>1, TypeCorrect, PTL

-----------------------------------------------------------------------------
(***************************************************************************)
(* What the governor commits: decisions stay made, and parameters change   *)
(* only with the proposal that changes them.  Both compare the state       *)
(* before a whole transaction with the one after it, so the invariant says *)
(* how, within one, the current state has moved away from the saved one.   *)
(***************************************************************************)
(* A transaction leaves proposals alone that were decided before it.       *)
DecidedBeforeKept ==
  ~Idle => \A id \in DOMAIN proposals :
             saved[2][id].status # "Active" => proposals[id].status = saved[2][id].status

(* Every execution in progress is of a proposal that was open before.      *)
OpenBefore ==
  ~Idle => \A i \in DOMAIN stack : saved[2][stack[i].id].status = "Active"

HasSetter(id) ==
  \E i \in DOMAIN proposals[id].calls : proposals[id].calls[i].op \in Setters

Enacts(id) ==
  saved[2][id].status = "Active" /\ proposals[id].status = "Executed" /\ HasSetter(id)

(* Parameters differ from the saved ones only by a proposal with a setter. *)
ChangesAreEnacted ==
  ~Idle /\ params # saved[1] => \E id \in DOMAIN proposals : Enacts(id)

TxInv == DecidedBeforeKept /\ OpenBefore /\ ChangesAreEnacted

(* What a step may make of a committed proposal p.                         *)
Settled(p, q) ==
  /\ p.status # "Active" => q = p
  /\ time > p.endTime => q.votes = p.votes /\ q.quorum = p.quorum

CommitsSettled ==
  \A id \in DOMAIN CommittedProposals : Settled(CommittedProposals[id], CommittedProposals'[id])

ParametersStep ==
  CommittedParams' # CommittedParams =>
    \E id \in DOMAIN CommittedProposals :
      /\ CommittedProposals[id].status = "Active"
      /\ CommittedProposals'[id].status = "Executed"
      /\ \E i \in DOMAIN proposals[id].calls :
           proposals[id].calls[i].op \in Setters

StepIsFinal == TxInv' /\ CommitsSettled /\ ParametersStep

-----------------------------------------------------------------------------
(* Most steps of a transaction commit nothing. *)
LEMMA NothingCommitted ==
  ASSUME CommittedProposals' = CommittedProposals, CommittedParams' = CommittedParams
  PROVE  CommitsSettled /\ ParametersStep
BY DEF CommitsSettled, ParametersStep, Settled

LEMMA IdleHasTxInv == ASSUME Idle' PROVE TxInv'
BY DEF TxInv, DecidedBeforeKept, OpenBefore, ChangesAreEnacted

(* A transaction of one step: what it commits is what it does.             *)
LEMMA SingleStepIsFinal ==
  ASSUME Idle, Idle', UNCHANGED params,
         \A id \in DOMAIN proposals : Settled(proposals[id], proposals'[id])
  PROVE  StepIsFinal
<1>1. /\ CommittedProposals = proposals /\ CommittedProposals' = proposals'
      /\ CommittedParams = params /\ CommittedParams' = params'
  BY DEF CommittedProposals, CommittedParams
<1>2. CommitsSettled
  BY <1>1 DEF CommitsSettled
<1>3. ParametersStep
  BY <1>1 DEF ParametersStep
<1>4. QED
  BY <1>2, <1>3, IdleHasTxInv DEF StepIsFinal

LEMMA NextBlockIsFinal == ASSUME NextBlock PROVE StepIsFinal
<1>1. Idle /\ Idle' /\ UNCHANGED params /\ proposals' = proposals
  BY DEF NextBlock, Idle, txVars
<1>2. QED
  BY <1>1, SingleStepIsFinal DEF Settled

LEMMA ProposeIsFinal ==
  ASSUME IInv, NEW a, NEW calls, Propose(a, calls) PROVE StepIsFinal
<1> DEFINE new == [proposer |-> a, snapshotBlock |-> block - 1, endTime |-> EndTime,
                   status |-> "Active", quorum |-> quorumRequired,
                   calls |-> calls, votes |-> [type \in VoteType |-> 0]]
<1>1. Idle /\ Idle' /\ UNCHANGED params /\ proposals' = Append(proposals, new)
  BY DEF Propose, Idle, txVars
<1> HIDE DEF new
<1>2. TypeOK /\ proposals \in Seq(Proposal) /\ DOMAIN proposals = 1 .. Len(proposals)
      /\ Len(proposals) \in Nat
  BY SequenceFacts DEF IInv, TypeOK
<1>3. \A id \in DOMAIN proposals : proposals'[id] = proposals[id]
  BY <1>1, <1>2
<1>4. QED
  BY <1>1, <1>3, SingleStepIsFinal DEF Settled

LEMMA CastVoteIsFinal ==
  ASSUME IInv, NEW v, NEW id \in DOMAIN proposals, NEW type, CastVote(v, id, type)
  PROVE  StepIsFinal
<1>1. /\ Idle /\ Idle' /\ UNCHANGED params
      /\ proposals[id].status = "Active" /\ time <= proposals[id].endTime
      /\ \A j \in DOMAIN proposals : j # id => proposals'[j] = proposals[j]
  BY DEF CastVote, Idle, txVars
<1>2. time \in Nat /\ proposals[id].endTime \in Nat
  BY SequenceFacts DEF IInv, TypeOK, Proposal
<1>3. \A j \in DOMAIN proposals : Settled(proposals[j], proposals'[j])
  BY <1>1, <1>2 DEF Settled
<1>4. QED
  BY <1>1, <1>3, SingleStepIsFinal

LEMMA CancelIsFinal ==
  ASSUME IInv, NEW a, NEW id \in DOMAIN proposals, Cancel(a, id) PROVE StepIsFinal
<1>1. /\ TypeOK /\ Idle /\ Idle' /\ UNCHANGED params
      /\ proposals[id].status = "Active"
      /\ proposals' = [proposals EXCEPT ![id].status = "Canceled"]
  BY DEF IInv, Cancel, Idle, txVars
<1>2. /\ proposals'[id] = [proposals[id] EXCEPT !.status = "Canceled"]
      /\ \A j \in DOMAIN proposals : j # id => proposals'[j] = proposals[j]
  BY <1>1, StatusChange DEF Status
<1>3. proposals'[id].votes = proposals[id].votes /\ proposals'[id].quorum = proposals[id].quorum
  BY <1>1, <1>2, SequenceFacts DEF Proposal
<1>4. \A j \in DOMAIN proposals : Settled(proposals[j], proposals'[j])
  BY <1>1, <1>2, <1>3 DEF Settled
<1>5. QED
  BY <1>1, <1>4, SingleStepIsFinal

-----------------------------------------------------------------------------
(* execute and what it calls. *)

LEMMA ExecuteIsFinal ==
  ASSUME IInv, NEW id \in DOMAIN proposals, Execute(id) PROVE StepIsFinal
<1>1. /\ TypeOK /\ Idle /\ proposals[id].status = "Active"
      /\ proposals' = [proposals EXCEPT ![id].status = "Executed"]
      /\ stack' = <<[id |-> id, next |-> 1]>>
      /\ saved' = <<params, proposals, performed>>
      /\ params' = params
  BY DEF IInv, Execute, CanExecute, MarkExecuted, Revertible
<1>2. /\ DOMAIN proposals' = DOMAIN proposals
      /\ \A j \in DOMAIN proposals : j # id => proposals'[j] = proposals[j]
  BY <1>1, StatusChange DEF Status
<1>3. ~Idle' /\ DOMAIN stack' = {1} /\ stack'[1].id = id
  BY <1>1 DEF Idle
<1>4. saved'[1] = params /\ saved'[2] = proposals
  BY <1>1
<1>5. TxInv'
  BY <1>1, <1>2, <1>3, <1>4 DEF TxInv, DecidedBeforeKept, OpenBefore, ChangesAreEnacted
<1>6. CommittedProposals' = CommittedProposals /\ CommittedParams' = CommittedParams
  BY <1>1, <1>3, <1>4 DEF CommittedProposals, CommittedParams
<1>7. QED
  BY <1>5, <1>6, NothingCommitted DEF StepIsFinal

(* The proposal whose call runs was open before and is now Executed.       *)
LEMMA RunningProposal ==
  ASSUME IInv, TxInv, MoreCalls, Performed
  PROVE  /\ ~Idle /\ Frame.id \in DOMAIN proposals
         /\ saved[2][Frame.id].status = "Active"
         /\ proposals[Frame.id].status = "Executed"
         /\ Frame.next \in DOMAIN proposals[Frame.id].calls
<1>1. ~Idle /\ TypeOK /\ OpenBefore
  BY DEF IInv, TxInv, MoreCalls
<1>2. /\ Len(stack) \in DOMAIN stack /\ Frame.id \in DOMAIN proposals
      /\ Frame.next \in Nat \ {0} /\ Frame.next <= Len(proposals[Frame.id].calls)
  BY AdvanceFacts
<1>3. /\ saved[2][Frame.id].status = "Active"
      /\ proposals[Frame.id].status = "Executed"
  BY <1>1, <1>2 DEF OpenBefore, TypeOK, Frame
<1>4. proposals[Frame.id].calls \in Seq(Call)
  BY <1>1, <1>2, SequenceFacts, CallAssumption DEF Proposal
<1>5. Frame.next \in DOMAIN proposals[Frame.id].calls
  BY <1>2, <1>4, LenProperties
<1>6. QED
  BY <1>1, <1>2, <1>3, <1>5

(* Advancing the innermost execution keeps the proposals on the stack.     *)
LEMMA SameStack ==
  ASSUME IInv, MoreCalls, Performed, stack' = Advance
  PROVE  ~Idle' /\ DOMAIN stack' = DOMAIN stack /\ \A i \in DOMAIN stack : stack'[i].id = stack[i].id
<1>1. /\ Len(stack) \in DOMAIN stack
      /\ \A i \in DOMAIN stack : Advance[i].id = stack[i].id
  BY AdvanceFacts
<1>2. DOMAIN Advance = DOMAIN stack
  BY DEF Advance
<1>3. Advance # <<>>
  BY <1>1, <1>2
<1>4. QED
  BY <1>1, <1>2, <1>3 DEF Idle

LEMMA UncommittedKept ==
  ASSUME ~Idle, ~Idle', saved' = saved
  PROVE  CommitsSettled /\ ParametersStep
<1>1. CommittedProposals' = CommittedProposals /\ CommittedParams' = CommittedParams
  BY DEF CommittedProposals, CommittedParams
<1>2. QED
  BY <1>1, NothingCommitted

LEMMA RunSetterIsFinal == ASSUME IInv, TxInv, RunSetter PROVE StepIsFinal
<1>1. /\ MoreCalls /\ Performed /\ stack' = Advance /\ NextCall.op \in Setters
      /\ saved' = saved /\ proposals' = proposals
  BY DEF RunSetter
<1>2. /\ ~Idle /\ Frame.id \in DOMAIN proposals
      /\ saved[2][Frame.id].status = "Active"
      /\ proposals[Frame.id].status = "Executed"
      /\ Frame.next \in DOMAIN proposals[Frame.id].calls
  BY <1>1, RunningProposal
<1>3. ~Idle' /\ DOMAIN stack' = DOMAIN stack /\ \A i \in DOMAIN stack : stack'[i].id = stack[i].id
  BY <1>1, SameStack
<1>4. PICK id \in DOMAIN proposals : id = Frame.id
  BY <1>2
<1>5. Enacts(id)
  BY <1>1, <1>2, <1>4 DEF Enacts, HasSetter, NextCall
<1>6. Enacts(id)' /\ id \in DOMAIN proposals'
  BY <1>1, <1>5 DEF Enacts, HasSetter
<1>7. DecidedBeforeKept' /\ OpenBefore'
  BY <1>1, <1>2, <1>3 DEF TxInv, DecidedBeforeKept, OpenBefore
<1>8. ChangesAreEnacted'
  BY <1>6 DEF ChangesAreEnacted
<1>9. QED
  BY <1>1, <1>2, <1>3, <1>7, <1>8, UncommittedKept DEF TxInv, StepIsFinal

LEMMA RunOtherContractIsFinal == ASSUME IInv, TxInv, RunOtherContract PROVE StepIsFinal
<1>1. /\ MoreCalls /\ Performed /\ stack' = Advance /\ ~Idle
      /\ saved' = saved /\ proposals' = proposals /\ params' = params
  BY DEF RunOtherContract, MoreCalls
<1>2. ~Idle' /\ DOMAIN stack' = DOMAIN stack /\ \A i \in DOMAIN stack : stack'[i].id = stack[i].id
  BY <1>1, SameStack
<1>3. DecidedBeforeKept' /\ OpenBefore'
  BY <1>1, <1>2 DEF TxInv, DecidedBeforeKept, OpenBefore
<1>4. ChangesAreEnacted'
  BY <1>1 DEF TxInv, ChangesAreEnacted, Enacts, HasSetter
<1>5. QED
  BY <1>1, <1>2, <1>3, <1>4, UncommittedKept DEF TxInv, StepIsFinal

(* A call that decides a proposal that was open, within the transaction.   *)
LEMMA DecidingKeeps ==
  ASSUME IInv, TxInv, ~Idle, NEW id \in DOMAIN proposals, NEW s \in Status,
         proposals[id].status = "Active", saved' = saved, params' = params,
         proposals' = [proposals EXCEPT ![id].status = s]
  PROVE  DecidedBeforeKept' /\ ChangesAreEnacted' /\ saved[2][id].status = "Active"
<1>1. TypeOK
  BY DEF IInv
<1>2. /\ DOMAIN proposals' = DOMAIN proposals
      /\ proposals'[id] = [proposals[id] EXCEPT !.status = s]
      /\ \A j \in DOMAIN proposals : j # id => proposals'[j] = proposals[j]
  BY <1>1, StatusChange
<1>3. saved[2][id].status = "Active"
  BY DEF TxInv, DecidedBeforeKept
<1>4. DecidedBeforeKept'
  BY <1>2, <1>3 DEF TxInv, DecidedBeforeKept
<1>5. ASSUME NEW j \in DOMAIN proposals, Enacts(j) PROVE Enacts(j)'
  BY <1>2, <1>5 DEF Enacts, HasSetter
<1>6. ChangesAreEnacted'
  BY <1>2, <1>5 DEF TxInv, ChangesAreEnacted
<1>7. QED
  BY <1>3, <1>4, <1>6

LEMMA RunCancelIsFinal == ASSUME IInv, TxInv, RunCancel PROVE StepIsFinal
<1> DEFINE id == NextCall.arg
<1>1. /\ MoreCalls /\ Performed /\ stack' = Advance /\ ~Idle
      /\ saved' = saved /\ params' = params
      /\ id \in DOMAIN proposals /\ proposals[id].status = "Active"
      /\ proposals' = [proposals EXCEPT ![id].status = "Canceled"]
  BY DEF RunCancel, AnyoneMayCancel, MoreCalls
<1>2. ~Idle' /\ DOMAIN stack' = DOMAIN stack /\ \A i \in DOMAIN stack : stack'[i].id = stack[i].id
  BY <1>1, SameStack
<1> HIDE DEF id
<1>3. DecidedBeforeKept' /\ ChangesAreEnacted'
  BY <1>1, DecidingKeeps DEF Status
<1>4. OpenBefore'
  BY <1>1, <1>2 DEF TxInv, OpenBefore
<1>5. QED
  BY <1>1, <1>2, <1>3, <1>4, UncommittedKept DEF TxInv, StepIsFinal

LEMMA RunExecuteIsFinal == ASSUME IInv, TxInv, RunExecute PROVE StepIsFinal
<1> DEFINE id == NextCall.arg
           F == [id : DOMAIN proposals, next : Nat \ {0}]
           inner == [id |-> id, next |-> 1]
           n == Len(stack)
<1>1. /\ MoreCalls /\ Performed /\ stack' = Append(Advance, inner) /\ ~Idle
      /\ saved' = saved /\ params' = params
      /\ id \in DOMAIN proposals /\ proposals[id].status = "Active"
      /\ proposals' = [proposals EXCEPT ![id].status = "Executed"]
  BY DEF RunExecute, CanExecute, MarkExecuted, MoreCalls
<1>2. inner \in F /\ inner.id = id
  BY <1>1
<1> HIDE DEF id, inner
<1>3. DecidedBeforeKept' /\ ChangesAreEnacted' /\ saved[2][id].status = "Active"
  BY <1>1, DecidingKeeps DEF Status
<1>4. /\ DOMAIN stack' = DOMAIN stack \cup {n + 1} /\ stack'[n + 1] = inner
      /\ \A i \in DOMAIN stack : stack'[i].id = stack[i].id
  <2>1. Advance \in Seq(F) /\ Len(Advance) = n
        /\ \A i \in DOMAIN stack : Advance[i].id = stack[i].id
    BY <1>1, AdvanceFacts
  <2>2. n \in Nat /\ DOMAIN stack = 1 .. n
    BY SequenceFacts DEF IInv
  <2> HIDE DEF F
  <2>3. /\ stack' \in Seq(F) /\ Len(stack') = n + 1
        /\ \A i \in 1 .. n : stack'[i] = Advance[i]
        /\ stack'[n + 1] = inner
    BY <1>1, <1>2, <2>1, AppendProperties
  <2>4. DOMAIN stack' = 1 .. n + 1
    BY <2>3, LenProperties
  <2>5. QED
    BY <2>1, <2>2, <2>3, <2>4
<1>5. OpenBefore'
  BY <1>1, <1>2, <1>3, <1>4 DEF TxInv, OpenBefore
<1>6. ~Idle'
  BY <1>4 DEF Idle
<1>7. QED
  BY <1>1, <1>3, <1>5, <1>6, UncommittedKept DEF TxInv, StepIsFinal

LEMMA RevertIsFinal == ASSUME IInv, Revert PROVE StepIsFinal
<1>1. ~Idle /\ Idle' /\ proposals' = saved[2]
  BY DEF Revert, RestoreSaved, MoreCalls, Idle
<1>2. saved[1] \in Nat \X Nat \X Nat \X Nat
  BY <1>1 DEF IInv, SavedIsConsistent
<1>3. params' = saved[1]
  BY <1>2 DEF Revert, RestoreSaved, params
<1>4. CommittedProposals' = CommittedProposals /\ CommittedParams' = CommittedParams
  BY <1>1, <1>3 DEF CommittedProposals, CommittedParams
<1>5. QED
  BY <1>1, <1>4, NothingCommitted, IdleHasTxInv DEF StepIsFinal

(* The outermost execution ends: the transaction commits what it did.      *)
LEMMA ReturnIsFinal == ASSUME IInv, TxInv, Return PROVE StepIsFinal
<1> DEFINE n == Len(stack)
<1>1. /\ TypeOK /\ SavedIsConsistent /\ ~Idle
      /\ stack' = SubSeq(stack, 1, n - 1)
      /\ saved' = IF n = 1 THEN <<>> ELSE saved
      /\ UNCHANGED <<params, proposals>>
  BY DEF IInv, Return
<1>2. n \in Nat /\ DOMAIN stack = 1 .. n /\ TypeOK'
  BY <1>1, SequenceFacts, ReturnIInv DEF IInv
<1>3. /\ DOMAIN stack' \subseteq DOMAIN stack
      /\ \A i \in DOMAIN stack' : stack'[i] = stack[i]
  BY <1>1, <1>2
<1>4. CASE Idle'
  <2>1. /\ CommittedProposals = saved[2] /\ CommittedProposals' = proposals
        /\ CommittedParams = saved[1] /\ CommittedParams' = params
    BY <1>1, <1>4 DEF CommittedProposals, CommittedParams
  <2>2. ASSUME NEW id \in DOMAIN saved[2]
        PROVE  Settled(saved[2][id], proposals[id])
    <3>1. /\ id \in DOMAIN proposals /\ proposals[id] \in Proposal
          /\ saved[2][id] = [proposals[id] EXCEPT !.status = saved[2][id].status]
      BY <1>1, SequenceFacts DEF SavedIsConsistent
    <3>2. saved[2][id].status # "Active" => proposals[id].status = saved[2][id].status
      BY <1>1, <3>1 DEF TxInv, DecidedBeforeKept
    <3> DEFINE p == proposals[id]  q == saved[2][id]
    <3> HIDE DEF p, q
    <3>3. p \in Proposal /\ q = [p EXCEPT !.status = q.status]
      BY <3>1 DEF p, q
    <3>4. q.votes = p.votes /\ q.quorum = p.quorum /\ (p.status = q.status => q = p)
      BY <3>3 DEF Proposal
    <3>5. QED
      BY <3>2, <3>4 DEF Settled, p, q
  <2>3. CommitsSettled
    BY <2>1, <2>2 DEF CommitsSettled
  <2>4. ParametersStep
    <3>1. SUFFICES ASSUME params # saved[1]
                   PROVE  \E id \in DOMAIN saved[2] :
                            /\ saved[2][id].status = "Active"
                            /\ proposals[id].status = "Executed"
                            /\ HasSetter(id)
      BY <2>1 DEF ParametersStep, HasSetter
    <3>2. QED
      BY <1>1, <3>1 DEF TxInv, ChangesAreEnacted, Enacts, SavedIsConsistent
  <2>5. QED
    BY <1>4, <2>3, <2>4, IdleHasTxInv DEF StepIsFinal
<1>5. CASE ~Idle'
  <2>1. saved' = saved
    <3>1. saved' # <<>>
      BY <1>2, <1>5 DEF TypeOK
    <3>2. QED
      BY <1>1, <3>1
  <2>2. DecidedBeforeKept' /\ OpenBefore'
    BY <1>1, <1>3, <2>1 DEF TxInv, DecidedBeforeKept, OpenBefore
  <2>3. ChangesAreEnacted'
    BY <1>1, <2>1 DEF TxInv, ChangesAreEnacted, Enacts, HasSetter
  <2>4. QED
    BY <1>1, <1>5, <2>1, <2>2, <2>3, UncommittedKept DEF TxInv, StepIsFinal
<1>6. QED
  BY <1>4, <1>5

LEMMA StutterIsFinal == ASSUME TxInv, UNCHANGED vars PROVE StepIsFinal
<1>1. UNCHANGED <<params, proposals, stack, saved>>
  BY DEF vars, txVars
<1>2. CommittedProposals' = CommittedProposals /\ CommittedParams' = CommittedParams
  BY <1>1 DEF CommittedProposals, CommittedParams, Idle
<1>3. TxInv'
  BY <1>1 DEF TxInv, DecidedBeforeKept, OpenBefore, ChangesAreEnacted, Enacts, HasSetter, Idle
<1>4. QED
  BY <1>2, <1>3, NothingCommitted DEF StepIsFinal

LEMMA NextIsFinal == ASSUME IInv, TxInv, [Next]_vars PROVE StepIsFinal
<1>1. SUFFICES ASSUME Next PROVE StepIsFinal
  BY StutterIsFinal
<1>2. CASE NextBlock
  BY <1>2, NextBlockIsFinal
<1>3. ASSUME NEW a \in Accounts, NEW calls \in CallLists, Propose(a, calls)
      PROVE  StepIsFinal
  BY <1>3, ProposeIsFinal
<1>4. ASSUME NEW a \in Accounts, NEW id \in DOMAIN proposals,
             Cancel(a, id) \/ \E type \in VoteType : CastVote(a, id, type)
      PROVE  StepIsFinal
  BY <1>4, CancelIsFinal, CastVoteIsFinal
<1>5. ASSUME NEW id \in DOMAIN proposals, Execute(id) PROVE StepIsFinal
  BY <1>5, ExecuteIsFinal
<1>6. CASE Running
  BY <1>6, RunSetterIsFinal, RunOtherContractIsFinal, RunExecuteIsFinal,
     RunCancelIsFinal, RevertIsFinal, ReturnIsFinal DEF Running
<1>7. QED
  BY <1>1, <1>2, <1>3, <1>4, <1>5, <1>6 DEF Next

-----------------------------------------------------------------------------
LEMMA TxInvHolds == Spec => []TxInv
<1>1. Init => TxInv
  BY DEF Init, Idle, TxInv, DecidedBeforeKept, OpenBefore, ChangesAreEnacted
<1>2. IInv /\ TxInv /\ [Next]_vars => TxInv'
  BY NextIsFinal DEF StepIsFinal
<1>3. QED
  BY <1>1, <1>2, Inductive, PTL DEF Spec

(* What is decided stays so, and what a vote has come to once it has ended. *)
DecisionsStep ==
  \A id \in DOMAIN CommittedProposals :
    LET old == CommittedProposals[id]
        new == CommittedProposals'[id]
    IN  /\ old.status # "Active" => new = old
        /\ time > old.endTime => Passed(old)' = Passed(old)

LEMMA DecisionsSettled == ASSUME CommitsSettled PROVE DecisionsStep
<1>1. SUFFICES ASSUME NEW id \in DOMAIN CommittedProposals
               PROVE  /\ CommittedProposals[id].status # "Active"
                           => CommittedProposals'[id] = CommittedProposals[id]
                      /\ time > CommittedProposals[id].endTime
                           => Passed(CommittedProposals[id])' = Passed(CommittedProposals[id])
  BY DEF DecisionsStep
<1>2. Settled(CommittedProposals[id], CommittedProposals'[id])
  BY DEF CommitsSettled
<1>3. QED
  BY <1>2 DEF Settled, Passed, TotalVotes

(* No transaction, whatever its proposals call and wherever it fails,      *)
(* touches a decided proposal or the result of a vote that has ended, not  *)
(* even by a new quorum.                                                   *)
THEOREM DecisionsStayMade == Spec => [][DecisionsStep]_vars
<1>1. IInv /\ TxInv /\ [Next]_vars => [DecisionsStep]_vars
  BY NextIsFinal, DecisionsSettled DEF StepIsFinal
<1>2. QED
  BY <1>1, TxInvHolds, Inductive, PTL DEF Spec

(* A parameter of the governor is different after a transaction only if    *)
(* that transaction executed an open proposal with a call to a setter.     *)
THEOREM ParametersEnacted == Spec => [][ParametersStep]_vars
<1>1. IInv /\ TxInv /\ [Next]_vars => [ParametersStep]_vars
  BY NextIsFinal DEF StepIsFinal
<1>2. QED
  BY <1>1, TxInvHolds, Inductive, PTL DEF Spec

-----------------------------------------------------------------------------
(***************************************************************************)
(* The governor implements Referendum: between its transactions it is      *)
(* where one step of Referendum leads.  The invariant says what the        *)
(* transaction in progress has done so far, by the calls it has performed: *)
(* which proposals it enacted and canceled, and whence its parameters are. *)
(***************************************************************************)
Enacted == {id \in DOMAIN proposals :
              saved[2][id].status = "Active" /\ proposals[id].status = "Executed"}
Withdrawn == {id \in DOMAIN proposals :
                saved[2][id].status = "Active" /\ proposals[id].status = "Canceled"}

(* A call of the transaction has been performed. *)
HasRun(op, arg) ==
  \E id \in Enacted : \E i \in 1 .. performed[id] :
    proposals[id].calls[i].op = op /\ proposals[id].calls[i].arg = arg

Param(k) == params[k]
SavedParam(k) == saved[1][k]
SetterOf(k) == Promised!SetterOf[k]

(* A parameter is as it was, or what a call has set it to. *)
SetByCalls ==
  \A k \in 1 .. 4 : IF \E x : HasRun(SetterOf(k), x) THEN HasRun(SetterOf(k), Param(k))
                    ELSE Param(k) = SavedParam(k)

RootInTime ==
  /\ stack[1].id \in Enacted
  /\ time <= proposals[stack[1].id].endTime + SavedParam(4)

EnactedCarried ==
  \A id \in Enacted : time > proposals[id].endTime /\ Passed(proposals[id])

CallsDecide ==
  /\ \A id : id \in Enacted <=> id = stack[1].id \/ HasRun("execute", id)
  /\ \A id : id \in Withdrawn <=> HasRun("cancel", id)
  /\ \A x : ~HasRun("fail", x)

SoFar == ~Idle => RootInTime /\ EnactedCarried /\ CallsDecide /\ SetByCalls

-----------------------------------------------------------------------------
(* A call is added to those that have run, and no other. *)
LEMMA OneMoreCall ==
  ASSUME IInv, TxInv, MoreCalls, Performed, DOMAIN proposals' = DOMAIN proposals,
         \A id \in DOMAIN proposals : proposals'[id].calls = proposals[id].calls,
         Enacted \subseteq Enacted', \A id \in Enacted' \ Enacted : performed[id] = 0
  PROVE  \A op, x : HasRun(op, x)' <=> HasRun(op, x) \/ (NextCall.op = op /\ NextCall.arg = x)
<1>1. /\ Frame.id \in Enacted /\ Frame.next \in Nat \ {0}
      /\ performed[Frame.id] = Frame.next - 1
      /\ \A j \in DOMAIN performed : performed'[j] = IF j = Frame.id THEN Frame.next ELSE performed[j]
  BY AdvanceFacts, RunningProposal DEF Enacted
<1>2. /\ DOMAIN performed = DOMAIN proposals /\ \A j \in DOMAIN proposals : performed[j] \in Nat
      /\ Enacted \subseteq DOMAIN proposals /\ Enacted' \subseteq DOMAIN proposals
  BY SequenceFacts DEF IInv, Enacted
<1>3. 1 .. Frame.next = 1 .. (Frame.next - 1) \cup {Frame.next}
  BY <1>1
<1>4. NextCall = proposals[Frame.id].calls[Frame.next]
  BY DEF NextCall
<1>5. SUFFICES ASSUME NEW op, NEW x
               PROVE  HasRun(op, x)' <=> HasRun(op, x) \/ (NextCall.op = op /\ NextCall.arg = x)
  OBVIOUS
<1>6. ASSUME HasRun(op, x)' PROVE HasRun(op, x) \/ (NextCall.op = op /\ NextCall.arg = x)
  <2>1. PICK id \in Enacted' : \E i \in 1 .. performed'[id] :
               proposals'[id].calls[i].op = op /\ proposals'[id].calls[i].arg = x
    BY <1>6 DEF HasRun
  <2>2. PICK i \in 1 .. performed'[id] : proposals[id].calls[i].op = op /\ proposals[id].calls[i].arg = x
    BY <1>2, <2>1
  <2>3. CASE id = Frame.id
    <3>1. i \in 1 .. Frame.next
      BY <1>1, <1>2, <2>1, <2>2, <2>3
    <3>2. CASE i = Frame.next
      BY <1>4, <2>2, <2>3, <3>2
    <3>3. CASE i \in 1 .. performed[id]
      BY <1>1, <2>2, <2>3, <3>3 DEF HasRun
    <3>4. QED
      BY <1>1, <1>3, <2>3, <3>1, <3>2, <3>3
  <2>4. CASE id # Frame.id
    <3>1. performed'[id] = performed[id]
      BY <1>1, <1>2, <2>1, <2>4
    <3>2. id \in Enacted
      BY <1>2, <2>1, <2>2, <3>1
    <3>3. QED
      BY <2>2, <3>1, <3>2 DEF HasRun
  <2>5. QED
    BY <2>3, <2>4
<1>7. ASSUME HasRun(op, x) PROVE HasRun(op, x)'
  <2>1. PICK id \in Enacted : \E i \in 1 .. performed[id] :
               proposals[id].calls[i].op = op /\ proposals[id].calls[i].arg = x
    BY <1>7 DEF HasRun
  <2>2. PICK i \in 1 .. performed[id] : proposals[id].calls[i].op = op /\ proposals[id].calls[i].arg = x
    BY <2>1
  <2>3. id \in Enacted' /\ id \in DOMAIN proposals /\ proposals'[id].calls = proposals[id].calls
    BY <1>2
  <2>4. performed[id] \in Nat /\ performed'[id] \in Nat /\ performed[id] <= performed'[id]
    BY <1>1, <1>2, <2>3
  <2>5. i \in 1 .. performed'[id]
    BY <2>2, <2>4
  <2>6. QED
    BY <2>2, <2>3, <2>5 DEF HasRun
<1>8. ASSUME NextCall.op = op, NextCall.arg = x PROVE HasRun(op, x)'
  <2>1. Frame.id \in Enacted' /\ Frame.id \in DOMAIN proposals
    BY <1>1, <1>2
  <2>2. performed'[Frame.id] = Frame.next
    BY <1>1, <1>2, <2>1
  <2>3. Frame.next \in 1 .. Frame.next
    BY <1>1
  <2>4. PICK id \in Enacted' : id = Frame.id
    BY <2>1
  <2>5. PICK i \in 1 .. performed'[id] : i = Frame.next
    BY <2>2, <2>3, <2>4
  <2>6. proposals'[id].calls[i] = NextCall
    BY <1>4, <2>1, <2>4, <2>5
  <2>7. QED
    BY <1>8, <2>4, <2>5, <2>6 DEF HasRun
<1>9. QED
  BY <1>6, <1>7, <1>8

(* What the saved state and the stack keep while a call runs. *)
LEMMA RootStays ==
  ASSUME IInv, TxInv, MoreCalls, Performed, stack' = Advance
  PROVE  ~Idle' /\ stack'[1].id = stack[1].id
<1>1. ~Idle' /\ \A i \in DOMAIN stack : stack'[i].id = stack[i].id
  BY SameStack
<1>2. Len(stack) \in DOMAIN stack /\ DOMAIN stack = 1 .. Len(stack) /\ Len(stack) \in Nat
  BY AdvanceFacts, SequenceFacts DEF IInv
<1>3. 1 \in DOMAIN stack
  BY <1>2
<1>4. QED
  BY <1>1, <1>3

LEMMA SettersNamed ==
  /\ \A k \in 1 .. 4 : SetterOf(k) \in Setters
  /\ \A k, l \in 1 .. 4 : SetterOf(k) = SetterOf(l) => k = l
  /\ \A k \in 1 .. 4 : SetterOf(k) \notin {"execute", "cancel", "fail", "succeed"}
BY DEF SetterOf, Promised!SetterOf, Setters

(* A call adds to what the transaction has done what the call says. *)
LEMMA CallSoFar ==
  ASSUME IInv, TxInv, SoFar, MoreCalls, Performed, NextCall.op # "fail",
         saved' = saved, time' = time, stack'[1].id = stack[1].id,
         DOMAIN proposals' = DOMAIN proposals,
         \A id \in DOMAIN proposals :
           proposals'[id] = [proposals[id] EXCEPT !.status = proposals'[id].status],
         \A id : id \in Enacted' <=> id \in Enacted \/ (NextCall.op = "execute" /\ NextCall.arg = id),
         \A id : id \in Withdrawn' <=> id \in Withdrawn \/ (NextCall.op = "cancel" /\ NextCall.arg = id),
         \A id \in Enacted' \ Enacted :
           performed[id] = 0 /\ time > proposals[id].endTime /\ Passed(proposals[id]),
         \A k \in 1 .. 4 : Param(k)' = IF NextCall.op = SetterOf(k) THEN NextCall.arg ELSE Param(k)
  PROVE  SoFar'
<1>1. ~Idle /\ RootInTime /\ EnactedCarried /\ CallsDecide /\ SetByCalls
  BY DEF SoFar, MoreCalls
<1>2. ASSUME NEW id \in DOMAIN proposals
      PROVE  /\ proposals'[id].calls = proposals[id].calls
             /\ proposals'[id].endTime = proposals[id].endTime
             /\ proposals'[id].votes = proposals[id].votes
             /\ proposals'[id].quorum = proposals[id].quorum
  <2>1. proposals[id] \in Proposal
    BY SequenceFacts DEF IInv
  <2>2. PICK p \in Proposal : p = proposals[id]
    BY <2>1
  <2>3. PICK q : q = proposals'[id]
    OBVIOUS
  <2>4. q = [p EXCEPT !.status = q.status]
    BY <2>2, <2>3
  <2>5. QED
    BY <2>2, <2>3, <2>4 DEF Proposal
<1>3. Enacted \subseteq Enacted' /\ Enacted' \subseteq DOMAIN proposals
  BY DEF Enacted
<1>4. \A op, x : HasRun(op, x)' <=> HasRun(op, x) \/ (NextCall.op = op /\ NextCall.arg = x)
  BY <1>2, <1>3, OneMoreCall
<1>5. RootInTime'
  <2>1. stack[1].id \in Enacted /\ time <= proposals[stack[1].id].endTime + SavedParam(4)
    BY <1>1 DEF RootInTime
  <2>2. PICK r \in DOMAIN proposals : r = stack[1].id
    BY <2>1, <1>3
  <2>3. stack'[1].id = r /\ r \in Enacted' /\ time' <= proposals'[r].endTime + saved'[1][4]
    BY <1>2, <1>3, <2>1, <2>2 DEF SavedParam
  <2>4. QED
    BY <2>3 DEF RootInTime, SavedParam
<1>6. EnactedCarried'
  <2>1. SUFFICES ASSUME NEW id \in Enacted'
                 PROVE  time' > proposals'[id].endTime /\ Passed(proposals'[id])
    BY DEF EnactedCarried, Passed, TotalVotes
  <2>2. time > proposals[id].endTime /\ Passed(proposals[id])
    BY <1>1 DEF EnactedCarried
  <2>3. QED
    BY <1>2, <1>3, <2>2 DEF Passed, TotalVotes
<1>7. CallsDecide'
  <2>1. /\ \A id : id \in Enacted <=> id = stack[1].id \/ HasRun("execute", id)
        /\ \A id : id \in Withdrawn <=> HasRun("cancel", id)
        /\ \A x : ~HasRun("fail", x)
    BY <1>1 DEF CallsDecide
  <2>2. \A id : id \in Enacted' <=> id = stack'[1].id \/ HasRun("execute", id)'
    BY <1>4, <2>1
  <2>3. \A id : id \in Withdrawn' <=> HasRun("cancel", id)'
    BY <1>4, <2>1
  <2>4. \A x : ~HasRun("fail", x)'
    BY <1>4, <2>1
  <2>5. QED
    BY <2>2, <2>3, <2>4 DEF CallsDecide
<1>8. SetByCalls'
  <2>1. ASSUME NEW k \in 1 .. 4, NEW v, v = Param(k)'
        PROVE  IF \E x : HasRun(SetterOf(k), x)' THEN HasRun(SetterOf(k), v)'
               ELSE v = SavedParam(k)'
    <3>1. IF \E x : HasRun(SetterOf(k), x) THEN HasRun(SetterOf(k), Param(k))
          ELSE Param(k) = SavedParam(k)
      BY <1>1 DEF SetByCalls
    <3>2. SavedParam(k)' = SavedParam(k)
      BY DEF SavedParam
    <3>3. v = IF NextCall.op = SetterOf(k) THEN NextCall.arg ELSE Param(k)
      BY <2>1
    <3>4. QED
      BY <1>4, <3>1, <3>2, <3>3
  <2>2. QED
    BY <2>1 DEF SetByCalls, SetterOf, HasRun, Param, SavedParam, Promised!SetterOf
<1>9. QED
  BY <1>5, <1>6, <1>7, <1>8 DEF SoFar

(* Other calls than setters leave the parameters alone. *)
LEMMA ParamsStay ==
  ASSUME params' = params, NextCall.op \in {"execute", "cancel", "succeed"}
  PROVE  \A k \in 1 .. 4 : Param(k)' = IF NextCall.op = SetterOf(k) THEN NextCall.arg ELSE Param(k)
<1>1. \A k \in 1 .. 4 : NextCall.op # SetterOf(k)
  BY SettersNamed
<1>2. \A k \in 1 .. 4 : Param(k)' = Param(k)
  BY DEF Param
<1>3. QED
  BY <1>1, <1>2

LEMMA RunSetterSoFar == ASSUME IInv, TxInv, SoFar, RunSetter PROVE SoFar'
<1>1. /\ MoreCalls /\ Performed /\ stack' = Advance /\ NextCall.op \in Setters
      /\ saved' = saved /\ proposals' = proposals /\ time' = time
  BY DEF RunSetter, chainVars
<1>2. NextCall.op \notin {"execute", "cancel", "fail"}
  BY <1>1 DEF Setters
<1>3. stack'[1].id = stack[1].id
  BY <1>1, RootStays
<1>4. Enacted' = Enacted /\ Withdrawn' = Withdrawn
  BY <1>1 DEF Enacted, Withdrawn
<1>5. \A k \in 1 .. 4 : Param(k)' = IF NextCall.op = SetterOf(k) THEN NextCall.arg ELSE Param(k)
  <2> DEFINE op == NextCall.op  arg == NextCall.arg
  <2>1. /\ votingPeriodBlocks' = IF op = "setVotingPeriodBlocks" THEN arg ELSE votingPeriodBlocks
        /\ quorumRequired' = IF op = "setQuorumRequired" THEN arg ELSE quorumRequired
        /\ proposalThreshold' = IF op = "setProposalThreshold" THEN arg ELSE proposalThreshold
        /\ gracePeriod' = IF op = "setGracePeriod" THEN arg ELSE gracePeriod
    BY DEF RunSetter
  <2> HIDE DEF op, arg
  <2>2. SUFFICES ASSUME NEW k \in 1 .. 4
                 PROVE  Param(k)' = IF op = SetterOf(k) THEN arg ELSE Param(k)
    BY DEF op, arg
  <2>3. k = 1 \/ k = 2 \/ k = 3 \/ k = 4
    OBVIOUS
  <2>4. QED
    BY <2>1, <2>3 DEF Param, params, SetterOf, Promised!SetterOf
<1>6. \A id \in DOMAIN proposals :
        proposals'[id] = [proposals[id] EXCEPT !.status = proposals'[id].status]
  BY <1>1, SequenceFacts DEF IInv, Proposal
<1>7. QED
  BY <1>1, <1>2, <1>3, <1>4, <1>5, <1>6, CallSoFar

LEMMA RunOtherContractSoFar == ASSUME IInv, TxInv, SoFar, RunOtherContract PROVE SoFar'
<1>1. /\ MoreCalls /\ Performed /\ stack' = Advance /\ NextCall.op = "succeed"
      /\ saved' = saved /\ proposals' = proposals /\ time' = time /\ params' = params
  BY DEF RunOtherContract, chainVars
<1>2. stack'[1].id = stack[1].id
  BY <1>1, RootStays
<1>3. Enacted' = Enacted /\ Withdrawn' = Withdrawn
  BY <1>1 DEF Enacted, Withdrawn
<1>4. \A k \in 1 .. 4 : Param(k)' = IF NextCall.op = SetterOf(k) THEN NextCall.arg ELSE Param(k)
  BY <1>1, ParamsStay
<1>5. \A id \in DOMAIN proposals :
        proposals'[id] = [proposals[id] EXCEPT !.status = proposals'[id].status]
  BY <1>1, SequenceFacts DEF IInv, Proposal
<1>6. QED
  BY <1>1, <1>2, <1>3, <1>4, <1>5, CallSoFar

(* A proposal that is open within a transaction was open before it, and is *)
(* decided by the call that writes its status.                             *)
LEMMA DecidedNow ==
  ASSUME IInv, TxInv, ~Idle, NEW id \in DOMAIN proposals, NEW s \in {"Executed", "Canceled"},
         proposals[id].status = "Active", saved' = saved, params' = params,
         proposals' = [proposals EXCEPT ![id].status = s]
  PROVE  /\ DOMAIN proposals' = DOMAIN proposals
         /\ \A j \in DOMAIN proposals :
              proposals'[j] = [proposals[j] EXCEPT !.status = proposals'[j].status]
         /\ Enacted' = IF s = "Executed" THEN Enacted \cup {id} ELSE Enacted
         /\ Withdrawn' = IF s = "Canceled" THEN Withdrawn \cup {id} ELSE Withdrawn
         /\ id \notin Enacted
<1>1. TypeOK /\ s \in Status
  BY DEF IInv, Status
<1>2. /\ DOMAIN proposals' = DOMAIN proposals
      /\ proposals'[id] = [proposals[id] EXCEPT !.status = s]
      /\ \A j \in DOMAIN proposals : j # id => proposals'[j] = proposals[j]
  BY <1>1, StatusChange
<1>3. saved[2][id].status = "Active"
  BY <1>1, DecidingKeeps
<1>4. \A j \in DOMAIN proposals : proposals[j] \in Proposal
  BY <1>1, SequenceFacts
<1>5. proposals'[id].status = s
  BY <1>2, <1>4 DEF Proposal
<1>6. \A j \in DOMAIN proposals :
        proposals'[j] = [proposals[j] EXCEPT !.status = proposals'[j].status]
  <2>1. SUFFICES ASSUME NEW j \in DOMAIN proposals, j # id
                 PROVE  proposals[j] = [proposals[j] EXCEPT !.status = proposals[j].status]
    BY <1>2, <1>5
  <2>2. QED
    BY <1>4 DEF Proposal
<1>7. \A j : j \in Enacted' <=> j \in Enacted \/ (s = "Executed" /\ j = id)
  BY <1>2, <1>3, <1>5 DEF Enacted
<1>8. \A j : j \in Withdrawn' <=> j \in Withdrawn \/ (s = "Canceled" /\ j = id)
  BY <1>2, <1>3, <1>5 DEF Withdrawn
<1>9. id \notin Enacted
  BY DEF Enacted
<1>10. QED
  BY <1>2, <1>6, <1>7, <1>8, <1>9

LEMMA RunCancelSoFar == ASSUME IInv, TxInv, SoFar, RunCancel PROVE SoFar'
<1> DEFINE id == NextCall.arg
<1>1. /\ MoreCalls /\ Performed /\ stack' = Advance /\ ~Idle /\ NextCall.op = "cancel"
      /\ saved' = saved /\ params' = params /\ time' = time
      /\ id \in DOMAIN proposals /\ proposals[id].status = "Active"
      /\ proposals' = [proposals EXCEPT ![id].status = "Canceled"]
  BY DEF RunCancel, AnyoneMayCancel, MoreCalls, chainVars
<1>2. stack'[1].id = stack[1].id
  BY <1>1, RootStays
<1>3. \A k \in 1 .. 4 : Param(k)' = IF NextCall.op = SetterOf(k) THEN NextCall.arg ELSE Param(k)
  BY <1>1, ParamsStay
<1> HIDE DEF id
<1>4. /\ DOMAIN proposals' = DOMAIN proposals
      /\ \A j \in DOMAIN proposals :
           proposals'[j] = [proposals[j] EXCEPT !.status = proposals'[j].status]
      /\ Enacted' = Enacted /\ Withdrawn' = Withdrawn \cup {id}
  BY <1>1, DecidedNow
<1>5. \A j : j \in Withdrawn' <=> j \in Withdrawn \/ (NextCall.op = "cancel" /\ NextCall.arg = j)
  BY <1>1, <1>4 DEF id
<1>6. QED
  BY <1>1, <1>2, <1>3, <1>4, <1>5, CallSoFar

LEMMA RunExecuteSoFar == ASSUME IInv, TxInv, SoFar, RunExecute PROVE SoFar'
<1> DEFINE id == NextCall.arg
           inner == [id |-> id, next |-> 1]
           F == [id : DOMAIN proposals, next : Nat \ {0}]
<1>1. /\ MoreCalls /\ Performed /\ stack' = Append(Advance, inner) /\ ~Idle
      /\ NextCall.op = "execute" /\ TypeOK
      /\ saved' = saved /\ params' = params /\ time' = time
      /\ id \in DOMAIN proposals /\ proposals[id].status = "Active"
      /\ time > proposals[id].endTime /\ Passed(proposals[id])
      /\ proposals' = [proposals EXCEPT ![id].status = "Executed"]
  BY DEF RunExecute, CanExecute, MarkExecuted, MoreCalls, chainVars, IInv
<1>2. \A k \in 1 .. 4 : Param(k)' = IF NextCall.op = SetterOf(k) THEN NextCall.arg ELSE Param(k)
  BY <1>1, ParamsStay
<1>3. inner \in F
  BY <1>1
<1> HIDE DEF id, inner
<1>4. stack'[1].id = stack[1].id
  <2>1. /\ Advance \in Seq(F) /\ Len(Advance) = Len(stack) /\ Len(stack) \in DOMAIN stack
        /\ \A i \in DOMAIN stack : Advance[i].id = stack[i].id
    BY <1>1, AdvanceFacts
  <2>2. DOMAIN stack = 1 .. Len(stack) /\ Len(stack) \in Nat
    BY <1>1, SequenceFacts
  <2> HIDE DEF F
  <2>3. \A i \in 1 .. Len(Advance) : stack'[i] = Advance[i]
    BY <1>1, <1>3, <2>1, AppendProperties
  <2>4. 1 \in DOMAIN stack
    BY <2>1, <2>2
  <2>5. QED
    BY <2>1, <2>2, <2>3, <2>4
<1>5. /\ DOMAIN proposals' = DOMAIN proposals
      /\ \A j \in DOMAIN proposals :
           proposals'[j] = [proposals[j] EXCEPT !.status = proposals'[j].status]
      /\ Enacted' = Enacted \cup {id} /\ Withdrawn' = Withdrawn
  BY <1>1, DecidedNow
<1>6. \A j : j \in Enacted' <=> j \in Enacted \/ (NextCall.op = "execute" /\ NextCall.arg = j)
  BY <1>1, <1>5 DEF id
<1>7. performed[id] = 0
  <2>1. \A i \in DOMAIN stack : stack[i].id # id
    BY <1>1 DEF TypeOK
  <2>2. QED
    BY <1>1, <2>1 DEF IInv, FramesCount
<1>8. QED
  BY <1>1, <1>2, <1>4, <1>5, <1>6, <1>7, CallSoFar

LEMMA ExecuteSoFar ==
  ASSUME IInv, NEW id \in DOMAIN proposals, Execute(id) PROVE SoFar'
<1>1. /\ TypeOK /\ FramesCount /\ Idle /\ proposals[id].status = "Active"
      /\ time > proposals[id].endTime /\ time <= proposals[id].endTime + gracePeriod
      /\ Passed(proposals[id])
      /\ proposals' = [proposals EXCEPT ![id].status = "Executed"]
      /\ stack' = <<[id |-> id, next |-> 1]>>
      /\ saved' = <<params, proposals, performed>>
      /\ params' = params /\ performed' = performed /\ time' = time
  BY DEF IInv, Execute, CanExecute, MarkExecuted, Revertible, chainVars
<1>2. /\ DOMAIN proposals' = DOMAIN proposals
      /\ proposals'[id] = [proposals[id] EXCEPT !.status = "Executed"]
      /\ \A j \in DOMAIN proposals : j # id => proposals'[j] = proposals[j]
  BY <1>1, StatusChange DEF Status
<1>3. stack'[1].id = id /\ saved'[1] = params /\ saved'[2] = proposals
  BY <1>1
<1>4. proposals[id] \in Proposal
  BY <1>1, SequenceFacts
<1>5. /\ proposals'[id].status = "Executed"
      /\ proposals'[id].endTime = proposals[id].endTime
      /\ proposals'[id].votes = proposals[id].votes
      /\ proposals'[id].quorum = proposals[id].quorum
  BY <1>2, <1>4 DEF Proposal
<1>6. Enacted' = {id}
  BY <1>1, <1>2, <1>3, <1>5 DEF Enacted
<1>7. Withdrawn' = {}
  BY <1>1, <1>2, <1>3, <1>5 DEF Withdrawn
<1>8. performed'[id] = 0
  BY <1>1 DEF Idle, FramesCount
<1>9. \A op, x : ~HasRun(op, x)'
  <2>1. SUFFICES ASSUME NEW op, NEW x, HasRun(op, x)' PROVE FALSE
    OBVIOUS
  <2>2. \E i \in 1 .. performed'[id] : TRUE
    BY <1>6, <2>1 DEF HasRun
  <2>3. QED
    BY <1>8, <2>2
<1>10. RootInTime'
  <2>1. params[4] = gracePeriod
    BY DEF params
  <2>2. QED
    BY <1>1, <1>3, <1>5, <1>6, <2>1 DEF RootInTime, SavedParam
<1>11. EnactedCarried'
  <2>1. Passed(proposals'[id])
    BY <1>1, <1>5 DEF Passed, TotalVotes
  <2>2. time' > proposals'[id].endTime
    BY <1>1, <1>5
  <2>3. QED
    BY <1>6, <2>1, <2>2 DEF EnactedCarried, Passed, TotalVotes
<1>12. CallsDecide'
  BY <1>3, <1>6, <1>7, <1>9 DEF CallsDecide
<1>13. SetByCalls'
  <2>1. \A k \in 1 .. 4 : Param(k)' = SavedParam(k)'
    BY <1>1, <1>3 DEF Param, SavedParam
  <2>2. ASSUME NEW k \in 1 .. 4, NEW v, v = Param(k)'
        PROVE  IF \E x : HasRun(SetterOf(k), x)' THEN HasRun(SetterOf(k), v)'
               ELSE v = SavedParam(k)'
    BY <1>9, <2>1, <2>2
  <2>3. QED
    BY <2>2 DEF SetByCalls, SetterOf, HasRun, Param, SavedParam, Promised!SetterOf
<1>14. QED
  BY <1>10, <1>11, <1>12, <1>13 DEF SoFar

(* An inner execution ends: nothing else changes. *)
LEMMA ReturnSoFar == ASSUME IInv, SoFar, Return PROVE SoFar'
<1> DEFINE n == Len(stack)
<1>1. /\ TypeOK /\ ~Idle /\ stack' = SubSeq(stack, 1, n - 1)
      /\ saved' = IF n = 1 THEN <<>> ELSE saved
      /\ UNCHANGED <<params, proposals, performed, time>>
  BY DEF IInv, Return, chainVars
<1>2. n \in Nat /\ DOMAIN stack = 1 .. n /\ TypeOK'
  BY <1>1, SequenceFacts, ReturnIInv DEF IInv
<1>3. SUFFICES ASSUME ~Idle' PROVE SoFar'
  BY DEF SoFar
<1>4. saved' = saved
  <2>1. saved' # <<>>
    BY <1>2, <1>3 DEF TypeOK
  <2>2. QED
    BY <1>1, <2>1
<1>5. 1 <= n - 1
  <2>1. CASE n - 1 < 1
    <3>1. stack' = <<>>
      BY <1>1, <1>2, <2>1
    <3>2. QED
      BY <1>3, <3>1 DEF Idle
  <2>2. QED
    BY <1>2, <2>1
<1>6. stack'[1] = stack[1]
  BY <1>1, <1>2, <1>5
<1>7. Enacted' = Enacted /\ Withdrawn' = Withdrawn
  BY <1>1, <1>4 DEF Enacted, Withdrawn
<1>8. \A op, x : HasRun(op, x)' <=> HasRun(op, x)
  BY <1>1, <1>7 DEF HasRun
<1>9. RootInTime /\ EnactedCarried /\ CallsDecide /\ SetByCalls
  BY <1>1 DEF SoFar
<1>10. RootInTime'
  BY <1>1, <1>4, <1>6, <1>7, <1>9 DEF RootInTime, SavedParam
<1>11. EnactedCarried'
  BY <1>1, <1>7, <1>9 DEF EnactedCarried, Passed, TotalVotes
<1>12. CallsDecide'
  BY <1>6, <1>7, <1>8, <1>9 DEF CallsDecide
<1>13. SetByCalls'
  <2>1. \A k \in 1 .. 4 : Param(k)' = Param(k) /\ SavedParam(k)' = SavedParam(k)
    BY <1>1, <1>4 DEF Param, SavedParam
  <2>2. ASSUME NEW k \in 1 .. 4, NEW v, v = Param(k)'
        PROVE  IF \E x : HasRun(SetterOf(k), x)' THEN HasRun(SetterOf(k), v)'
               ELSE v = SavedParam(k)'
    <3>1. IF \E x : HasRun(SetterOf(k), x) THEN HasRun(SetterOf(k), Param(k))
          ELSE Param(k) = SavedParam(k)
      BY <1>9 DEF SetByCalls
    <3>2. QED
      BY <1>8, <2>1, <2>2, <3>1
  <2>3. QED
    BY <2>2 DEF SetByCalls, SetterOf, HasRun, Param, SavedParam, Promised!SetterOf
<1>14. QED
  BY <1>10, <1>11, <1>12, <1>13 DEF SoFar

LEMMA NextSoFar == ASSUME IInv, TxInv, SoFar, [Next]_vars PROVE SoFar'
<1>1. CASE UNCHANGED vars
  <2>1. UNCHANGED <<params, proposals, performed, time, stack, saved>>
    BY <1>1 DEF vars, chainVars, txVars
  <2>2. QED
    BY <2>1 DEF SoFar, Idle, RootInTime, EnactedCarried, CallsDecide, SetByCalls, Enacted, Withdrawn,
       HasRun, Param, SavedParam, Passed, TotalVotes, SetterOf
<1>2. ASSUME Idle' PROVE SoFar'
  BY <1>2 DEF SoFar
<1>3. ASSUME Idle, stack' = stack PROVE SoFar'
  BY <1>2, <1>3 DEF Idle
<1>4. CASE NextBlock
  BY <1>3, <1>4 DEF NextBlock, txVars
<1>5. ASSUME NEW a \in Accounts, NEW calls \in CallLists, Propose(a, calls) PROVE SoFar'
  BY <1>3, <1>5 DEF Propose, txVars
<1>6. ASSUME NEW a \in Accounts, NEW id \in DOMAIN proposals, Cancel(a, id) PROVE SoFar'
  BY <1>3, <1>6 DEF Cancel, txVars
<1>7. ASSUME NEW a \in Accounts, NEW id \in DOMAIN proposals, NEW type \in VoteType,
             CastVote(a, id, type)
      PROVE  SoFar'
  BY <1>3, <1>7 DEF CastVote, txVars
<1>8. ASSUME NEW id \in DOMAIN proposals, Execute(id) PROVE SoFar'
  BY <1>8, ExecuteSoFar
<1>9. CASE Running
  <2>1. CASE Revert
    BY <1>2, <2>1 DEF Revert, Idle
  <2>2. QED
    BY <1>9, <2>1, RunSetterSoFar, RunOtherContractSoFar, RunExecuteSoFar, RunCancelSoFar,
       ReturnSoFar DEF Running
<1>10. QED
  BY <1>1, <1>4, <1>5, <1>6, <1>7, <1>8, <1>9 DEF Next

LEMMA SoFarHolds == Spec => []SoFar
<1>1. Init => SoFar
  BY DEF Init, SoFar, Idle
<1>2. IInv /\ TxInv /\ SoFar /\ [Next]_vars => SoFar'
  BY NextSoFar
<1>3. QED
  BY <1>1, <1>2, TxInvHolds, Inductive, PTL DEF Spec

-----------------------------------------------------------------------------
(* What each step of the governor is to Referendum. *)
Simulated == Promised!Next \/ UNCHANGED Promised!vars

LEMMA Unseen ==
  ASSUME CommittedProposals' = CommittedProposals, CommittedParams' = CommittedParams,
         time' = time, hasVoted' = hasVoted
  PROVE  Simulated
BY DEF Simulated, Promised!vars

LEMMA StepOfTransaction ==
  ASSUME ~Idle, ~Idle', saved' = saved, time' = time, hasVoted' = hasVoted
  PROVE  Simulated
<1>1. CommittedProposals' = CommittedProposals /\ CommittedParams' = CommittedParams
  BY DEF CommittedProposals, CommittedParams
<1>2. QED
  BY <1>1, Unseen

(* Outside of transactions what is committed is what is there. *)
LEMMA OneStep ==
  ASSUME Idle, stack' = stack
  PROVE  /\ CommittedProposals = proposals /\ CommittedProposals' = proposals'
         /\ CommittedParams = params /\ CommittedParams' = params'
<1>1. Idle'
  BY DEF Idle
<1>2. QED
  BY <1>1 DEF CommittedProposals, CommittedParams

LEMMA InitIsPromised == ASSUME Init PROVE Promised!Init
<1>1. Idle /\ time = 0 /\ proposals = <<>> /\ hasVoted = {}
  BY DEF Init, Idle
<1>2. CommittedProposals = <<>> /\ CommittedParams = params
  BY <1>1 DEF CommittedProposals, CommittedParams
<1>3. /\ votingPeriodBlocks \in Nat /\ quorumRequired \in Nat
      /\ proposalThreshold \in Nat /\ gracePeriod \in Nat
  BY GovernorAssumption DEF Init
<1>4. ASSUME NEW k \in DOMAIN Promised!SetterOf PROVE params[k] \in Nat
  <2>1. k = 1 \/ k = 2 \/ k = 3 \/ k = 4
    BY <1>4 DEF Promised!SetterOf
  <2>2. QED
    BY <1>3, <2>1 DEF params
<1>5. QED
  BY <1>1, <1>2, <1>4 DEF Promised!Init

LEMMA NextBlockIsPass == ASSUME IInv, NextBlock PROVE Promised!Pass
<1>1. Idle /\ stack' = stack /\ UNCHANGED <<params, proposals, hasVoted>>
      /\ \E seconds \in BlockTimes : time' = time + seconds
  BY DEF NextBlock, txVars
<1>2. time' >= time
  BY <1>1, GovernorAssumption DEF IInv, TypeOK
<1>3. QED
  BY <1>1, <1>2, OneStep DEF Promised!Pass

LEMMA ProposeIsTable ==
  ASSUME IInv, NEW a \in Accounts, NEW calls \in CallLists, Propose(a, calls)
  PROVE  Promised!Table
<1> DEFINE p == [proposer |-> a, snapshotBlock |-> block - 1,
                 endTime |-> EndTime, status |-> "Active", quorum |-> quorumRequired,
                 calls |-> calls, votes |-> [type \in VoteType |-> 0]]
<1>1. Idle /\ stack' = stack /\ proposals' = Append(proposals, p)
      /\ UNCHANGED <<time, params, hasVoted>> /\ TypeOK
  BY DEF Propose, chainVars, txVars, IInv
<1>2. EndTime >= time
  <2>1. time \in Nat /\ votingPeriodBlocks \in Nat
    BY <1>1 DEF TypeOK, params
  <2>2. votingPeriodBlocks * SecondsPerBlock \in Nat /\ MaxUint64 + 1 \in Nat \ {0}
    BY <2>1, GovernorAssumption
  <2> DEFINE span == votingPeriodBlocks * SecondsPerBlock
             wide == MaxUint64 + 1
  <2> HIDE DEF span, wide
  <2>3. span % wide \in Nat
    BY <2>2 DEF span, wide
  <2>4. EndTime = time + (span % wide)
    BY DEF EndTime, span, wide
  <2> HIDE DEF EndTime
  <2>5. QED
    BY <2>1, <2>3, <2>4
<1>3. /\ p.status = "Active" /\ p.quorum = quorumRequired /\ p.endTime = EndTime
      /\ \A type \in {"for", "against", "abstain"} : p.votes[type] = 0
  BY DEF VoteType
<1> HIDE DEF p
<1>4. proposals'[Len(proposals')] = p
  BY <1>1, SequenceFacts
<1>5. params[2] = quorumRequired
  BY DEF params
<1>6. QED
  BY <1>1, <1>2, <1>3, <1>4, <1>5, OneStep DEF Promised!Table, Promised!Quorum

LEMMA CastVoteIsVote ==
  ASSUME IInv, NEW v \in Accounts, NEW id \in DOMAIN proposals, NEW type \in VoteType,
         CastVote(v, id, type)
  PROVE  Promised!Vote
<1>1. /\ Idle /\ stack' = stack /\ proposals[id].status = "Active" /\ TypeOK
      /\ time <= proposals[id].endTime
      /\ <<id, v>> \notin hasVoted /\ Weight(v, id) > 0
      /\ hasVoted' = hasVoted \cup {<<id, v>>}
      /\ proposals' = [proposals EXCEPT ![id].votes[type] = @ + Weight(v, id)]
      /\ UNCHANGED <<time, params>>
  BY DEF CastVote, chainVars, txVars, IInv
<1> DEFINE Given == (UNION {Range(votes) : votes \in VoteDistributions}) \ {0}
<1>2. Weight(v, id) \in Given
  <2>1. proposals[id].snapshotBlock \in DOMAIN pastVotes
    BY DEF IInv, SnapshotsArePast
  <2>2. pastVotes[proposals[id].snapshotBlock] \in VoteDistributions
    BY <1>1, <2>1, SequenceFacts DEF TypeOK
  <2>3. PICK votes \in VoteDistributions : votes = pastVotes[proposals[id].snapshotBlock]
    BY <2>2
  <2>4. votes \in [Accounts -> Nat] /\ Weight(v, id) = votes[v]
    BY <2>3, GovernorAssumption DEF Weight, GetPastVotes
  <2>5. votes[v] \in Range(votes)
    BY <2>4 DEF Range
  <2>6. Weight(v, id) # 0
    BY <1>1, <2>4
  <2>7. QED
    BY <2>3, <2>4, <2>5, <2>6
<1>3. type \in {"for", "against", "abstain"}
  BY DEF VoteType
<1>4. PICK weight \in Given : weight = Weight(v, id)
  BY <1>2
<1>5. CommittedProposals' = [CommittedProposals EXCEPT ![id].votes[type] = @ + weight]
  BY <1>1, <1>4, OneStep
<1>6. QED
  BY <1>1, <1>3, <1>4, <1>5, OneStep DEF Promised!Vote, Promised!Open

LEMMA CancelIsWithdraw ==
  ASSUME IInv, NEW a \in Accounts, NEW id \in DOMAIN proposals, Cancel(a, id)
  PROVE  Promised!Withdraw
<1>1. /\ Idle /\ stack' = stack /\ proposals[id].status = "Active" /\ TypeOK
      /\ proposals' = [proposals EXCEPT ![id].status = "Canceled"]
      /\ UNCHANGED <<time, params, hasVoted>>
  BY DEF Cancel, chainVars, txVars, IInv
<1>2. proposals' = [j \in DOMAIN proposals |->
                      IF j = id THEN [proposals[j] EXCEPT !.status = "Canceled"] ELSE proposals[j]]
  BY <1>1
<1>3. /\ CommittedProposals = proposals /\ CommittedProposals' = proposals'
      /\ CommittedParams' = CommittedParams
  BY <1>1, OneStep
<1>4. CommittedProposals' = Promised!Decided({}, {id})
  BY <1>2, <1>3 DEF Promised!Decided
<1>5. id \in Promised!Open
  BY <1>1, <1>3 DEF Promised!Open
<1>6. QED
  BY <1>1, <1>3, <1>4, <1>5 DEF Promised!Withdraw

(* When the outermost execution ends, all calls of what it enacted have    *)
(* run, so Referendum's Args are what has run.                             *)
LEMMA EnactedAreDone ==
  ASSUME IInv, Return, Idle'
  PROVE  \A id \in Enacted : performed[id] = Len(proposals[id].calls)
<1> DEFINE n == Len(stack)
<1>1. TypeOK /\ FramesCount /\ ~Idle /\ ~MoreCalls /\ stack' = SubSeq(stack, 1, n - 1)
  BY DEF IInv, Return
<1>2. /\ n \in Nat /\ DOMAIN stack = 1 .. n
      /\ \A i \in DOMAIN stack : stack[i] \in [id : DOMAIN proposals, next : Nat \ {0}]
  BY <1>1, SequenceFacts
<1>3. n = 1
  <2>1. n # 0
    BY <1>1, <1>2, EmptySeq DEF Idle, TypeOK
  <2>2. CASE n > 1
    <3>1. 1 \in DOMAIN stack'
      BY <1>1, <1>2, <2>2
    <3>2. QED
      BY <3>1 DEF Idle
  <2>3. QED
    BY <1>2, <2>1, <2>2
<1>4. SUFFICES ASSUME NEW id \in Enacted PROVE performed[id] = Len(proposals[id].calls)
  OBVIOUS
<1>5. id \in DOMAIN proposals /\ proposals[id].status = "Executed"
  BY DEF Enacted
<1>6. CASE stack[1].id = id
  <2>1. /\ stack[1].next <= Len(proposals[id].calls) + 1 /\ performed[id] = stack[1].next - 1
        /\ stack[1].next \in Nat
    BY <1>1, <1>2, <1>3, <1>6 DEF FramesCount
  <2>2. ~(stack[1].next <= Len(proposals[id].calls))
    BY <1>1, <1>3, <1>6 DEF MoreCalls, Frame
  <2>3. Len(proposals[id].calls) \in Nat
    <3>1. proposals[id].calls \in Seq(Call)
      BY <1>1, <1>5, SequenceFacts, CallAssumption DEF Proposal
    <3>2. QED
      BY <3>1, LenProperties
  <2>4. QED
    BY <2>1, <2>2, <2>3
<1>7. CASE stack[1].id # id
  BY <1>1, <1>2, <1>3, <1>5, <1>7 DEF FramesCount
<1>8. QED
  BY <1>6, <1>7

LEMMA ArgsHaveRun ==
  ASSUME IInv, Return, Idle', NEW op
  PROVE  \A x : x \in Promised!Args(Enacted, op) <=> HasRun(op, x)
<1>1. /\ TypeOK /\ SavedIsConsistent /\ ~Idle
  BY DEF IInv, Return
<1>2. CommittedProposals = saved[2]
  BY <1>1 DEF CommittedProposals
<1>3. ASSUME NEW id \in Enacted
      PROVE  /\ saved[2][id].calls = proposals[id].calls
             /\ DOMAIN proposals[id].calls = 1 .. performed[id]
  <2>1. /\ id \in DOMAIN proposals /\ proposals[id] \in Proposal
        /\ saved[2][id] = [proposals[id] EXCEPT !.status = saved[2][id].status]
    BY <1>1, SequenceFacts DEF Enacted, SavedIsConsistent
  <2>2. PICK p \in Proposal : p = proposals[id]
    BY <2>1
  <2>3. PICK q : q = saved[2][id]
    OBVIOUS
  <2>4. q = [p EXCEPT !.status = q.status]
    BY <2>1, <2>2, <2>3
  <2>5. q.calls = p.calls
    BY <2>4 DEF Proposal
  <2>6. p.calls \in Seq(Call)
    BY <2>2, CallAssumption DEF Proposal
  <2>7. DOMAIN p.calls = 1 .. Len(p.calls)
    BY <2>6, LenProperties
  <2>8. QED
    BY <2>2, <2>3, <2>5, <2>7, EnactedAreDone
<1>4. SUFFICES ASSUME NEW x PROVE x \in Promised!Args(Enacted, op) <=> HasRun(op, x)
  OBVIOUS
<1>5. x \in Promised!Args(Enacted, op)
        <=> \E id \in Enacted : \E i \in DOMAIN saved[2][id].calls :
              saved[2][id].calls[i].op = op /\ x = saved[2][id].calls[i].arg
  BY <1>2 DEF Promised!Args
<1>6. HasRun(op, x) <=> \E id \in Enacted : \E i \in 1 .. performed[id] :
        proposals[id].calls[i].op = op /\ proposals[id].calls[i].arg = x
  BY DEF HasRun
<1>7. QED
  BY <1>3, <1>5, <1>6

(* A decided proposal differs from the saved one as Referendum decides.    *)
LEMMA CommitDecides ==
  ASSUME IInv, TxInv, ~Idle
  PROVE  /\ DOMAIN saved[2] = DOMAIN proposals
         /\ \A id \in DOMAIN proposals :
              proposals[id] = IF id \in Enacted THEN [saved[2][id] EXCEPT !.status = "Executed"]
                              ELSE IF id \in Withdrawn THEN [saved[2][id] EXCEPT !.status = "Canceled"]
                              ELSE saved[2][id]
         /\ proposals = [id \in DOMAIN proposals |-> proposals[id]]
         /\ \A id \in DOMAIN proposals :
              /\ saved[2][id].endTime = proposals[id].endTime
              /\ saved[2][id].votes = proposals[id].votes
              /\ saved[2][id].quorum = proposals[id].quorum
<1>1. TypeOK /\ SavedIsConsistent /\ DecidedBeforeKept
  BY DEF IInv, TxInv
<1>2. DOMAIN saved[2] = DOMAIN proposals
  BY <1>1 DEF SavedIsConsistent
<1>3. proposals = [id \in DOMAIN proposals |-> proposals[id]]
  BY <1>1 DEF TypeOK
<1>4. ASSUME NEW id \in DOMAIN proposals
      PROVE  /\ proposals[id] = IF id \in Enacted THEN [saved[2][id] EXCEPT !.status = "Executed"]
                                ELSE IF id \in Withdrawn THEN [saved[2][id] EXCEPT !.status = "Canceled"]
                                ELSE saved[2][id]
             /\ saved[2][id].endTime = proposals[id].endTime
             /\ saved[2][id].votes = proposals[id].votes
             /\ saved[2][id].quorum = proposals[id].quorum
  <2>1. /\ proposals[id] \in Proposal
        /\ saved[2][id] = [proposals[id] EXCEPT !.status = saved[2][id].status]
        /\ saved[2][id].status # "Active" => proposals[id].status = saved[2][id].status
    BY <1>1, SequenceFacts DEF SavedIsConsistent, DecidedBeforeKept
  <2>2. PICK p \in Proposal : p = proposals[id]
    BY <2>1
  <2>3. PICK q : q = saved[2][id]
    OBVIOUS
  <2>4. q = [p EXCEPT !.status = q.status]
    BY <2>1, <2>2, <2>3
  <2>5. /\ q.endTime = p.endTime /\ q.votes = p.votes /\ q.quorum = p.quorum
        /\ p = [q EXCEPT !.status = p.status]
    BY <2>4 DEF Proposal
  <2>6. p.status \in {"Active", "Executed", "Canceled"}
    BY DEF Proposal, Status
  <2>7. id \in Enacted <=> q.status = "Active" /\ p.status = "Executed"
    BY <2>2, <2>3 DEF Enacted
  <2>8. id \in Withdrawn <=> q.status = "Active" /\ p.status = "Canceled"
    BY <2>2, <2>3 DEF Withdrawn
  <2>9. q.status = p.status => q = p
    BY <2>4 DEF Proposal
  <2>10. p = IF id \in Enacted THEN [q EXCEPT !.status = "Executed"]
             ELSE IF id \in Withdrawn THEN [q EXCEPT !.status = "Canceled"]
             ELSE q
    BY <2>1, <2>2, <2>3, <2>5, <2>6, <2>7, <2>8, <2>9
  <2>11. QED
    BY <2>2, <2>3, <2>5, <2>10
<1>5. QED
  BY <1>2, <1>3, <1>4

LEMMA CommitIsEnact ==
  ASSUME IInv, TxInv, SoFar, Return, Idle'
  PROVE  Promised!Enact
<1>1. /\ ~Idle /\ UNCHANGED <<time, params, proposals, hasVoted>>
      /\ RootInTime /\ EnactedCarried /\ CallsDecide /\ SetByCalls
  BY DEF Return, chainVars, SoFar
<1>2. /\ CommittedProposals = saved[2] /\ CommittedProposals' = proposals
      /\ CommittedParams = saved[1] /\ CommittedParams' = params
  BY <1>1 DEF CommittedProposals, CommittedParams
<1>3. /\ DOMAIN saved[2] = DOMAIN proposals
      /\ \A id \in DOMAIN proposals :
           proposals[id] = IF id \in Enacted THEN [saved[2][id] EXCEPT !.status = "Executed"]
                           ELSE IF id \in Withdrawn THEN [saved[2][id] EXCEPT !.status = "Canceled"]
                           ELSE saved[2][id]
      /\ proposals = [id \in DOMAIN proposals |-> proposals[id]]
      /\ \A id \in DOMAIN proposals :
           /\ saved[2][id].endTime = proposals[id].endTime
           /\ saved[2][id].votes = proposals[id].votes
           /\ saved[2][id].quorum = proposals[id].quorum
  BY <1>1, CommitDecides
<1>4. \A op, x : x \in Promised!Args(Enacted, op) <=> HasRun(op, x)
  BY ArgsHaveRun
<1>5. Enacted \in SUBSET Promised!Open /\ Withdrawn \in SUBSET Promised!Open
  BY <1>2, <1>3 DEF Promised!Open, Enacted, Withdrawn
<1>6. PICK root \in Promised!Open : root = stack[1].id
  BY <1>1, <1>5 DEF RootInTime
<1>7. time <= CommittedProposals[root].endTime + CommittedParams[4]
  <2>1. root \in DOMAIN proposals
    BY <1>1, <1>6 DEF RootInTime, Enacted
  <2>2. time <= proposals[root].endTime + saved[1][4]
    BY <1>1, <1>6 DEF RootInTime, SavedParam
  <2>3. QED
    BY <1>2, <1>3, <2>1, <2>2
<1>8. /\ Enacted = {root} \cup Promised!Args(Enacted, "execute")
      /\ Withdrawn = Promised!Args(Enacted, "cancel")
      /\ Promised!Args(Enacted, "fail") = {}
  BY <1>1, <1>4, <1>6 DEF CallsDecide
<1>9. Enacted \cap Withdrawn = {}
  BY DEF Enacted, Withdrawn
<1>10. \A id \in Enacted : Promised!Carried(CommittedProposals[id])
  <2>1. SUFFICES ASSUME NEW id \in Enacted
                 PROVE  Promised!Carried(saved[2][id])
    BY <1>2
  <2>2. id \in DOMAIN proposals /\ time > proposals[id].endTime /\ Passed(proposals[id])
    BY <1>1 DEF EnactedCarried, Enacted
  <2>3. QED
    BY <1>3, <2>2 DEF Promised!Carried, Passed, TotalVotes
<1>11. CommittedProposals' = Promised!Decided(Enacted, Withdrawn)
  BY <1>2, <1>3 DEF Promised!Decided
<1>12. \A k \in DOMAIN Promised!SetterOf :
         LET new == Promised!Args(Enacted, Promised!SetterOf[k])
         IN  CommittedParams'[k] \in IF new = {} THEN {CommittedParams[k]} ELSE new
  <2>1. SUFFICES ASSUME NEW k \in 1 .. 4
                 PROVE  LET new == Promised!Args(Enacted, SetterOf(k))
                        IN  params[k] \in IF new = {} THEN {saved[1][k]} ELSE new
    BY <1>2 DEF SetterOf, Promised!SetterOf
  <2>2. IF \E x : HasRun(SetterOf(k), x) THEN HasRun(SetterOf(k), params[k])
        ELSE params[k] = saved[1][k]
    BY <1>1 DEF SetByCalls, Param, SavedParam
  <2>3. QED
    BY <1>4, <2>2
<1>13. /\ time <= CommittedProposals[root].endTime + CommittedParams[Promised!Grace]
       /\ time' = time /\ hasVoted' = hasVoted
  BY <1>1, <1>7 DEF Promised!Grace
<1>14. QED
  BY <1>5, <1>8, <1>9, <1>10, <1>11, <1>12, <1>13 DEF Promised!Enact

LEMMA ExecuteIsUnseen ==
  ASSUME IInv, NEW id \in DOMAIN proposals, Execute(id) PROVE Simulated
<1>1. /\ Idle /\ stack' = <<[id |-> id, next |-> 1]>> /\ saved' = <<params, proposals, performed>>
      /\ time' = time /\ hasVoted' = hasVoted
  BY DEF Execute, Revertible, chainVars
<1>2. ~Idle' /\ saved'[1] = params /\ saved'[2] = proposals
  BY <1>1 DEF Idle
<1>3. CommittedProposals' = CommittedProposals /\ CommittedParams' = CommittedParams
  BY <1>1, <1>2 DEF CommittedProposals, CommittedParams
<1>4. QED
  BY <1>1, <1>3, Unseen

LEMMA RevertIsUnseen == ASSUME IInv, Revert PROVE Simulated
<1>1. ~Idle /\ Idle' /\ proposals' = saved[2] /\ time' = time /\ hasVoted' = hasVoted
  BY DEF Revert, RestoreSaved, MoreCalls, Idle, chainVars
<1>2. saved[1] \in Nat \X Nat \X Nat \X Nat
  BY <1>1 DEF IInv, SavedIsConsistent
<1>3. params' = saved[1]
  BY <1>2 DEF Revert, RestoreSaved, params
<1>4. CommittedProposals' = CommittedProposals /\ CommittedParams' = CommittedParams
  BY <1>1, <1>3 DEF CommittedProposals, CommittedParams
<1>5. QED
  BY <1>1, <1>4, Unseen

LEMMA CallIsUnseen ==
  ASSUME IInv, TxInv, RunSetter \/ RunOtherContract \/ RunExecute \/ RunCancel
  PROVE  Simulated
<1>1. /\ MoreCalls /\ Performed /\ saved' = saved /\ time' = time /\ hasVoted' = hasVoted
      /\ stack' = Advance \/ \E inner \in [id : DOMAIN proposals, next : Nat \ {0}] :
                               stack' = Append(Advance, inner)
  <2>1. CASE RunSetter
    BY <2>1 DEF RunSetter, chainVars
  <2>2. CASE RunOtherContract
    BY <2>2 DEF RunOtherContract, chainVars
  <2>3. CASE RunExecute
    <3>1. PICK inner : inner = [id |-> NextCall.arg, next |-> 1]
      OBVIOUS
    <3>2. inner \in [id : DOMAIN proposals, next : Nat \ {0}]
      BY <2>3, <3>1 DEF RunExecute, CanExecute
    <3>3. QED
      BY <2>3, <3>1, <3>2 DEF RunExecute, chainVars
  <2>4. CASE RunCancel
    BY <2>4 DEF RunCancel, chainVars
  <2>5. QED
    BY <2>1, <2>2, <2>3, <2>4
<1>2. ~Idle /\ Advance \in Seq([id : DOMAIN proposals, next : Nat \ {0}])
  BY <1>1, AdvanceFacts DEF MoreCalls
<1>3. ~Idle'
  <2>1. CASE stack' = Advance
    BY <1>1, <2>1, SameStack
  <2>2. ASSUME NEW inner \in [id : DOMAIN proposals, next : Nat \ {0}],
               stack' = Append(Advance, inner)
        PROVE  ~Idle'
    <3> DEFINE F == [id : DOMAIN proposals, next : Nat \ {0}]
    <3>1. Advance \in Seq(F) /\ inner \in F
      BY <1>2, <2>2
    <3> HIDE DEF F
    <3>2. Append(Advance, inner) # <<>>
      BY <3>1, AppendProperties
    <3>3. QED
      BY <2>2, <3>2 DEF Idle
  <2>3. QED
    BY <1>1, <2>1, <2>2
<1>4. QED
  BY <1>1, <1>2, <1>3, StepOfTransaction

LEMMA ReturnIsPromised == ASSUME IInv, TxInv, SoFar, Return PROVE Simulated
<1>1. CASE Idle'
  BY <1>1, CommitIsEnact DEF Simulated, Promised!Next
<1>2. CASE ~Idle'
  <2>1. /\ ~Idle /\ saved' = IF Len(stack) = 1 THEN <<>> ELSE saved
        /\ time' = time /\ hasVoted' = hasVoted
    BY DEF Return, chainVars
  <2>2. TypeOK'
    BY ReturnIInv DEF IInv
  <2>3. saved' = saved
    BY <1>2, <2>1, <2>2 DEF TypeOK
  <2>4. QED
    BY <1>2, <2>1, <2>3, StepOfTransaction
<1>3. QED
  BY <1>1, <1>2

LEMMA NextIsPromised == ASSUME IInv, TxInv, SoFar, [Next]_vars PROVE Simulated
<1>1. CASE UNCHANGED vars
  <2>1. UNCHANGED <<params, proposals, stack, saved, time, hasVoted>>
    BY <1>1 DEF vars, txVars, chainVars
  <2>2. CommittedProposals' = CommittedProposals /\ CommittedParams' = CommittedParams
    BY <2>1 DEF CommittedProposals, CommittedParams, Idle
  <2>3. QED
    BY <2>1, <2>2, Unseen
<1>2. CASE NextBlock
  BY <1>2, NextBlockIsPass DEF Simulated, Promised!Next
<1>3. ASSUME NEW a \in Accounts, NEW calls \in CallLists, Propose(a, calls) PROVE Simulated
  BY <1>3, ProposeIsTable DEF Simulated, Promised!Next
<1>4. ASSUME NEW a \in Accounts, NEW id \in DOMAIN proposals, Cancel(a, id) PROVE Simulated
  BY <1>4, CancelIsWithdraw DEF Simulated, Promised!Next
<1>5. ASSUME NEW a \in Accounts, NEW id \in DOMAIN proposals, NEW type \in VoteType,
             CastVote(a, id, type)
      PROVE  Simulated
  BY <1>5, CastVoteIsVote DEF Simulated, Promised!Next
<1>6. ASSUME NEW id \in DOMAIN proposals, Execute(id) PROVE Simulated
  BY <1>6, ExecuteIsUnseen
<1>7. CASE Running
  BY <1>7, CallIsUnseen, RevertIsUnseen, ReturnIsPromised DEF Running
<1>8. QED
  BY <1>1, <1>2, <1>3, <1>4, <1>5, <1>6, <1>7 DEF Next

(* Executions nest, call back and fail in any way, but what is committed   *)
(* is always what Referendum, which has no executions in progress, allows: *)
(* a motion is enacted with all it calls for, or nothing happens.          *)
THEOREM GovernorImplementsReferendum == Spec => ImplementsReferendum
<1>1. Init => Promised!Init
  BY InitIsPromised
<1>2. IInv /\ TxInv /\ SoFar /\ [Next]_vars => [Promised!Next]_(Promised!vars)
  BY NextIsPromised DEF Simulated
<1>3. QED
  BY <1>1, <1>2, SoFarHolds, TxInvHolds, Inductive, PTL
     DEF Spec, ImplementsReferendum, Promised!Spec
=============================================================================
