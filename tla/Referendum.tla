----------------------------- MODULE Referendum -----------------------------
(***************************************************************************)
(* What the governor promises: motions are tabled, voted on and enacted,   *)
(* and whatever a transaction does happens at once.  An enacted motion     *)
(* takes with it the motions it calls execute for, theirs, and so on; all  *)
(* of their calls have their effect, or nothing happens.  Who may table or *)
(* withdraw a motion, and what other contracts do, is left open.           *)
(***************************************************************************)
EXTENDS Integers, Sequences

CONSTANTS
  Voters,  \* accounts
  Weights  \* votes an account may have had at a snapshot

VARIABLES
  now,      \* time
  motions,  \* sequence of records with calls, endTime, quorum, votes, status
  settings, \* the parameters, in the order of SetterOf
  ballots   \* pairs <<motion, voter>>

vars == <<now, motions, settings, ballots>>

SetterOf ==
  <<"setVotingPeriodBlocks", "setQuorumRequired", "setProposalThreshold", "setGracePeriod">>
Quorum == 2
Grace == 4

Init ==
  /\ now = 0 /\ motions = <<>> /\ ballots = {}
  /\ \A k \in DOMAIN SetterOf : settings[k] \in Nat

Open == {id \in DOMAIN motions : motions[id].status = "Active"}

Carried(m) ==
  /\ now > m.endTime
  /\ m.votes["for"] > m.votes["against"]
  /\ m.votes["for"] + m.votes["against"] + m.votes["abstain"] >= m.quorum

-----------------------------------------------------------------------------
Pass ==
  /\ now' >= now
  /\ UNCHANGED <<motions, settings, ballots>>

(* A new motion needs the quorum of the day, whatever becomes of it later. *)
Table ==
  LET m == motions'[Len(motions')] IN
  /\ motions' = Append(motions, m)
  /\ m.status = "Active" /\ m.quorum = settings[Quorum] /\ m.endTime >= now
  /\ \A type \in {"for", "against", "abstain"} : m.votes[type] = 0
  /\ UNCHANGED <<now, settings, ballots>>

Vote ==
  \E id \in Open, v \in Voters, type \in {"for", "against", "abstain"}, weight \in Weights :
    /\ now <= motions[id].endTime
    /\ <<id, v>> \notin ballots /\ ballots' = ballots \cup {<<id, v>>}
    /\ motions' = [motions EXCEPT ![id].votes[type] = @ + weight]
    /\ UNCHANGED <<now, settings>>

Decided(enacted, withdrawn) ==
  [id \in DOMAIN motions |->
     IF id \in enacted THEN [motions[id] EXCEPT !.status = "Executed"]
     ELSE IF id \in withdrawn THEN [motions[id] EXCEPT !.status = "Canceled"]
     ELSE motions[id]]

Withdraw ==
  \E id \in Open :
    /\ motions' = Decided({}, {id})
    /\ UNCHANGED <<now, settings, ballots>>

-----------------------------------------------------------------------------
(* What the calls of some motions are given: to set, execute or cancel.    *)
Args(ids, op) ==
  UNION {{motions[id].calls[i].arg : i \in {j \in DOMAIN motions[id].calls :
                                              motions[id].calls[j].op = op}} : id \in ids}

(* Everything an enacted motion calls for, in one step: nothing fails, and *)
(* of several calls that set a parameter one has the last word.            *)
Enact ==
  \E root \in Open : \E enacted, withdrawn \in SUBSET Open :
    /\ now <= motions[root].endTime + settings[Grace]
    /\ enacted = {root} \cup Args(enacted, "execute")
    /\ withdrawn = Args(enacted, "cancel")
    /\ enacted \cap withdrawn = {}
    /\ Args(enacted, "fail") = {}
    /\ \A id \in enacted : Carried(motions[id])
    /\ motions' = Decided(enacted, withdrawn)
    /\ \A k \in DOMAIN SetterOf :
         LET new == Args(enacted, SetterOf[k])
         IN settings'[k] \in IF new = {} THEN {settings[k]} ELSE new
    /\ UNCHANGED <<now, ballots>>

Next == Pass \/ Table \/ Vote \/ Withdraw \/ Enact

Spec == Init /\ [][Next]_vars
=============================================================================
