---------------------------- MODULE MCV2Governor ----------------------------
(***************************************************************************)
(* Two accounts, two proposals.  The votes of alice may move to bob between *)
(* two blocks.  Proposals carry a change of parameters that fails later,   *)
(* one that lets others expire or revive, and re-entrant calls that fail   *)
(* or succeed.                                                             *)
(***************************************************************************)
EXTENDS V2Governor, TLC

CONSTANTS alice, bob

MCVoteDistributions ==
  {(alice :> 2 @@ bob :> 1), (alice :> 0 @@ bob :> 3)}

To(op, arg) == [op |-> op, arg |-> arg]
MCCallLists ==
  {<<To("setQuorumRequired", 3), To("cancel", 2)>>,
   <<To("setGracePeriod", 15), To("setProposalThreshold", 3)>>,
   <<To("execute", 1), To("execute", 2)>>,
   <<To("execute", 1), To("setQuorumRequired", 1)>>,
   <<To("setVotingPeriodBlocks", 2), To("succeed", 0), To("fail", 0)>>}
=============================================================================
