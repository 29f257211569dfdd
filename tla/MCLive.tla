------------------------------- MODULE MCLive -------------------------------
(* A hub with room for one event and one message, one change of address. *)
EXTENDS LiveTransactions
=============================================================================
