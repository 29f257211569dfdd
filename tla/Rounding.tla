------------------------------ MODULE Rounding ------------------------------
(***************************************************************************)
(* Integer arithmetic of V2AMM.sol that rounds down, of no particular width.*)
(***************************************************************************)
EXTENDS Integers

(* Rounded-down square root of a product: what the loop of _sqrt computes. *)
Sqrt(x) == CHOOSE y \in 0 .. x : y * y <= x /\ x < (y + 1) * (y + 1)

(* amount's part of a side that holds `whole`, in shares of total.  Used   *)
(* for the LP a deposit earns and for the tokens LP redeems.               *)
ProRata(amount, whole, total) == (amount * whole) \div total

Lesser(x, y) == IF x < y THEN x ELSE y

=============================================================================
