------------------------- MODULE MCBillingDispatch -------------------------
(***************************************************************************)
(* Small instances of BillingDispatch: two references of one client, whose *)
(* accounts fall on the same day, and so in one dispatch, or on two days.  *)
(***************************************************************************)
EXTENDS BillingDispatch, TLC

Symmetry == Permutations(References) \cup Permutations(Workers)
=============================================================================
