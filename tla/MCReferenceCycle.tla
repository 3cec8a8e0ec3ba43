-------------------------- MODULE MCReferenceCycle --------------------------
(***************************************************************************)
(* Small instances of ReferenceCycle.  The dates are the ends of January   *)
(* and of February 2024, where a month is too short for its anchor.        *)
(***************************************************************************)
EXTENDS ReferenceCycle

January31 == [month |-> 0, day |-> 31]
January30 == [month |-> 0, day |-> 30]
February29 == [month |-> 1, day |-> 29]
MarchFirst == [month |-> 2, day |-> 1]

LateDates == {January30, MarchFirst}
TypedDates == {January31, February29}
=============================================================================
