----------------------------- MODULE MCFlagZone -----------------------------
(* Two players of the west, none of the east, whose flag is captured too.  *)
EXTENDS FlagZone

CONSTANTS u1, u2

WestUnits == {u1, u2}
WestOnly == [u \in WestUnits |-> "west"]
=============================================================================
