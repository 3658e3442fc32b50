-------------------------- MODULE MCOpflExtension --------------------------
(***************************************************************************)
(* Two sessions of two players in two missions.  Players are               *)
(* interchangeable, so the first session is taken to be of a chosen one:   *)
(* whose it is never changes, and what is left out is a copy of the rest   *)
(* with the players exchanged.                                             *)
(***************************************************************************)
EXTENDS OpflExtension

FirstPlayer == player[1] \in {NoOne, CHOOSE p \in Players : TRUE}
=============================================================================
