----------------------------- MODULE MCDateTime -----------------------------
(* Ends of months and years, with and without a leap day, and the start of *)
(* the calendar.                                                           *)
EXTENDS DateTime

At(y, m, d, h, min, s, ms) ==
  [year |-> y, month |-> m, day |-> d,
   hour |-> h, minute |-> min, second |-> s, millisecond |-> ms]

Edges ==
  {At(1999, 12, 31, 23, 59, 59, 999), At(2000, 2, 28, 0, 0, 0, 0),
   At(1900, 2, 28, 23, 59, 59, 999), At(2004, 2, 29, 12, 0, 0, 1),
   At(2001, 1, 1, 0, 0, 0, 0), At(2019, 7, 31, 1, 1, 1, 1), At(1, 1, 2, 0, 0, 0, 0)}

Steps == {0, 1, 24, 59, 366, 1000, 4001}
=============================================================================
