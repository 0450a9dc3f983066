------------------------------ MODULE MCTimer ------------------------------
(* Instances of Timer for TLC.                                              *)
EXTENDS Timer

\* None, one tick, a time that is not a multiple of a tick, and three ticks.
MCTimesLong == {0, 2, 5, 6}

\* A value below the length of a tick.
MCTimesShort == {0, 1, 2}

=============================================================================
