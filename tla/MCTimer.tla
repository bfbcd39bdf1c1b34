-------------------------------- MODULE MCTimer --------------------------------
(* Instances of Timer for TLC.                                             *)
EXTENDS Timer, TLC

CONSTANTS h1, h2, s1, s2

MCHard == {h1, h2}
MCSoft == {s1, s2}

TimerSymmetry == Permutations(MCHard) \cup Permutations(MCSoft)
===============================================================================
