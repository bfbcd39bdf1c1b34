----------------------------- MODULE MCThreadLife -----------------------------
(* Instances of ThreadLife for TLC.                                        *)
EXTENDS ThreadLife, TLC

CONSTANTS t1, t2

MCThreads == {t1, t2}
===============================================================================
