------------------------------ MODULE MCSmallMem ------------------------------
(***************************************************************************)
(* Small instances of SmallMem.  A unit is four bytes: alignment 2, header *)
(* 4 and MIN_SIZE 3 are the 8, 16 and 12 bytes of the 32-bit build.        *)
(***************************************************************************)
EXTENDS SmallMem

SmallSizes == {0, 1, 5, 8, 11, 16}
===============================================================================
