---------------------------- MODULE MCMemCursor ----------------------------
(***************************************************************************)
(* MemCursor for TLC.                                                      *)
(***************************************************************************)
EXTENDS MemCursor

\* Two words of memory, at the two ends of a short range.
TwoAddrs == {3, 7}
=============================================================================
