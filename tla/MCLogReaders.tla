---------------------------- MODULE MCLogReaders ----------------------------
(***************************************************************************)
(* LogReaders for TLC.                                                     *)
(***************************************************************************)
EXTENDS LogReaders, TLC

\* Keys are told apart only by being the same or not.
Interchangeable == Permutations(Keys)

=============================================================================
