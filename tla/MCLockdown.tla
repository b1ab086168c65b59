----------------------------- MODULE MCLockdown -----------------------------
(***************************************************************************)
(* Lockdown for model checking: the callbacks of the event log service are *)
(* interchangeable, and every property checked is a safety property.       *)
(***************************************************************************)
EXTENDS Lockdown, TLC

Interchangeable == Permutations(Callbacks)

=============================================================================
