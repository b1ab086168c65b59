----------------------------- MODULE EventLedger -----------------------------
(***************************************************************************)
(* What the audit log promises, without files, streams or processes: a     *)
(* ledger that only grows.  Each step settles one event, kept or lost, that *)
(* is younger than all before it.  How much its link says about them       *)
(* depends on what has happened to the head of the chain:                  *)
(*                                                                         *)
(*   "chained"    every link reaches at least the youngest settled event   *)
(*   "restarted"  or it is genesis, a visible break                        *)
(*   "forked"     links promise nothing                                    *)
(*                                                                         *)
(* and that grade never improves.                                          *)
(***************************************************************************)
EXTENDS Naturals

CONSTANT Genesis

VARIABLES kept, lost, grade

ledger == <<kept, lost, grade>>

Grades == {"chained", "restarted", "forked"}

Worse(g) == CASE g = "chained"   -> Grades
              [] g = "restarted" -> {"restarted", "forked"}
              [] g = "forked"    -> {"forked"}

Init ==
    /\ kept = {}
    /\ lost = {}
    /\ grade = "chained"

Covers(l, k) ==
    \/ l.prev_hmac >= k.hmac
    \/ grade = "restarted" /\ l.prev_hmac = Genesis
    \/ grade = "forked"

\* The one event a step adds to the kept or to the lost ones.
Settle ==
    \E l \in (kept' \cup lost') \ (kept \cup lost) :
        /\ \/ kept' = kept \cup {l} /\ lost' = lost
           \/ kept' = kept /\ lost' = lost \cup {l}
        /\ \A k \in kept \cup lost : k.hmac < l.hmac /\ Covers(l, k)

Degrade ==
    /\ kept' = kept
    /\ lost' = lost

Next == grade' \in Worse(grade) /\ (Settle \/ Degrade)

Spec == Init /\ [][Next]_ledger

=============================================================================
