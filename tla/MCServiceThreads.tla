-------------------------- MODULE MCServiceThreads --------------------------
(***************************************************************************)
(* ServiceThreads with the texts an administrator writes to config.json on *)
(* a machine with a standard memory.                                       *)
(***************************************************************************)
EXTENDS ServiceThreads

CONSTANTS f1, f2  \* files

MCMaxLines == [f \in Files |-> IF f = f1 THEN 2 ELSE 1]

Quiet == [profile |-> "low", process |-> TRUE, network |-> TRUE, mb |-> 10]
Loud  == [profile |-> "full", process |-> TRUE, network |-> FALSE, mb |-> 10]
Auto  == [profile |-> "auto", process |-> FALSE, network |-> TRUE, mb |-> 2]

MCTexts == {Quiet, Loud, Auto}

\* 443, a port whose lower byte is 0, and one below 256.
MCPorts == {443, 8192, 22}

=============================================================================
