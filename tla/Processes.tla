----------------------------- MODULE Processes -----------------------------
(***************************************************************************)
(* What the service tells of processes.  ProcessCollector reads the starts *)
(* and stops of the kernel's provider from a trace session, in which they  *)
(* arrive in their order but late, and from which some may be missing.  It *)
(* remembers the ids of the processes it has told the start of, and tells  *)
(* a start of an id it does not know and a stop of one it does.            *)
(*                                                                         *)
(* The provider also traces the starts and stops of threads, which pass    *)
(* for those of their process.  When the id is not found in a record, the  *)
(* header's is taken: who logged it, for a start the creator's.            *)
(*                                                                         *)
(* Processes are numbered; an id is given again once its process has       *)
(* ended.  A trace session outlives a service that dies, and the next run  *)
(* closes it before it opens its own; what it held is lost.  A start that  *)
(* is told of a creator whose id is none of Pids is as good as missing.    *)
(***************************************************************************)
EXTENDS Naturals, Sequences

CONSTANTS Pids,         \* process ids
          MaxProcesses, \* bound: processes
          MaxHeld       \* bound: records the session holds, but for those of processes

ASSUME ProcessAssumption == MaxProcesses \in Nat /\ MaxHeld \in Nat

VARIABLES
    \* Windows
    running,  \* the process that has an id, or 0
    born,     \* processes so far
    records,  \* what the trace session holds
    \* ProcessCollector
    trace,    \* what trace_thread_main is about to do
    active,   \* active_pids
    \* history
    open,     \* for each of these the process whose start was told, else 0
    astray,   \* ... and those of which the session has lost the process's stop, or
              \* that stand for the start of another process
    pair      \* the processes of the stop told last and of its start, and whether
              \* the id was astray

processVars == <<running, born, records, trace, active, open, astray, pair>>

Numbers == 1 .. MaxProcesses
Record  == [act : {"start", "stop"}, pid : Pids, of : Numbers, by : Pids, thread : BOOLEAN]

ProcessTypeOK ==
    /\ running \in [Pids -> Numbers \cup {0}]
    /\ born \in 0 .. MaxProcesses
    /\ records \in Seq(Record)
    /\ trace \in {"off", "setup", "read"}
    /\ active \subseteq Pids
    /\ open \in [Pids -> Numbers \cup {0}]
    /\ astray \subseteq active
    /\ pair \in ((Numbers \cup {0}) \X Numbers \X BOOLEAN) \cup {<<>>}

ProcessInit ==
    /\ running = [i \in Pids |-> 0]
    /\ born = 0
    /\ records = <<>>
    /\ trace = "off"
    /\ active = {}
    /\ open = [i \in Pids |-> 0]
    /\ astray = {}
    /\ pair = <<>>

-----------------------------------------------------------------------------
(* Windows *)

\* The session holds a record of process n, which has id i; the header names h.
Traced(act, i, n, h, thread) ==
    records' = IF trace = "read"
               THEN Append(records, [act |-> act, pid |-> i, of |-> n, by |-> h, thread |-> thread])
               ELSE records

\* Process h, or one that is never traced, creates a process.
Spawn(i, h) ==
    /\ running[i] = 0
    /\ h = i \/ running[h] # 0
    /\ born < MaxProcesses
    /\ born' = born + 1
    /\ running' = [running EXCEPT ![i] = born + 1]
    /\ Traced("start", i, born + 1, h, FALSE)
    /\ UNCHANGED <<trace, active, open, astray, pair>>

Exit(i) ==
    /\ running[i] # 0
    /\ running' = [running EXCEPT ![i] = 0]
    /\ Traced("stop", i, running[i], i, FALSE)
    /\ UNCHANGED <<born, trace, active, open, astray, pair>>

\* Process h creates a thread in process i, or one of its threads ends.
Thread(act, i, h) ==
    /\ trace = "read"
    /\ Len(records) < MaxHeld
    /\ running[i] # 0
    /\ running[h] # 0
    /\ act = "stop" => h = i
    /\ Traced(act, i, running[i], h, TRUE)
    /\ UNCHANGED <<running, born, trace, active, open, astray, pair>>

\* The stop of a process.
Ends(r) == r.act = "stop" /\ ~r.thread

\* The buffers of the session were full.
Miss ==
    /\ records # <<>>
    /\ records' = Tail(records)
    /\ LET r == Head(records) IN
       astray' = IF Ends(r) THEN astray \cup ({r.pid} \cap active) ELSE astray
    /\ UNCHANGED <<running, born, trace, active, open, pair>>

-----------------------------------------------------------------------------
(* ProcessCollector *)

\* start() creates the thread, ...
StartTrace ==
    /\ trace = "off"
    /\ trace' = "setup"
    /\ UNCHANGED <<running, born, records, active, open, astray, pair>>

\* ... which closes a session left behind, opens its own and reads it, or
\* ends because one of these steps has failed.
OpenTrace ==
    /\ trace = "setup"
    /\ trace' \in {"read", "off"}
    /\ UNCHANGED <<running, born, records, active, open, astray, pair>>

\* process_event_callback: a start of a known id is dropped, any other is told;
\* the path it adds is looked up by the id, whoever has it by now.
TellStart ==
    /\ trace = "read"
    /\ records # <<>>
    /\ LET r == Head(records) IN
       /\ r.act = "start"
       /\ \E id \in {r.pid, r.by} :
             /\ active' = active \cup {id}
             /\ \/ id \in active /\ UNCHANGED <<open, astray>>
                \/ /\ id \notin active
                   /\ open' = [open EXCEPT ![id] = r.of]
                   /\ astray' = IF id = r.pid THEN astray ELSE astray \cup {id}
    /\ records' = Tail(records)
    /\ UNCHANGED <<running, born, trace, pair>>

\* emit_process_event, for the stop of record r.
Tell(r) == pair' = <<open[r.pid], r.of, r.pid \in astray>>

\* What would go wrong: the id of a process that stopped stays known.
TellStopKept ==
    /\ trace = "read"
    /\ records # <<>>
    /\ LET r == Head(records) IN
       /\ r.act = "stop"
       /\ IF r.pid \in active THEN Tell(r) ELSE UNCHANGED pair
    /\ records' = Tail(records)
    /\ UNCHANGED <<running, born, trace, active, open, astray>>

\* ... and so is a stop of an unknown one.
TellStop ==
    /\ trace = "read"
    /\ records # <<>>
    /\ LET r == Head(records) IN
       /\ r.act = "stop"
       /\ active' = active \ {r.pid}
       /\ open' = [open EXCEPT ![r.pid] = 0]
       /\ astray' = astray \ {r.pid}
       /\ IF r.pid \in active THEN Tell(r) ELSE UNCHANGED pair
    /\ records' = Tail(records)
    /\ UNCHANGED <<running, born, trace>>

\* The service ends: the set of known ids is the process's.
EndTrace ==
    /\ trace # "off"
    /\ trace' = "off"
    /\ records' = <<>>
    /\ active' = {}
    /\ open' = [i \in Pids |-> 0]
    /\ astray' = {}
    /\ pair' = <<>>
    /\ UNCHANGED <<running, born>>

ProcessNext ==
    \/ \E i \in Pids : \/ Exit(i)
                      \/ \E h \in Pids : \/ Spawn(i, h)
                                         \/ \E act \in {"start", "stop"} : Thread(act, i, h)
    \/ Miss
    \/ StartTrace
    \/ OpenTrace
    \/ TellStart
    \/ TellStop
    \/ EndTrace

ProcessSpec == ProcessInit /\ [][ProcessNext]_processVars

-----------------------------------------------------------------------------
(* Properties *)

\* A stop is told of the process whose start was told, although the two are
\* matched by an id that others may have had in between.  They can be two
\* processes only where the session has lost the stop of a process with that
\* id, or where the id, as its creator's, stands for the start of another one.
PairsAreOne == pair # <<>> /\ ~pair[3] => pair[1] = pair[2]

=============================================================================
