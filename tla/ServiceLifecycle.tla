-------------------------- MODULE ServiceLifecycle --------------------------
(***************************************************************************)
(* How the service starts and stops.  run_event_loop starts the collectors *)
(* and the pipe server, runs until the control handler sets the stop flag, *)
(* and then stops everything in a fixed order; SessionAgentManager keeps   *)
(* one agent process per interactive session, which connects to the pipe;  *)
(* the watchdog starts a service that is stopped.                          *)
(*                                                                         *)
(* Workers are the collectors whose stop() returns at once when their      *)
(* thread has ended, without joining it: DeepCollector, ProcessCollector   *)
(* and UsbCollector.  A std::thread destroyed unjoined ends the process.   *)
(* A tracer is a worker that sets up its own source and whose stop() can   *)
(* close only what is set up: ProcessCollector.  The other collectors      *)
(* always join, or have no thread; they add no state.                      *)
(*                                                                         *)
(* Of the auth pipe only its thread is here; AuthCeremony has what it says *)
(* to a client.                                                            *)
(***************************************************************************)
EXTENDS Naturals

CONSTANTS Early,     \* workers stopped before the auth pipe
          Late,      \* workers stopped after it
          Tracers,   \* workers that set up a trace
          Sessions   \* interactive sessions, logged on throughout

ASSUME LifecycleAssumption == Tracers \subseteq Early \cup Late

Workers == Early \cup Late

VARIABLES
    scm,      \* the state of the service in the service control manager
    main,     \* where run_event_loop is
    worker,   \* the thread of each worker
    auth,     \* the thread of AuthPipeServer
    ingest,   \* PipeIngestServer::running_
    accept,   \* its accept thread
    agent,    \* the process SessionAgentManager has recorded for a session
    orphan,   \* a process an earlier run of the service started there
    \* history
    ending    \* how the last run of the service ended

vars == <<scm, main, worker, auth, ingest, accept, agent, orphan, ending>>

TypeOK ==
    /\ scm \in {"stopped", "running", "stop_pending"}
    /\ main \in {"none", "loop", "early", "auth", "authjoin", "late", "agents", "pipe", "join",
                "leave"}
    /\ worker \in [Workers -> {"none", "starting", "running", "ended", "missed", "joined"}]
    /\ auth \in {"off", "check", "create", "listen", "serve"}
    /\ ingest \in BOOLEAN
    /\ accept \in {"off", "check", "listen"}
    /\ agent \in [Sessions -> {"none", "exited", "connecting", "connected"}]
    /\ orphan \in [Sessions -> {"none", "cut", "connected"}]
    /\ ending \in {"none", "clean", "terminate", "killed"}

Init ==
    /\ scm = "stopped"
    /\ main = "none"
    /\ worker = [w \in Workers |-> "none"]
    /\ auth = "off"
    /\ ingest = FALSE
    /\ accept = "off"
    /\ agent = [s \in Sessions |-> "none"]
    /\ orphan = [s \in Sessions |-> "none"]
    /\ ending = "none"

-----------------------------------------------------------------------------
(* Start, and the threads of a running service *)

\* StartService by the watchdog's poll, the recovery of the service control
\* manager or an operator.  It fails unless the service is stopped, which the
\* watchdog tells apart from running only.
ServiceStarts ==
    /\ scm = "stopped"
    /\ scm' = "running"

Start ==
    /\ ServiceStarts
    /\ main' = "loop"
    /\ worker' = [w \in Workers |-> IF w \in Tracers THEN "starting" ELSE "running"]
    /\ auth' = "check"
    /\ ingest' = TRUE
    /\ accept' = "check"
    /\ UNCHANGED <<agent, orphan, ending>>

\* trace_thread_main has started its session: stop() can stop it now.
SetUp(w) ==
    /\ worker[w] = "starting"
    /\ worker' = [worker EXCEPT ![w] = "running"]
    /\ UNCHANGED <<scm, main, auth, ingest, accept, agent, orphan, ending>>

\* A worker's thread ends by itself: it could not be set up, its source broke
\* or was stopped, or it saw the stop flag before its stop() was called.
WorkerEnds(w) ==
    /\ worker[w] \in {"starting", "running", "missed"}
    /\ worker' = [worker EXCEPT ![w] = IF @ = "missed" THEN "joined" ELSE "ended"]
    /\ UNCHANGED <<scm, main, auth, ingest, accept, agent, orphan, ending>>

\* The loop condition of server_thread_main, with the stop flag.
AuthCheck ==
    /\ auth = "check"
    /\ auth' = IF scm = "running" THEN "create" ELSE "off"
    /\ UNCHANGED <<scm, main, worker, ingest, accept, agent, orphan, ending>>

\* CreateNamedPipeW, which is retried: a client, or stop(), can open the pipe
\* from here on.
AuthCreate ==
    /\ auth = "create"
    /\ auth' \in {"listen", "check"}
    /\ UNCHANGED <<scm, main, worker, ingest, accept, agent, orphan, ending>>

\* An administrator's client connects ...
AuthConnect ==
    /\ auth = "listen"
    /\ auth' = "serve"
    /\ UNCHANGED <<scm, main, worker, ingest, accept, agent, orphan, ending>>

\* ... and has been answered, or has gone.  It may do neither.
AuthServed ==
    /\ auth = "serve"
    /\ auth' = "check"
    /\ UNCHANGED <<scm, main, worker, ingest, accept, agent, orphan, ending>>

\* The loop condition of accept_loop and CreateNamedPipeW, which is retried.
AcceptNext ==
    /\ accept = "check"
    /\ accept' = IF ingest THEN "listen" ELSE "off"
    /\ UNCHANGED <<scm, main, worker, auth, ingest, agent, orphan, ending>>

\* A client connects.  The accept thread hands it to a thread of its own, or
\* closes the pipe and ends when running_ was cleared meanwhile.
Accept ==
    /\ accept = "listen"
    /\ accept' = IF ingest THEN "check" ELSE "off"

\* What would go wrong: a session with a record is taken care of.
LaunchOnce(s) ==
    /\ main \notin {"none", "pipe", "join", "leave"}
    /\ agent[s] = "none"
    /\ agent' = [agent EXCEPT ![s] = "connecting"]
    /\ UNCHANGED <<scm, main, worker, auth, ingest, accept, orphan, ending>>

\* sync_active_sessions, from start, the watchdog thread or a logon: a session
\* without a living process gets one.
LaunchAgent(s) ==
    /\ main \notin {"none", "pipe", "join", "leave"}
    /\ agent[s] \in {"none", "exited"}
    /\ agent' = [agent EXCEPT ![s] = "connecting"]
    /\ UNCHANGED <<scm, main, worker, auth, ingest, accept, orphan, ending>>

ConnectAgent(s) ==
    /\ agent[s] = "connecting"
    /\ Accept
    /\ agent' = [agent EXCEPT ![s] = "connected"]
    /\ UNCHANGED <<scm, main, worker, auth, ingest, orphan, ending>>

\* It found no pipe in time, crashed or was closed.
AgentExits(s) ==
    /\ agent[s] \in {"connecting", "connected"}
    /\ agent' = [agent EXCEPT ![s] = "exited"]
    /\ UNCHANGED <<scm, main, worker, auth, ingest, accept, orphan, ending>>

\* The write of an agent whose service died fails, and it connects again.
ReconnectOrphan(s) ==
    /\ orphan[s] = "cut"
    /\ Accept
    /\ orphan' = [orphan EXCEPT ![s] = IF ingest THEN "connected" ELSE "cut"]
    /\ UNCHANGED <<scm, main, worker, auth, ingest, agent, ending>>

OrphanExits(s) ==
    /\ orphan[s] # "none"
    /\ orphan' = [orphan EXCEPT ![s] = "none"]
    /\ UNCHANGED <<scm, main, worker, auth, ingest, accept, agent, ending>>

-----------------------------------------------------------------------------
(* Stop *)

\* An authorised SERVICE_CONTROL_STOP sets the stop flag.
ControlStop ==
    /\ scm = "running"
    /\ scm' = "stop_pending"
    /\ UNCHANGED <<main, worker, auth, ingest, accept, agent, orphan, ending>>

LeaveLoop ==
    /\ main = "loop"
    /\ scm = "stop_pending"
    /\ main' = "early"
    /\ UNCHANGED <<scm, worker, auth, ingest, accept, agent, orphan, ending>>

\* main is at the stop() of w and no other join keeps it.
Stopping(w) ==
    /\ \/ main = "early" /\ w \in Early
       \/ main = "late" /\ w \in Late
    /\ \A v \in Workers : worker[v] # "missed"

\* What would go wrong: stop() detaches the thread.
StopWorkerDetached(w) ==
    /\ Stopping(w)
    /\ worker[w] = "running"
    /\ worker' = [worker EXCEPT ![w] = "detached"]
    /\ UNCHANGED <<scm, main, auth, ingest, accept, agent, orphan, ending>>

\* stop() of a worker that still runs joins its thread; it misses a trace that
\* is not set up yet, and then the thread may run for ever.
StopWorker(w) ==
    /\ Stopping(w)
    /\ worker[w] \in {"starting", "running"}
    /\ worker' = [worker EXCEPT ![w] = IF @ = "starting" THEN "missed" ELSE "joined"]
    /\ UNCHANGED <<scm, main, auth, ingest, accept, agent, orphan, ending>>

\* What would go wrong: the service waits until each worker was joined.
AllJoined(ws) == \A w \in ws : worker[w] = "joined"

\* A worker whose thread has ended is passed over.
AllStopped(ws) == \A w \in ws : worker[w] \in {"ended", "joined"}

EarlyStopped ==
    /\ main = "early"
    /\ AllStopped(Early)
    /\ main' = "auth"
    /\ UNCHANGED <<scm, worker, auth, ingest, accept, agent, orphan, ending>>

\* AuthPipeServer::stop opens its own pipe to wake the thread, which succeeds
\* only while no client is connected and the pipe exists; the connection is
\* closed at once.
WakeAuth ==
    /\ main = "auth"
    /\ main' = "authjoin"
    /\ auth' = IF auth = "listen" THEN "check" ELSE auth
    /\ UNCHANGED <<scm, worker, ingest, accept, agent, orphan, ending>>

JoinAuth ==
    /\ main = "authjoin"
    /\ auth = "off"
    /\ main' = "late"
    /\ UNCHANGED <<scm, worker, auth, ingest, accept, agent, orphan, ending>>

LateStopped ==
    /\ main = "late"
    /\ AllStopped(Late)
    /\ main' = "agents"
    /\ UNCHANGED <<scm, worker, auth, ingest, accept, agent, orphan, ending>>

\* What would go wrong: the handles of the agents are closed, no more.
ForgetAgents ==
    /\ main = "agents"
    /\ main' = "pipe"
    /\ UNCHANGED <<scm, worker, auth, ingest, accept, agent, orphan, ending>>

\* SessionAgentManager::stop joins its watchdog thread and terminates every
\* process it recorded.
StopAgents ==
    /\ main = "agents"
    /\ main' = "pipe"
    /\ agent' = [s \in Sessions |-> "none"]
    /\ UNCHANGED <<scm, worker, auth, ingest, accept, orphan, ending>>

\* PipeIngestServer::stop clears running_ and opens its own pipe for reading
\* to wake the accept thread.  Clients of an inbound pipe can only write: the
\* open fails and wakes nobody.
StopIngest ==
    /\ main = "pipe"
    /\ main' = "join"
    /\ ingest' = FALSE
    /\ UNCHANGED <<scm, worker, auth, accept, agent, orphan, ending>>

\* accept_thread_.join()
JoinAccept ==
    /\ main = "join"
    /\ accept = "off"
    /\ main' = "leave"
    /\ UNCHANGED <<scm, worker, auth, ingest, accept, agent, orphan, ending>>

Gone(how) ==
    /\ scm' = "stopped"
    /\ main' = "none"
    /\ worker' = [w \in Workers |-> "none"]
    /\ auth' = "off"
    /\ ingest' = FALSE
    /\ accept' = "off"
    /\ agent' = [s \in Sessions |-> "none"]
    /\ orphan' = [s \in Sessions |->
                    IF agent[s] \in {"connecting", "connected"} \/ orphan[s] # "none"
                    THEN "cut" ELSE "none"]
    /\ ending' = how

\* run_event_loop returns and the collectors are destroyed.
Leave ==
    /\ main = "leave"
    /\ Gone(IF \E w \in Workers : worker[w] = "ended" THEN "terminate" ELSE "clean")

\* The process dies before.
Die ==
    /\ main # "none"
    /\ Gone("killed")

Next ==
    \/ Start
    \/ \E w \in Workers : SetUp(w) \/ WorkerEnds(w) \/ StopWorker(w)
    \/ AuthCheck \/ AuthCreate \/ AuthConnect \/ AuthServed
    \/ AcceptNext
    \/ \E s \in Sessions : \/ LaunchAgent(s)
                           \/ ConnectAgent(s)
                           \/ AgentExits(s)
                           \/ ReconnectOrphan(s)
                           \/ OrphanExits(s)
    \/ ControlStop
    \/ LeaveLoop
    \/ EarlyStopped
    \/ WakeAuth
    \/ JoinAuth
    \/ LateStopped
    \/ StopAgents
    \/ StopIngest
    \/ JoinAccept
    \/ Leave
    \/ Die

Spec == Init /\ [][Next]_vars

\* The watchdog polls every 30 s, the threads of the service run, and an agent
\* retries its connection: a chance that keeps coming back is taken.  Nothing
\* makes a client of either pipe connect, send or go.
Fairness ==
    /\ WF_vars(Start)
    /\ WF_vars(AuthCheck)
    /\ WF_vars(AuthCreate)
    /\ WF_vars(AcceptNext)
    /\ WF_vars(LeaveLoop)
    /\ WF_vars(EarlyStopped)
    /\ WF_vars(WakeAuth)
    /\ WF_vars(JoinAuth)
    /\ WF_vars(LateStopped)
    /\ WF_vars(StopAgents)
    /\ WF_vars(StopIngest)
    /\ WF_vars(JoinAccept)
    /\ WF_vars(Leave)
    /\ \A w \in Workers : WF_vars(StopWorker(w))
    /\ \A s \in Sessions : WF_vars(LaunchAgent(s)) /\ SF_vars(ConnectAgent(s))

FairSpec == Spec /\ Fairness

-----------------------------------------------------------------------------
(* Properties *)

\* The three places where a stop can wait for somebody outside the service: the
\* auth pipe's thread listens again, or serves a client that says nothing; a
\* trace started after its stop() had looked for it; and the accept thread
\* listens, which the waking open never reaches.
Hangs ==
    \/ main = "authjoin" /\ auth \in {"listen", "serve"}
    \/ \E w \in Tracers : worker[w] = "missed"
    \/ main = "join" /\ accept = "listen"

\* An accepted stop ends, and the watchdog brings the service back, unless it
\* hangs for good in one of those places: nothing else blocks, not even a
\* worker whose thread ended on its own.
StopsOrHangs ==
    scm = "stop_pending" ~> (scm = "running" \/ []Hangs)

\* Only a death of the process leaves agents behind for the next run to
\* duplicate; an orderly stop terminates all of them, however it ends.
OrphansOnlyByDeath ==
    [][\A s \in Sessions : orphan[s] = "none" /\ orphan'[s] # "none" => ending' = "killed"]_vars

\* While the service keeps running, each session whose agents stop exiting has
\* a connected one for good: the last that exited is replaced, and its
\* replacement is not kept from the pipe by the agents of other sessions.
AgentsReturn ==
    \A s \in Sessions :
        <>[](main = "loop") /\ <>[][agent[s] # "exited" => agent'[s] # "exited"]_agent
            => <>[](agent[s] = "connected")

\* docs/TESTING.md, 8.2: after sc stop, with the watchdog running, the service
\* is RUNNING again.
RunsAgain == scm = "stop_pending" ~> scm = "running"

=============================================================================
