---------------------- MODULE ServiceLifecycle_proofs ----------------------
(***************************************************************************)
(* Proofs about ServiceLifecycle, for any set of workers and sessions: its *)
(* types, and that an orderly stop leaves no agent behind.                 *)
(***************************************************************************)
EXTENDS ServiceLifecycle, TLAPS

-----------------------------------------------------------------------------
(* The inductive invariant *)

\* Once StopAgents is over nothing launches an agent any more.
Stopped ==
    main \in {"pipe", "join", "leave"} => \A s \in Sessions : agent[s] = "none"

IInv == TypeOK /\ Stopped

LEMMA InitInv == Init => IInv
BY DEF Init, IInv, TypeOK, Stopped

\* Both ways for the process to end leave typed variables.
LEMMA GoneType ==
    ASSUME TypeOK, NEW how \in {"clean", "terminate", "killed"}, Gone(how)
    PROVE  TypeOK'
BY DEF Gone, TypeOK

LEMMA NextType ==
    ASSUME TypeOK, [Next]_vars
    PROVE  TypeOK'
<1>0. CASE Start
  BY <1>0 DEF TypeOK, Start, ServiceStarts
<1>1. CASE AcceptNext \/ ControlStop \/ LeaveLoop
  BY <1>1 DEF TypeOK, AcceptNext, ControlStop, LeaveLoop
<1>2. CASE EarlyStopped \/ WakeAuth \/ JoinAuth \/ LateStopped
  BY <1>2 DEF TypeOK, EarlyStopped, WakeAuth, JoinAuth, LateStopped
<1>8. CASE StopAgents \/ StopIngest \/ JoinAccept
  BY <1>8 DEF TypeOK, StopAgents, StopIngest, JoinAccept
<1>9. CASE AuthCheck \/ AuthCreate \/ AuthConnect \/ AuthServed
  BY <1>9 DEF TypeOK, AuthCheck, AuthCreate, AuthConnect, AuthServed
<1>3. ASSUME NEW w \in Workers, SetUp(w) \/ WorkerEnds(w) \/ StopWorker(w) PROVE TypeOK'
  BY <1>3 DEF TypeOK, SetUp, WorkerEnds, StopWorker
<1>4. ASSUME NEW s \in Sessions, LaunchAgent(s) \/ ConnectAgent(s) \/ AgentExits(s)
      PROVE  TypeOK'
  BY <1>4 DEF TypeOK, LaunchAgent, ConnectAgent, AgentExits, Accept
<1>5. ASSUME NEW s \in Sessions, ReconnectOrphan(s) \/ OrphanExits(s) PROVE TypeOK'
  BY <1>5 DEF TypeOK, ReconnectOrphan, OrphanExits, Accept
<1>6. CASE Leave \/ Die
  BY <1>6, GoneType DEF Leave, Die
<1>7. CASE UNCHANGED vars
  BY <1>7 DEF TypeOK, vars
<1>. QED
  BY <1>0, <1>1, <1>2, <1>3, <1>4, <1>5, <1>6, <1>7, <1>8, <1>9 DEF Next

LEMMA NextStopped ==
    ASSUME TypeOK, Stopped, [Next]_vars
    PROVE  Stopped'
<1>. USE DEF TypeOK, Stopped
<1>1. CASE Start \/ AcceptNext \/ ControlStop \/ LeaveLoop
  BY <1>1 DEF Start, ServiceStarts, AcceptNext, ControlStop, LeaveLoop
<1>2. CASE EarlyStopped \/ WakeAuth \/ JoinAuth \/ LateStopped
  BY <1>2 DEF EarlyStopped, WakeAuth, JoinAuth, LateStopped
<1>8. CASE StopAgents \/ StopIngest \/ JoinAccept
  BY <1>8 DEF StopAgents, StopIngest, JoinAccept
<1>9. CASE AuthCheck \/ AuthCreate \/ AuthConnect \/ AuthServed
  BY <1>9 DEF AuthCheck, AuthCreate, AuthConnect, AuthServed
<1>3. ASSUME NEW w \in Workers, SetUp(w) \/ WorkerEnds(w) \/ StopWorker(w) PROVE Stopped'
  BY <1>3 DEF SetUp, WorkerEnds, StopWorker
<1>4. ASSUME NEW s \in Sessions, LaunchAgent(s) \/ ConnectAgent(s) \/ AgentExits(s)
      PROVE  Stopped'
  BY <1>4 DEF LaunchAgent, ConnectAgent, AgentExits
<1>5. ASSUME NEW s \in Sessions, ReconnectOrphan(s) \/ OrphanExits(s) PROVE Stopped'
  BY <1>5 DEF ReconnectOrphan, OrphanExits
<1>6. CASE Leave \/ Die
  BY <1>6 DEF Leave, Die, Gone
<1>7. CASE UNCHANGED vars
  BY <1>7 DEF vars
<1>. QED
  BY <1>1, <1>2, <1>3, <1>4, <1>5, <1>6, <1>7, <1>8, <1>9 DEF Next

LEMMA Invariance == Spec => []IInv
<1>1. IInv /\ [Next]_vars => IInv'
  BY NextType, NextStopped DEF IInv
<1>. QED
  BY <1>1, InitInv, PTL DEF Spec

-----------------------------------------------------------------------------
(* Theorems *)

\* Through starts, stops and deaths the lifecycle keeps its declared types.
THEOREM TypeCorrect == Spec => []TypeOK
<1>1. IInv => TypeOK
  BY DEF IInv
<1>. QED
  BY <1>1, Invariance, PTL

\* Agents outlive their service only when its process died: run_event_loop
\* returns after StopAgents, and nothing launches one in between.
THEOREM OrphansOnlyByDeathHolds == Spec => OrphansOnlyByDeath
<1>. DEFINE A == \A s \in Sessions :
                   orphan[s] = "none" /\ orphan'[s] # "none" => ending' = "killed"
<1>1. ASSUME IInv, [Next]_vars PROVE A
  <2>. SUFFICES ASSUME NEW s \in Sessions, orphan[s] = "none", orphan'[s] # "none"
                PROVE  ending' = "killed"
    OBVIOUS
  <2>. USE <1>1 DEF IInv, TypeOK
  <2>1. CASE Leave
    BY <2>1 DEF Leave, Gone, Stopped
  <2>2. CASE Die
    BY <2>2 DEF Die, Gone
  <2>3. CASE \E t \in Sessions : ReconnectOrphan(t) \/ OrphanExits(t)
    BY <2>3 DEF ReconnectOrphan, OrphanExits
  <2>4. CASE orphan' = orphan
    BY <2>4
  <2>. QED
    BY <2>1, <2>2, <2>3, <2>4
       DEF Next, Start, ServiceStarts, SetUp, WorkerEnds, StopWorker, AuthCheck, AuthCreate,
           AuthConnect, AuthServed, AcceptNext, LaunchAgent, ConnectAgent, AgentExits, ControlStop,
           LeaveLoop, EarlyStopped, WakeAuth, JoinAuth, LateStopped, StopAgents, StopIngest,
           JoinAccept, vars
<1>. QED
  BY <1>1, Invariance, PTL DEF Spec, OrphansOnlyByDeath

=============================================================================
