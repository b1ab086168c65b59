------------------------ MODULE SessionAgents_proofs ------------------------
(***************************************************************************)
(* Proofs about SessionAgents, for any set of sessions and of accounts and *)
(* any number of deaths: its types, that no session gets a second agent    *)
(* and a stop leaves none, and whom a record names.                        *)
(***************************************************************************)
EXTENDS SessionAgents, TLAPS

-----------------------------------------------------------------------------
(* The inductive invariant *)

\* Which thread may be at work while run_event_loop is where it is.
Order ==
    /\ main = "off" => /\ \A t \in Threads : doing[t] = "idle"
                       /\ \A s \in Sessions : user[s] = NoName
                       /\ ~looping
    /\ main = "start" => ~looping /\ doing["event"] = "idle"
    /\ main \in {"run", "close"} => looping
    /\ main = "stop" => doing["event"] = "idle" /\ (looping \/ doing["poll"] = "idle")

\* A thread whose session has not ended since it looked, and who knows the
\* domain, holds the name of the session's user.
Named ==
    \A t \in Threads \ stale :
        doing[t] = "ensure" /\ name[t][2] # "loose" => name[t][1] = who[target[t]]

\* A thread at work on a session has one, and a name.
Aimed ==
    \A t \in Threads : doing[t] = "ensure" => target[t] \in Sessions /\ name[t] \in Name

FewLost == \A s \in Sessions : lost[s] <= crashes

IInv == TypeOK /\ Order /\ Aimed /\ Named /\ FewLost /\ RecordNamesUser

LEMMA InitInv == Init => IInv
<1>. SUFFICES ASSUME Init PROVE IInv
  OBVIOUS
<1>1. TypeOK
  <2>1. /\ who \in [Sessions -> Accounts \cup {"nobody"}] /\ active \subseteq Sessions
        /\ main \in {"off", "start", "run", "close", "stop"} /\ looping \in BOOLEAN
        /\ user \in [Sessions -> Name \cup {NoName}] /\ mixed \subseteq Sessions
    BY DEF Init
  <2>2. /\ doing \in [Threads -> {"idle", "sync", "ensure"}]
        /\ todo \in [Threads -> SUBSET Sessions]
        /\ target \in [Threads -> Sessions \cup {"none"}]
        /\ name \in [Threads -> Name \cup {NoName}] /\ stale \subseteq Threads
    BY DEF Init, AtRest
  <2>3. lost = [s \in Sessions |-> 0] /\ crashes = 0
    BY DEF Init
  <2>4. lost \in [Sessions -> Nat] /\ crashes \in 0 .. MaxCrashes
    BY <2>3, SessionAssumption
  <2>. QED
    BY <2>1, <2>2, <2>4 DEF TypeOK
<1>2. Order /\ Aimed /\ Named /\ RecordNamesUser
  BY DEF Init, AtRest, Order, Aimed, Named, RecordNamesUser, Threads
<1>3. FewLost
  <2>1. crashes = 0 /\ \A s \in Sessions : lost[s] = 0
    BY DEF Init
  <2>2. 0 <= 0
    OBVIOUS
  <2>. QED
    BY <2>1, <2>2, Zenon DEF FewLost
<1>. QED
  BY <1>1, <1>2, <1>3 DEF IInv

LEMMA EventNamesTyped ==
    ASSUME NEW a \in Accounts, NEW n \in EventNames(a)
    PROVE  n \in Name
BY DEF EventNames, Name, Forms

-----------------------------------------------------------------------------
(* Windows *)

LEMMA WindowsInv ==
    ASSUME IInv, NEW s \in Sessions,
           (\E a \in Accounts : Logon(s, a)) \/ Logoff(s) \/ Switch(s) \/ AgentExits(s)
    PROVE  IInv'
<1>. USE DEF IInv
<1>1. ASSUME NEW a \in Accounts, Logon(s, a) PROVE IInv'
  <2>1. TypeOK' /\ Order' /\ Aimed' /\ FewLost'
    BY <1>1 DEF Logon, threads, TypeOK, Order, Aimed, FewLost
  <2>2. \A r \in Sessions : who'[r] = who[r] \/ who[r] = "nobody"
    BY <1>1 DEF Logon, TypeOK
  <2>3. \A n \in Name : n[1] # "nobody"
    BY SessionAssumption DEF Name
  <2>4. Named'
    BY <1>1, <2>2, <2>3 DEF Logon, threads, Aimed, Named
  <2>5. RecordNamesUser'
    BY <1>1, <2>2, <2>3 DEF Logon, TypeOK, RecordNamesUser
  <2>. QED
    BY <2>1, <2>4, <2>5
<1>2. CASE Logoff(s)
  <2>1. TypeOK' /\ Order' /\ Aimed'
    BY <1>2 DEF Logoff, TypeOK, Order, Aimed
  <2>2. FewLost'
    BY <1>2 DEF Logoff, TypeOK, FewLost
  <2>3. Named'
    BY <1>2 DEF Logoff, TypeOK, Aimed, Named
  <2>4. RecordNamesUser'
    BY <1>2 DEF Logoff, TypeOK, RecordNamesUser
  <2>. QED
    BY <2>1, <2>2, <2>3, <2>4
<1>3. CASE Switch(s)
  BY <1>3 DEF Switch, threads, TypeOK, Order, Aimed, Named, FewLost, RecordNamesUser
<1>4. CASE AgentExits(s)
  <2>1. TypeOK'
    BY <1>4 DEF AgentExits, threads, TypeOK
  <2>2. Order' /\ Aimed' /\ Named'
    BY <1>4 DEF AgentExits, threads, TypeOK, Order, Aimed, Named
  <2>3. FewLost'
    BY <1>4 DEF AgentExits, TypeOK, FewLost
  <2>4. RecordNamesUser'
    BY <1>4 DEF AgentExits, TypeOK, RecordNamesUser
  <2>. QED
    BY <2>1, <2>2, <2>3, <2>4
<1>. QED
  BY <1>1, <1>2, <1>3, <1>4

-----------------------------------------------------------------------------
(* The threads of the manager *)

LEMMA SyncNextInv ==
    ASSUME IInv, NEW t \in Threads, SyncNext(t)
    PROVE  IInv'
<1>. USE DEF IInv
<1>1. CASE doing' = [doing EXCEPT ![t] = "idle"] /\ UNCHANGED <<todo, target, name>>
  BY <1>1 DEF SyncNext, windows, TypeOK, Order, Aimed, Named, FewLost, RecordNamesUser, Threads
<1>2. ASSUME NEW s \in todo[t], todo' = [todo EXCEPT ![t] = @ \ {s}],
             UNCHANGED <<doing, target, name>>
      PROVE  IInv'
  BY <1>2 DEF SyncNext, windows, TypeOK, Order, Aimed, Named, FewLost, RecordNamesUser
<1>3. ASSUME NEW s \in todo[t], todo' = [todo EXCEPT ![t] = @ \ {s}], who[s] # "nobody",
             doing' = [doing EXCEPT ![t] = "ensure"], target' = [target EXCEPT ![t] = s],
             name' = [name EXCEPT ![t] = <<who[s], "wts">>]
      PROVE  IInv'
  <2>1. s \in Sessions /\ <<who[s], "wts">> \in Name
    BY <1>3 DEF TypeOK, Name, Forms
  <2>2. TypeOK'
    BY <1>3, <2>1 DEF SyncNext, windows, TypeOK
  <2>3. Order'
    BY <1>3 DEF SyncNext, TypeOK, Order, Threads
  <2>4. Aimed' /\ Named'
    BY <1>3, <2>1 DEF SyncNext, windows, TypeOK, Aimed, Named
  <2>. QED
    BY <2>2, <2>3, <2>4 DEF SyncNext, windows, FewLost, RecordNamesUser
<1>. QED
  BY <1>1, <1>2, <1>3 DEF SyncNext

LEMMA EnsuredInv ==
    ASSUME IInv, NEW t \in Threads, FindRunning(t) \/ Launch(t) \/ LaunchFails(t)
    PROVE  IInv'
<1>. USE DEF IInv
<1>. DEFINE s == target[t]
<1>1. Ensured(t)
  BY DEF FindRunning, Launch, LaunchFails
<1>2. s \in Sessions /\ name[t] \in Name /\ main # "off"
  BY <1>1 DEF Ensured, Aimed, Order
<1>3. /\ lost' = lost
      /\ \/ UNCHANGED <<user, mixed>>
         \/ /\ user' = [user EXCEPT ![s] = name[t]]
            /\ mixed' = IF t \in stale THEN mixed \cup {s} ELSE mixed \ {s}
  BY DEF FindRunning, Launch, LaunchFails, records
<1>4. TypeOK'
  BY <1>1, <1>2, <1>3 DEF Ensured, TypeOK
<1>5. Order'
  BY <1>1, <1>2, <1>3 DEF Ensured, TypeOK, Order, Threads
<1>6. Aimed' /\ Named'
  BY <1>1 DEF Ensured, TypeOK, Aimed, Named
<1>7. FewLost'
  BY <1>1, <1>3 DEF Ensured, FewLost
<1>8. RecordNamesUser'
  BY <1>1, <1>2, <1>3 DEF Ensured, TypeOK, Named, RecordNamesUser
<1>. QED
  BY <1>4, <1>5, <1>6, <1>7, <1>8

LEMMA EventInv ==
    ASSUME IInv, NEW n \in Name, LogonEvent(n) \/ LogoutEvent(n)
    PROVE  IInv'
<1>. USE DEF IInv
<1>1. ASSUME LogonEvent(n), NEW s \in active, Matches(n, s),
             doing' = [doing EXCEPT !["event"] = "ensure"],
             target' = [target EXCEPT !["event"] = s], name' = [name EXCEPT !["event"] = n],
             UNCHANGED todo
      PROVE  IInv'
  <2>1. TypeOK'
    BY <1>1 DEF LogonEvent, windows, TypeOK
  <2>2. Order'
    BY <1>1 DEF LogonEvent, Told, TypeOK, Order, Threads
  <2>3. Aimed' /\ Named'
    BY <1>1 DEF LogonEvent, windows, Matches, TypeOK, Aimed, Named
  <2>. QED
    BY <1>1, <2>1, <2>2, <2>3 DEF LogonEvent, windows, FewLost, RecordNamesUser
<1>2. CASE LogonEvent(n) /\ Enumerated("event") /\ UNCHANGED <<target, name>>
  <2>1. TypeOK'
    BY <1>2 DEF LogonEvent, Enumerated, windows, TypeOK, Threads
  <2>2. Order'
    BY <1>2 DEF LogonEvent, Told, Enumerated, TypeOK, Order, Threads
  <2>3. Aimed' /\ Named'
    BY <1>2 DEF LogonEvent, Enumerated, windows, TypeOK, Aimed, Named
  <2>. QED
    BY <1>2, <2>1, <2>2, <2>3 DEF LogonEvent, windows, FewLost, RecordNamesUser
<1>3. CASE LogoutEvent(n)
  BY <1>3 DEF LogoutEvent, Stopped, windows, threads, TypeOK, Order, Aimed, Named, FewLost,
              RecordNamesUser
<1>. QED
  BY <1>1, <1>2, <1>3 DEF LogonEvent

-----------------------------------------------------------------------------
(* The service *)

LEMMA ServiceInv ==
    ASSUME IInv, Start \/ Started \/ Poll \/ RequestStop \/ Unsubscribe \/ PollEnds
    PROVE  IInv'
<1>. USE DEF IInv
<1>1. CASE Start \/ Poll
  <2>1. doing' \in [Threads -> {"idle", "sync", "ensure"}] /\ todo' \in [Threads -> SUBSET Sessions]
    BY <1>1 DEF Start, Poll, Enumerated, TypeOK, Threads
  <2>2. /\ main' \in {"start", main} /\ looping' = looping
        /\ UNCHANGED <<windows, user, target, name, stale, mixed, crashes>>
    BY <1>1 DEF Start, Poll
  <2>3. TypeOK'
    BY <2>1, <2>2 DEF windows, TypeOK
  <2>4. Order'
    BY <1>1 DEF Start, Poll, Enumerated, TypeOK, Order, Threads
  <2>5. Aimed' /\ Named'
    BY <1>1 DEF Start, Poll, Enumerated, windows, TypeOK, Aimed, Named
  <2>. QED
    BY <1>1, <2>3, <2>4, <2>5 DEF Start, Poll, windows, FewLost, RecordNamesUser
<1>2. CASE Started \/ RequestStop \/ Unsubscribe \/ PollEnds
  BY <1>2 DEF Started, RequestStop, Unsubscribe, PollEnds, windows, threads, TypeOK, Order,
              Aimed, Named, FewLost, RecordNamesUser
<1>. QED
  BY <1>1, <1>2

LEMMA EndInv ==
    ASSUME IInv, StopAll \/ Crash
    PROVE  IInv'
<1>. USE DEF IInv
<1>1. CASE StopAll
  BY <1>1 DEF StopAll, Stopped, windows, threads, TypeOK, Order, Aimed, Named, FewLost,
              RecordNamesUser, Threads
<1>2. CASE Crash
  <2>1. TypeOK'
    <3>1. /\ who' = who /\ active' = active /\ main' = "off" /\ looping' \in BOOLEAN
          /\ user' \in [Sessions -> Name \cup {NoName}] /\ mixed' \subseteq Sessions
          /\ stale' = {}
      BY <1>2 DEF Crash, Stopped, TypeOK
    <3>2. /\ doing' \in [Threads -> {"idle", "sync", "ensure"}]
          /\ todo' \in [Threads -> SUBSET Sessions]
          /\ target' \in [Threads -> Sessions \cup {"none"}]
          /\ name' \in [Threads -> Name \cup {NoName}]
      BY <1>2 DEF Crash
    <3>3. lost' \in [Sessions -> Nat] /\ crashes' \in 0 .. MaxCrashes
      BY <1>2, SessionAssumption DEF Crash, TypeOK
    <3>. QED
      BY <3>1, <3>2, <3>3 DEF TypeOK
  <2>2. Order' /\ Aimed' /\ Named'
    BY <1>2 DEF Crash, Stopped, Order, Aimed, Named
  <2>3. FewLost'
    BY <1>2 DEF Crash, TypeOK, FewLost
  <2>4. RecordNamesUser'
    BY <1>2 DEF Crash, Stopped, RecordNamesUser
  <2>. QED
    BY <2>1, <2>2, <2>3, <2>4
<1>. QED
  BY <1>1, <1>2

LEMMA NextInv == IInv /\ [Next]_vars => IInv'
<1>. SUFFICES ASSUME IInv, [Next]_vars PROVE IInv'
  OBVIOUS
<1>1. CASE UNCHANGED vars
  BY <1>1 DEF vars, windows, threads, IInv, TypeOK, Order, Aimed, Named, FewLost, RecordNamesUser
<1>. QED
  BY <1>1, WindowsInv, SyncNextInv, EnsuredInv, EventInv, EventNamesTyped, ServiceInv, EndInv
     DEF Next, Step

-----------------------------------------------------------------------------
(* Theorems *)

\* The variables keep their types.
THEOREM AgentsTyped == Spec => []TypeOK
<1>1. IInv => TypeOK
  BY DEF IInv
<1>. QED
  BY <1>1, InitInv, NextInv, PTL DEF Spec

\* Two threads never give a session two agents, and an orderly stop takes all.
THEOREM OneAgent == Spec => []NoSecondAgent
<1>1. IInv => NoSecondAgent
  BY DEF IInv, FewLost, Order, NoSecondAgent
<1>. QED
  BY <1>1, InitInv, NextInv, PTL DEF Spec

\* A record names the user of its session, with the two exceptions.
THEOREM RecordsName == Spec => []RecordNamesUser
<1>1. IInv => RecordNamesUser
  BY DEF IInv
<1>. QED
  BY <1>1, InitInv, NextInv, PTL DEF Spec

=============================================================================
