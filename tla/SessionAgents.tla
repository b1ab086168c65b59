--------------------------- MODULE SessionAgents ---------------------------
(***************************************************************************)
(* Who has a user agent.  SessionAgentManager keeps one record for each    *)
(* Windows session: a user name and the handle of the agent's process.     *)
(* Two threads work on the records under one mutex: the manager's poll,    *)
(* whose first round the starting thread makes itself, and the callback of *)
(* SessionCollector, which tells the manager of logons and logoffs it      *)
(* reads from the Security log.  Both look at Windows first and take the   *)
(* mutex afterwards, so what they saw may be over by then.                 *)
(*                                                                         *)
(* A name is an account and the form it is written in.  Accounts stand for *)
(* the same user name in different domains.  "wts" is the form read from   *)
(* the session itself; the Security log may write it "loose", in another   *)
(* case or without the domain, or, for a name that is not ASCII, in a      *)
(* "foreign" encoding: UTF-8, which the manager widens byte by byte.       *)
(*                                                                         *)
(* A record whose process has ended counts as no record: whoever finds one *)
(* closes the handle and goes on as if there were none.                    *)
(*                                                                         *)
(* Windows: EvtClose waits for the callback that runs; TerminateProcess    *)
(* succeeds; a session that ends takes its processes with it.  Enumerating *)
(* the sessions is taken to succeed.                                       *)
(***************************************************************************)
EXTENDS Naturals

CONSTANTS Sessions,   \* session ids
          Remote,     \* those a client may leave and join again
          Accounts,   \* accounts that log on
          Foreign,    \* those whose name is not ASCII
          MaxCrashes  \* bound: deaths of the service process

ASSUME SessionAssumption ==
    /\ Remote \subseteq Sessions
    /\ Foreign \subseteq Accounts
    /\ "nobody" \notin Accounts
    /\ "none" \notin Sessions
    /\ MaxCrashes \in Nat

VARIABLES
    \* Windows
    who,     \* who is logged on in a session
    active,  \* sessions that are connected to a console or a client
    lost,    \* living agents of a session whose handle nobody holds
    \* SessionAgentManager
    main,    \* where run_event_loop is
    looping, \* watchdog_thread_ runs
    user,    \* agents_[session].user of a living agent, or NoName
    \* the two threads
    doing,   \* what a thread is about to do
    todo,    \* sessions of its enumeration it has not looked at
    target,  \* the session it is about to take care of, or "none"
    name,    \* the user it found there, or NoName
    \* history
    stale,   \* threads whose session has ended since they looked
    mixed,   \* sessions whose agent was launched by such a thread
    crashes

windows == <<who, active, lost>>
records == <<user, lost, mixed>>
threads == <<doing, todo, target, name, stale>>
vars == <<windows, main, looping, user, threads, mixed, crashes>>

Threads == {"poll", "event"}
Forms   == {"wts", "loose", "foreign"}
NoName  == <<"nobody", "wts">>
Name    == Accounts \X Forms

\* What would go wrong: an event that names nobody is passed on.
EventNamesOrNone(a) == {<<"", "loose">>}

\* extract_data_value and wide_to_utf8: what the Security log calls a user.
EventNames(a) ==
    IF a \in Foreign THEN {<<a, "foreign">>} ELSE {a} \X {"wts", "loose"}

\* What would go wrong: the domain is not compared.
MatchesUser(n, s) == who[s] # "nobody" /\ n[2] # "foreign"

\* find_session_for_user compares without case, and without domain when the
\* event has none.
Matches(n, s) ==
    /\ who[s] # "nobody"
    /\ n[2] # "foreign"
    /\ n[2] = "loose" \/ n[1] = who[s]

TypeOK ==
    /\ who \in [Sessions -> Accounts \cup {"nobody"}]
    /\ active \subseteq Sessions
    /\ lost \in [Sessions -> Nat]
    /\ main \in {"off", "start", "run", "close", "stop"}
    /\ looping \in BOOLEAN
    /\ user \in [Sessions -> Name \cup {NoName}]
    /\ doing \in [Threads -> {"idle", "sync", "ensure"}]
    /\ todo \in [Threads -> SUBSET Sessions]
    /\ target \in [Threads -> Sessions \cup {"none"}]
    /\ name \in [Threads -> Name \cup {NoName}]
    /\ stale \subseteq Threads
    /\ mixed \subseteq Sessions
    /\ crashes \in 0 .. MaxCrashes

AtRest ==
    /\ doing = [t \in Threads |-> "idle"]
    /\ todo = [t \in Threads |-> {}]
    /\ target = [t \in Threads |-> "none"]
    /\ name = [t \in Threads |-> NoName]
    /\ stale = {}

Init ==
    /\ who = [s \in Sessions |-> "nobody"]
    /\ active = {}
    /\ lost = [s \in Sessions |-> 0]
    /\ main = "off"
    /\ looping = FALSE
    /\ user = [s \in Sessions |-> NoName]
    /\ AtRest
    /\ mixed = {}
    /\ crashes = 0

-----------------------------------------------------------------------------
(* Windows *)

Logon(s, a) ==
    /\ who[s] = "nobody"
    /\ who' = [who EXCEPT ![s] = a]
    /\ active' = active \cup {s}
    /\ UNCHANGED <<lost, main, looping, user, threads, mixed, crashes>>

\* The session ends, and its processes with it.
Logoff(s) ==
    /\ who[s] # "nobody"
    /\ who' = [who EXCEPT ![s] = "nobody"]
    /\ active' = active \ {s}
    /\ lost' = [lost EXCEPT ![s] = 0]
    /\ user' = [user EXCEPT ![s] = NoName]
    /\ mixed' = mixed \ {s}
    /\ stale' = stale \cup {t \in Threads : target[t] = s}
    /\ UNCHANGED <<main, looping, doing, todo, target, name, crashes>>

\* The user's client goes away and comes back: WTSDisconnected, WTSActive.
Switch(s) ==
    /\ s \in Remote
    /\ who[s] # "nobody"
    /\ active' = IF s \in active THEN active \ {s} ELSE active \cup {s}
    /\ UNCHANGED <<who, lost, main, looping, user, threads, mixed, crashes>>

\* An agent ends by itself: it found no pipe, crashed or was closed.
AgentExits(s) ==
    /\ \/ /\ user[s] # NoName
          /\ user' = [user EXCEPT ![s] = NoName]
          /\ mixed' = mixed \ {s}
          /\ UNCHANGED lost
       \/ /\ lost[s] > 0
          /\ lost' = [lost EXCEPT ![s] = @ - 1]
          /\ UNCHANGED <<user, mixed>>
    /\ UNCHANGED <<who, active, main, looping, threads, crashes>>

-----------------------------------------------------------------------------
(* The manager, in any thread *)

\* sync_active_sessions begins with an enumeration ...
Enumerated(t) ==
    /\ doing' = [doing EXCEPT ![t] = "sync"]
    /\ todo' = [todo EXCEPT ![t] = active]

\* ... and goes through it, skipping sessions without a user.
SyncNext(t) ==
    /\ doing[t] = "sync"
    /\ \/ /\ todo[t] = {}
          /\ doing' = [doing EXCEPT ![t] = "idle"]
          /\ UNCHANGED <<todo, target, name>>
       \/ \E s \in todo[t] :
            /\ todo' = [todo EXCEPT ![t] = @ \ {s}]
            /\ IF who[s] = "nobody"
               THEN UNCHANGED <<doing, target, name>>
               ELSE /\ doing' = [doing EXCEPT ![t] = "ensure"]
                    /\ target' = [target EXCEPT ![t] = s]
                    /\ name' = [name EXCEPT ![t] = <<who[s], "wts">>]
    /\ UNCHANGED <<windows, stale, main, looping, user, mixed, crashes>>

\* ensure_agent_for_session, under the mutex; it returns to the loop.
Ensured(t) ==
    /\ doing[t] = "ensure"
    /\ doing' = [doing EXCEPT ![t] = "sync"]
    /\ target' = [target EXCEPT ![t] = "none"]
    /\ name' = [name EXCEPT ![t] = NoName]
    /\ stale' = stale \ {t}
    /\ UNCHANGED <<who, active, main, looping, todo, crashes>>

\* A record whose process lives is left alone.
FindRunning(t) ==
    /\ Ensured(t)
    /\ user[target[t]] # NoName
    /\ UNCHANGED records

\* What would go wrong: the process of the record is not looked at.
LaunchAlways(t) ==
    LET s == target[t] IN
    /\ Ensured(t)
    /\ who[s] # "nobody"
    /\ user' = [user EXCEPT ![s] = name[t]]
    /\ lost' = [lost EXCEPT ![s] = IF user[s] # NoName THEN @ + 1 ELSE @]
    /\ mixed' = IF t \in stale THEN mixed \cup {s} ELSE mixed \ {s}

\* launch_agent takes the token of whoever is logged on now.
Launch(t) ==
    LET s == target[t] IN
    /\ Ensured(t)
    /\ user[s] = NoName
    /\ who[s] # "nobody"
    /\ user' = [user EXCEPT ![s] = name[t]]
    /\ mixed' = IF t \in stale THEN mixed \cup {s} ELSE mixed \ {s}
    /\ UNCHANGED lost

\* The session has no user any more, or the process could not be created: the
\* record remains without a process.
LaunchFails(t) ==
    /\ Ensured(t)
    /\ user[target[t]] = NoName
    /\ UNCHANGED records

-----------------------------------------------------------------------------
(* The callback of SessionCollector *)

\* What an event does that has a user name and was written to the log: others
\* (locks, no user, a failed write) do not reach the manager.  A callback that
\* has begun goes on when the stop flag is set.
Told == main \in {"run", "close"} /\ doing["event"] = "idle"

\* A logon or an unlock: the user's session is looked for, and all of them
\* are synchronised when there is none.
LogonEvent(n) ==
    /\ Told
    /\ \/ \E s \in active :
            /\ Matches(n, s)
            /\ doing' = [doing EXCEPT !["event"] = "ensure"]
            /\ target' = [target EXCEPT !["event"] = s]
            /\ name' = [name EXCEPT !["event"] = n]
            /\ UNCHANGED todo
       \/ /\ \A s \in active : ~Matches(n, s)
          /\ Enumerated("event")
          /\ UNCHANGED <<target, name>>
    /\ UNCHANGED <<windows, main, looping, user, stale, mixed, crashes>>

Stopped(S) ==
    /\ user' = [s \in Sessions |-> IF s \in S THEN NoName ELSE user[s]]
    /\ mixed' = mixed \ S

\* stop_agent_for_user: the recorded names are compared exactly.
LogoutEvent(n) ==
    /\ Told
    /\ Stopped({s \in Sessions : user[s] = n})
    /\ UNCHANGED <<windows, main, looping, threads, crashes>>

-----------------------------------------------------------------------------
(* Start, poll and stop *)

Start ==
    /\ main = "off"
    /\ main' = "start"
    /\ Enumerated("poll")
    /\ UNCHANGED <<windows, looping, user, target, name, stale, mixed, crashes>>

\* The poll's thread is created after the first synchronisation, and the
\* subscription after the manager.
Started ==
    /\ main = "start"
    /\ doing["poll"] = "idle"
    /\ main' = "run"
    /\ looping' = TRUE
    /\ UNCHANGED <<windows, user, threads, mixed, crashes>>

\* What would go wrong: the poll takes care of agents it knows, no more.
PollReapsOnly ==
    /\ looping
    /\ main # "stop"
    /\ doing["poll"] = "idle"
    /\ doing' = [doing EXCEPT !["poll"] = "sync"]
    /\ UNCHANGED <<windows, main, looping, user, todo, target, name, stale, mixed, crashes>>

\* Each 30 s the poll closes the handles of processes that ended, and
\* synchronises.
Poll ==
    /\ looping
    /\ main # "stop"
    /\ doing["poll"] = "idle"
    /\ Enumerated("poll")
    /\ UNCHANGED <<windows, main, looping, user, target, name, stale, mixed, crashes>>

RequestStop ==
    /\ main = "run"
    /\ main' = "close"
    /\ UNCHANGED <<windows, looping, user, threads, mixed, crashes>>

\* SessionCollector::stop, before the manager's: no callback runs afterwards.
Unsubscribe ==
    /\ main = "close"
    /\ doing["event"] = "idle"
    /\ main' = "stop"
    /\ UNCHANGED <<windows, looping, user, threads, mixed, crashes>>

PollEnds ==
    /\ main = "stop"
    /\ doing["poll"] = "idle"
    /\ looping
    /\ looping' = FALSE
    /\ UNCHANGED <<windows, main, user, threads, mixed, crashes>>

\* The poll's thread has been joined, and every recorded agent is terminated.
StopAll ==
    /\ main = "stop"
    /\ ~looping
    /\ main' = "off"
    /\ Stopped(Sessions)
    /\ UNCHANGED <<windows, looping, threads, crashes>>

\* The service process dies; the agents do not.
Crash ==
    /\ main # "off"
    /\ crashes < MaxCrashes
    /\ crashes' = crashes + 1
    /\ main' = "off"
    /\ looping' = FALSE
    /\ lost' = [s \in Sessions |-> IF user[s] # NoName THEN lost[s] + 1 ELSE lost[s]]
    /\ Stopped(Sessions)
    /\ doing' = [t \in Threads |-> "idle"]
    /\ todo' = [t \in Threads |-> {}]
    /\ target' = [t \in Threads |-> "none"]
    /\ name' = [t \in Threads |-> NoName]
    /\ stale' = {}
    /\ UNCHANGED <<who, active>>

Step(t) == SyncNext(t) \/ FindRunning(t) \/ Launch(t) \/ LaunchFails(t)

Next ==
    \/ \E s \in Sessions : \/ \E a \in Accounts : Logon(s, a)
                           \/ Logoff(s)
                           \/ Switch(s)
                           \/ AgentExits(s)
    \/ \E t \in Threads : Step(t)
    \/ \E a \in Accounts : \E n \in EventNames(a) : LogonEvent(n) \/ LogoutEvent(n)
    \/ Start
    \/ Started
    \/ Poll
    \/ RequestStop
    \/ Unsubscribe
    \/ PollEnds
    \/ StopAll
    \/ Crash

Spec == Init /\ [][Next]_vars

\* The threads run, and the poll's timer fires.
Fairness ==
    /\ \A t \in Threads : WF_vars(Step(t))
    /\ WF_vars(Started)
    /\ WF_vars(Poll)
    /\ WF_vars(Unsubscribe)
    /\ WF_vars(PollEnds)
    /\ WF_vars(StopAll)

FairSpec == Spec /\ Fairness

-----------------------------------------------------------------------------
(* Properties *)

\* The service never puts a second agent into a session, whichever threads
\* look after it at once, and an orderly stop leaves none behind: an agent
\* nobody holds a handle of was left by a death of the service, and while it
\* is off only such agents live.
NoSecondAgent ==
    \A s \in Sessions :
        /\ lost[s] <= crashes
        /\ main = "off" => user[s] = NoName

\* The name in a record is the user its agent runs for, unless the session
\* changed hands between the look at it and the launch, or the event did not
\* tell the domain: only then may a logoff stop the agent of somebody else.
RecordNamesUser ==
    \A s \in Sessions \ mixed :
        user[s] # NoName /\ user[s][2] # "loose" => user[s][1] = who[s]

\* An agent is lost, closed by a logoff, or could not be launched.
Disturbed(s) ==
    /\ user'[s] = NoName
    /\ \/ user[s] # NoName
       \/ \E t \in Threads : target[t] = s /\ target'[t] = "none"

\* While the service runs and a session is active with a user, the session
\* has an agent for good once nothing disturbs it any more: a logoff of the
\* same user elsewhere, an event that names nobody or the stale record of an
\* earlier user may delay it until the next poll, and no longer.
AgentComes ==
    \A s \in Sessions :
        /\ <>[](main = "run" /\ s \in active)
        /\ <>[][~Disturbed(s)]_vars
        => <>[](user[s] # NoName)

=============================================================================
