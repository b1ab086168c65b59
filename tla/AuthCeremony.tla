---------------------------- MODULE AuthCeremony ----------------------------
(***************************************************************************)
(* Stopping and removing the service with the key of the organisation.     *)
(* UserAuditAdmin fetches a challenge over the auth pipe, signs it with    *)
(* org.key and submits the token over a second connection.  AuthPipeServer *)
(* is one thread that serves one client at a time; AuthGuard holds, until  *)
(* it expires, what the last token of each action authorised.  The control *)
(* handler of the service asks AuthGuard before it stops.  The stop itself *)
(* ends with AuthPipeServer::stop, which joins the server thread.          *)
(*                                                                         *)
(* Time is that of the system clock and only moves forward here.  The      *)
(* build is the production one: without org.pub nothing is authorised.     *)
(***************************************************************************)
EXTENDS Naturals, FiniteSets

CONSTANTS Admins,    \* runs of UserAuditAdmin.exe
          Window,    \* life of a challenge: 300 s in the code
          MaxClock   \* bound: the clock stops here

ASSUME AuthAssumption ==
    /\ Admins \cap {"wake", "none"} = {}
    /\ Window \in Nat \ {0}
    /\ MaxClock \in Nat

Actions == {"stop", "uninstall"}

VARIABLES
    clock,     \* now_unix()
    service,   \* state of the service process
    key,       \* org_key_loaded_
    until,     \* stop_authorized_until_, uninstall_authorized_until_
    server,    \* where the server thread is
    client,    \* the client of the connected pipe instance
    answer,    \* what the server wrote to each run of UserAuditAdmin, unread
    stopper,   \* where the stopping thread is in AuthPipeServer::stop
    admin,     \* where each run of UserAuditAdmin is
    want,      \* its action
    ours,      \* runs whose key belongs to org.pub
    expiry,    \* the expiry in its challenge
    \* history
    signed,    \* tokens signed with the organisation's key
    denied     \* --uninstall was refused while the service had authorised it

adminVars == <<admin, want, ours, expiry, signed, answer>>
vars == <<clock, service, key, until, server, client, stopper, adminVars, denied>>

Challenge == [action : Actions, expiry : Nat]

TypeOK ==
    /\ clock \in Nat
    /\ service \in {"down", "running", "stopping"}
    /\ key \in BOOLEAN
    /\ until \in [Actions -> Nat]
    /\ server \in {"off", "check", "create", "listen", "serve", "answered"}
    /\ client \in Admins \cup {"wake", "none"}
    /\ answer \in [Admins -> {"none", "challenge", "yes", "no"}]
    /\ stopper \in {"none", "wake", "join"}
    /\ admin \in [Admins -> {"new", "fetch", "fetching", "sign", "submit",
                             "submitting", "granted", "failed"}]
    /\ want \in [Admins -> Actions]
    /\ ours \in SUBSET Admins
    /\ expiry \in [Admins -> Nat]
    /\ signed \subseteq Challenge
    /\ denied \in BOOLEAN

Init ==
    /\ clock = 1
    /\ service = "down"
    /\ key = FALSE
    /\ until = [x \in Actions |-> 0]
    /\ server = "off"
    /\ client = "none"
    /\ answer = [a \in Admins |-> "none"]
    /\ stopper = "none"
    /\ admin = [a \in Admins |-> "new"]
    /\ want \in [Admins -> Actions]
    /\ ours \in SUBSET Admins
    /\ expiry = [a \in Admins |-> 0]
    /\ signed = {}
    /\ denied = FALSE

To(a, place) == admin' = [admin EXCEPT ![a] = place]

\* What would go wrong: the expiry is not looked at again.
IsAuthorizedForEver(action) == key /\ until[action] > 0

IsAuthorized(action) == key /\ until[action] >= clock

\* What a token says: serialize_challenge_for_signing writes it into the bytes
\* that are signed and sent, parse_auth_token_bytes reads it from them.  The
\* nonce and the host, which are signed as well, are compared with nothing.
Payload(a) == [action |-> want[a], expiry |-> expiry[a]]

-----------------------------------------------------------------------------
(* UserAuditAdmin *)

Begin(a) ==
    /\ admin[a] = "new"
    /\ To(a, "fetch")
    /\ UNCHANGED <<clock, service, key, until, server, client, answer, stopper,
                   want, ours, expiry, signed, denied>>

\* pipe_transaction opens the pipe: it needs an instance that listens.
Open(a) ==
    /\ admin[a] \in {"fetch", "submit"}
    /\ IF server = "listen"
       THEN /\ server' = "serve"
            /\ client' = a
            /\ To(a, IF admin[a] = "fetch" THEN "fetching" ELSE "submitting")
       ELSE /\ To(a, "failed")
            /\ UNCHANGED <<server, client>>
    /\ UNCHANGED <<clock, service, key, until, answer, stopper, want, ours, expiry,
                   signed, denied>>

\* sign_auth_token signs whatever challenge came back.
Sign(a) ==
    /\ admin[a] = "sign"
    /\ To(a, "submit")
    /\ signed' = IF a \in ours
                 THEN signed \cup {Payload(a)}
                 ELSE signed
    /\ UNCHANGED <<clock, service, key, until, server, client, answer, stopper,
                   want, ours, expiry, denied>>

Waiting(a) == admin[a] \in {"fetching", "submitting"}

\* What would go wrong: the tool waits for more than the answer.
ReadMore(a) ==
    /\ Waiting(a)
    /\ answer[a] # "none"
    /\ To(a, "reading")
    /\ answer' = [answer EXCEPT ![a] = "none"]
    /\ UNCHANGED <<clock, service, key, until, server, client, stopper, want, ours,
                   expiry, signed, denied>>

\* An answer can be read while it lies in the pipe, also when the service is
\* gone by then.
Read(a) ==
    /\ Waiting(a)
    /\ answer[a] # "none"
    /\ To(a, CASE answer[a] = "challenge" -> "sign"
              [] answer[a] = "yes" -> "granted"
              [] answer[a] = "no" -> "failed")
    /\ answer' = [answer EXCEPT ![a] = "none"]
    /\ UNCHANGED <<clock, service, key, until, server, client, stopper, want, ours,
                   expiry, signed, denied>>

\* The tool dies with its pipe open; what it was sent is lost.  Nobody can
\* tell a death after it sent a token from one after the service took it.
Die(a) ==
    /\ Waiting(a)
    /\ To(a, "failed")
    /\ answer' = [answer EXCEPT ![a] = "none"]
    /\ UNCHANGED <<clock, service, key, until, server, client, stopper, want, ours,
                   expiry, signed, denied>>

-----------------------------------------------------------------------------
(* AuthPipeServer and AuthGuard *)

\* The loop condition: running_ and the stop flag, which the control handler
\* sets before stop() clears running_.
Check ==
    /\ server = "check"
    /\ server' = IF service = "running" THEN "create" ELSE "off"
    /\ UNCHANGED <<clock, service, key, until, client, stopper, adminVars, denied>>

\* CreateNamedPipeW can fail, and is tried again after a second.
Create ==
    /\ server = "create"
    /\ server' \in {"listen", "check"}
    /\ UNCHANGED <<clock, service, key, until, client, stopper, adminVars, denied>>

Answer(a, what) ==
    /\ server' = "answered"
    /\ answer' = [answer EXCEPT ![a] = what]

\* create_challenge: the expiry comes from the clock of the service.
GetChallenge(a) ==
    /\ server = "serve"
    /\ client = a
    /\ admin[a] = "fetching"
    /\ expiry' = [expiry EXCEPT ![a] = clock + Window]
    /\ Answer(a, "challenge")
    /\ UNCHANGED <<clock, service, key, until, client, stopper, admin, want, ours,
                   signed, denied>>

\* verify_auth_token: the organisation's key has signed just this.
Verified(a) == a \in ours /\ Payload(a) \in signed

\* submit_token: the key is loaded, the token has not expired and verifies.
Accepts(a) ==
    /\ key
    /\ expiry[a] >= clock
    /\ Verified(a)

\* What would go wrong: the two authorisations are swapped.
SubmitTokenSwapped(a) ==
    /\ server = "serve"
    /\ client = a
    /\ admin[a] = "submitting"
    /\ until' = IF Accepts(a)
                THEN [x \in Actions |-> IF x = want[a] THEN until[x] ELSE expiry[a]]
                ELSE until
    /\ Answer(a, IF Accepts(a) THEN "yes" ELSE "no")
    /\ UNCHANGED <<clock, service, key, client, stopper, admin, want, ours, expiry,
                   signed, denied>>

SubmitToken(a) ==
    /\ server = "serve"
    /\ client = a
    /\ admin[a] = "submitting"
    /\ until' = IF Accepts(a)
                THEN [until EXCEPT ![want[a]] = expiry[a]]
                ELSE until
    /\ Answer(a, IF Accepts(a) THEN "yes" ELSE "no")
    /\ UNCHANGED <<clock, service, key, client, stopper, admin, want, ours, expiry,
                   signed, denied>>

\* What would go wrong: the pipe is left to the client that reads from it.
DisconnectRead ==
    /\ server = "answered"
    /\ answer[client] = "none"
    /\ server' = "check"
    /\ client' = "none"
    /\ UNCHANGED <<clock, service, key, until, stopper, adminVars, denied>>

\* DisconnectNamedPipe discards an answer that has not been read yet, and the
\* client's read fails.
Disconnect ==
    /\ server = "answered"
    /\ server' = "check"
    /\ client' = "none"
    /\ answer' = [answer EXCEPT ![client] = "none"]
    /\ IF answer[client] = "none" THEN UNCHANGED admin ELSE To(client, "failed")
    /\ UNCHANGED <<clock, service, key, until, stopper, want, ours, expiry, signed,
                   denied>>

\* A read of a client that died, or of the wake-up connection, fails.
ClientGone ==
    /\ server = "serve"
    /\ client = "wake" \/ (client \in Admins /\ admin[client] = "failed")
    /\ server' = "check"
    /\ client' = "none"
    /\ UNCHANGED <<clock, service, key, until, stopper, adminVars, denied>>

-----------------------------------------------------------------------------
(* The service *)

StartService ==
    /\ service = "down"
    /\ service' = "running"
    /\ key' \in BOOLEAN
    /\ server' = "check"
    /\ UNCHANGED <<clock, until, client, stopper, adminVars, denied>>

\* SERVICE_CONTROL_STOP; a denied one changes nothing.
ControlStop ==
    /\ service = "running"
    /\ IsAuthorized("stop")
    /\ service' = "stopping"
    /\ stopper' = "wake"
    /\ UNCHANGED <<clock, key, until, server, client, adminVars, denied>>

\* stop() connects to the pipe, if an instance listens ...
Wake ==
    /\ stopper = "wake"
    /\ stopper' = "join"
    /\ IF server = "listen"
       THEN server' = "serve" /\ client' = "wake"
       ELSE UNCHANGED <<server, client>>
    /\ UNCHANGED <<clock, service, key, until, adminVars, denied>>

\* Every connection breaks, and AuthGuard's memory is lost.
ProcessGone ==
    /\ service' = "down"
    /\ until' = [x \in Actions |-> 0]
    /\ server' = "off"
    /\ client' = "none"
    /\ stopper' = "none"
    /\ admin' = [a \in Admins |->
                   IF Waiting(a) /\ answer[a] = "none" THEN "failed" ELSE admin[a]]
    /\ UNCHANGED <<clock, key, answer, want, ours, expiry, signed, denied>>

\* ... and joins its thread.
Join ==
    /\ stopper = "join"
    /\ server = "off"
    /\ ProcessGone

Crash == service # "down" /\ ProcessGone

\* UserAudit.exe --uninstall is a process of its own.  The AuthGuard it asks
\* was just created and holds no authorisation, so it always refuses, whether
\* its copy of the key is loaded or not.
Uninstall ==
    /\ LET fresh == [x \in Actions |-> 0] IN ~(fresh["uninstall"] >= clock)
    /\ denied' = (denied \/ IsAuthorized("uninstall"))
    /\ UNCHANGED <<clock, service, key, until, server, client, stopper, adminVars>>

Tick ==
    /\ clock < MaxClock
    /\ clock' = clock + 1
    /\ UNCHANGED <<service, key, until, server, client, stopper, adminVars, denied>>

AdminStep(a) == Begin(a) \/ Open(a) \/ Sign(a) \/ Read(a) \/ Die(a)

Serve(a) == GetChallenge(a) \/ SubmitToken(a)

Next ==
    \/ \E a \in Admins : AdminStep(a) \/ Serve(a)
    \/ Check
    \/ Create
    \/ Disconnect
    \/ ClientGone
    \/ StartService
    \/ ControlStop
    \/ Wake
    \/ Join
    \/ Crash
    \/ Uninstall
    \/ Tick

Spec == Init /\ [][Next]_vars

\* The threads of the service run, and UserAuditAdmin sends its command as
\* soon as it is connected or dies: nobody is asked anything in between.
Fairness ==
    /\ \A a \in Admins : WF_vars(Serve(a))
    /\ WF_vars(Check)
    /\ WF_vars(Create)
    /\ WF_vars(Disconnect)
    /\ WF_vars(ClientGone)
    /\ WF_vars(Wake)
    /\ WF_vars(Join)

FairSpec == Spec /\ Fairness

-----------------------------------------------------------------------------
(* Properties *)

\* The service begins to stop only under a token for stopping, signed with
\* the organisation's key for a challenge issued at most Window ago, however
\* many admins, restarts and older tokens there were.
StopNeedsToken ==
    [][service = "running" /\ service' = "stopping" =>
         \E t \in signed : t.action = "stop" /\ t.expiry \in clock .. clock + Window]_vars

\* An admin who is told that authorization is granted has it to the end of
\* his token, unless the process that granted it is gone: no other admin's
\* token comes between the acceptance and the answer.
GrantedIsInForce ==
    [][\A a \in Admins :
         admin[a] # "granted" /\ admin'[a] = "granted" =>
             client # a \/ (key /\ until[want[a]] >= expiry[a])]_vars

\* Stopping never waits for ever once the wake-up reached the server thread,
\* or the thread was serving anyway: the client it serves ends, the loop
\* condition is read again and the thread is joined.
WokenStops ==
    stopper = "join" /\ server \in {"serve", "answered", "check", "off"} ~> service # "stopping"

\* docs/InstallGuide.md, section 6: UserAuditAdmin --uninstall, and then
\* UserAudit.exe --uninstall removes the service.
UninstallWorks == ~denied

=============================================================================
