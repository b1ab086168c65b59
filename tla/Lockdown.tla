------------------------------ MODULE Lockdown ------------------------------
(***************************************************************************)
(* Tamper detection and lockdown, composed with the audit log they write   *)
(* to.  TamperCollector's event-log callbacks run concurrently; each       *)
(* reports what it saw with writer_.write() and then activates the         *)
(* LockdownManager, which tells the minifilter through DriverClient and    *)
(* writes one more event.  The minifilter denies every write below a       *)
(* directory UserAudit: the log and chain.state of the service itself      *)
(* included, but not the truncation that opening chain.state does.  Its    *)
(* port takes one connection at a time, and a message from whoever holds   *)
(* it sets or clears the lockdown.  LockdownManager::deactivate, which     *)
(* would clear it, has no caller.                                          *)
(*                                                                         *)
(* write() returns false without sealing while the writer has no keys, or  *)
(* when the HMAC cannot be computed; its callers do not look.              *)
(*                                                                         *)
(* A chain.state that cannot be written for another reason and a change of *)
(* the date are AuditLog's subject; here they do not happen.               *)
(***************************************************************************)
EXTENDS AuditLog

CONSTANTS Callbacks,  \* threads of the event log service that call back
          Others      \* processes other than the service open the filter's port

ASSUME LockdownAssumption == Others \in BOOLEAN

VARIABLES
    running,   \* the process of the service is there
    at,        \* where each callback is
    active,    \* LockdownManager::active_
    port,      \* DriverClient: connected_ and whether the port still exists
    loaded,    \* the minifilter is loaded
    other,     \* a process other than the service holds the port
    locked,    \* g_lockdown_active
    \* history
    report,    \* what became of a callback's report, until its message: {} not
               \* written yet, {h} sealed with the HMAC h, {Refused} not sealed
    cause,     \* the report of the callback whose message reached the filter last
    denied     \* the minifilter has kept a line from the log

guardVars    == <<running, at, active, port, loaded, other, locked, report, cause, denied>>
lockdownVars == <<vars, guardVars>>

\* In writer_.write() for the tamper event, and for lockdown_on.
Writing == {"logging", "announcing"}

\* No line has the HMAC 0.
Refused == 0

LockdownTypeOK ==
    /\ running \in BOOLEAN
    /\ at \in [Callbacks -> {"idle", "report", "activate", "send", "announce"} \cup Writing]
    /\ active \in BOOLEAN
    /\ port \in {"none", "open", "stale"}
    /\ loaded \in BOOLEAN
    /\ locked \in BOOLEAN
    /\ other \in BOOLEAN
    /\ report \in [Callbacks -> SUBSET Nat]
    /\ cause \subseteq Nat
    /\ denied \in BOOLEAN

LockdownInit ==
    /\ Init
    /\ running = FALSE
    /\ at = [c \in Callbacks |-> "idle"]
    /\ active = FALSE
    /\ port = "none"
    /\ loaded \in BOOLEAN
    /\ other = FALSE
    /\ locked = FALSE
    /\ report = [c \in Callbacks |-> {}]
    /\ cause = {Refused}
    /\ denied = FALSE

Go(c, place) == at' = [at EXCEPT ![c] = place]

Forget(c) == [report EXCEPT ![c] = {}]

-----------------------------------------------------------------------------
(* TamperCollector *)

\* What would go wrong: emit_tamper activates the lockdown before it reports.
DetectAndActivate(c) ==
    /\ running
    /\ at[c] = "idle"
    /\ Go(c, "activate")
    /\ UNCHANGED <<vars, running, active, port, loaded, other, locked, report, cause, denied>>

\* A record of a service stop, a changed start type or a denied access.
Detect(c) ==
    /\ running
    /\ at[c] = "idle"
    /\ Go(c, "report")
    /\ UNCHANGED <<vars, running, active, port, loaded, other, locked, report, cause, denied>>

\* emit_tamper's write() takes the mutex and seals the event.
Report(c) ==
    /\ at[c] = "report"
    /\ Seal
    /\ report' = [report EXCEPT ![c] = {seals'}]
    /\ Go(c, "logging")
    /\ UNCHANGED <<running, active, port, loaded, other, locked, cause, denied>>

\* write() takes the mutex and returns false: the writer is not ready, or the
\* event cannot be sealed.
ReportFails(c) ==
    /\ at[c] = "report"
    /\ pc = "idle"
    /\ report' = [report EXCEPT ![c] = {Refused}]
    /\ Go(c, "activate")
    /\ UNCHANGED <<vars, running, active, port, loaded, other, locked, cause, denied>>

-----------------------------------------------------------------------------
(* LockdownManager and DriverClient *)

\* What would go wrong: active_ is read, not exchanged.
ActivateReads(c) ==
    /\ at[c] = "activate"
    /\ Go(c, IF active THEN "idle" ELSE "send")
    /\ report' = IF active THEN Forget(c) ELSE report
    /\ UNCHANGED <<vars, running, active, port, loaded, other, locked, cause, denied>>

\* active_.exchange(true): whoever finds it set returns at once.
Activate(c) ==
    /\ at[c] = "activate"
    /\ Go(c, IF active THEN "idle" ELSE "send")
    /\ active' = TRUE
    /\ report' = IF active THEN Forget(c) ELSE report
    /\ UNCHANGED <<vars, running, port, loaded, other, locked, cause, denied>>

\* The port after connect(): a connection that was made is kept, even when
\* the driver has closed it since, and a new one can be refused.
Connect ==
    {port} \cup (IF port = "none" /\ loaded /\ ~other THEN {"open"} ELSE {})

\* What would go wrong: a connection made here is not used for the message.
SetLockdownConnectsOnly(c) ==
    /\ at[c] = "send"
    /\ port' \in Connect
    /\ locked' = (locked \/ port = "open")
    /\ cause' = IF port = "open" THEN report[c] ELSE cause
    /\ report' = Forget(c)
    /\ Go(c, "announce")
    /\ UNCHANGED <<vars, running, active, loaded, other, denied>>

\* set_lockdown(true): its result is ignored.
SetLockdown(c) ==
    /\ at[c] = "send"
    /\ port' \in Connect
    /\ locked' = (locked \/ port' = "open")
    /\ cause' = IF port' = "open" THEN report[c] ELSE cause
    /\ report' = Forget(c)
    /\ Go(c, "announce")
    /\ UNCHANGED <<vars, running, active, loaded, other, denied>>

\* emit_lockdown_event, after the lockdown.
Announce(c) ==
    /\ at[c] = "announce"
    /\ Seal
    /\ Go(c, "announcing")
    /\ UNCHANGED <<running, active, port, loaded, other, locked, report, cause, denied>>

\* Its write() returns false before it seals.
AnnounceFails(c) ==
    /\ at[c] = "announce"
    /\ pc = "idle"
    /\ Go(c, "idle")
    /\ UNCHANGED <<vars, running, active, port, loaded, other, locked, report, cause, denied>>

-----------------------------------------------------------------------------
(* The writer, for these callbacks and for every other collector *)

\* An event of another collector.
OtherSeal ==
    /\ Seal
    /\ UNCHANGED guardVars

\* The minifilter lets a write to a file of the service pass.
Permits == ~locked

\* What would go wrong: a callback that has announced never returns.
ReturnedNever ==
    /\ at' = [c \in Callbacks |->
                CASE at[c] = "logging"    -> "activate"
                  [] at[c] = "announcing" -> "announced"
                  [] OTHER                -> at[c]]
    /\ UNCHANGED <<running, active, port, loaded, other, locked, report, cause>>

\* write() returned to its caller: a callback goes on.
Returned ==
    /\ at' = [c \in Callbacks |->
                CASE at[c] = "logging"    -> "activate"
                  [] at[c] = "announcing" -> "idle"
                  [] OTHER                -> at[c]]
    /\ UNCHANGED <<running, active, port, loaded, other, locked, report, cause>>

\* Opening chain.state, and so emptying it, is no write.
SaveSteps ==
    /\ \/ SaveOpen
       \/ Permits /\ SaveContent
       \/ ~Permits /\ pc = "flush" /\ SaveFails
    /\ UNCHANGED guardVars

Kept == Permits /\ Store /\ Returned /\ UNCHANGED denied

\* The record never reaches the file.
Denied ==
    /\ ~Permits
    /\ WriteFails
    /\ torn' = torn
    /\ denied' = TRUE
    /\ Returned

Fails ==
    /\ \/ Reject
       \/ OpenFails
       \/ Permits /\ WriteFails
    /\ Returned
    /\ UNCHANGED denied

-----------------------------------------------------------------------------
(* Service and driver *)

\* run_event_loop goes on when the writer could not be initialized.
StartService ==
    /\ ~running
    /\ running' = TRUE
    /\ Start \/ UNCHANGED vars
    /\ port' \in Connect
    /\ UNCHANGED <<at, active, loaded, other, locked, report, cause, denied>>

\* write() of any thread initializes a writer that is not ready.
ReadyWriter ==
    /\ running
    /\ Start
    /\ UNCHANGED guardVars

\* The service stops or is killed.  The lockdown of the kernel outlives the
\* process; LockdownManager's own flag does not.
StopService ==
    /\ running
    /\ running' = FALSE
    /\ IF up THEN Crash ELSE UNCHANGED vars
    /\ at' = [c \in Callbacks |-> "idle"]
    /\ active' = FALSE
    /\ port' = "none"
    /\ report' = [c \in Callbacks |-> {}]
    /\ UNCHANGED <<loaded, other, locked, cause, denied>>

LoadDriver ==
    /\ ~loaded
    /\ loaded' = TRUE
    /\ UNCHANGED <<vars, running, at, active, port, other, locked, report, cause, denied>>

UnloadDriver ==
    /\ loaded
    /\ loaded' = FALSE
    /\ locked' = FALSE
    /\ other' = FALSE
    /\ port' = IF port = "open" THEN "stale" ELSE port
    /\ UNCHANGED <<vars, running, at, active, report, cause, denied>>

\* What would go wrong: the port takes a second connection.
OtherConnectsToo ==
    /\ Others /\ loaded /\ ~other
    /\ other' = TRUE
    /\ UNCHANGED <<vars, running, at, active, port, loaded, locked, report, cause, denied>>

\* The port takes one connection: another process gets it while the service
\* does not hold it.
OtherConnects ==
    /\ Others /\ loaded /\ ~other
    /\ port # "open"
    /\ other' = TRUE
    /\ UNCHANGED <<vars, running, at, active, port, loaded, locked, report, cause, denied>>

\* UserAuditPortMessage with USERAUDIT_IOCTL_SET_LOCKDOWN and either value.
OtherSets ==
    /\ other
    /\ locked' = ~locked
    /\ UNCHANGED <<vars, running, at, active, port, loaded, other, report, cause, denied>>

OtherLeaves ==
    /\ other
    /\ other' = FALSE
    /\ UNCHANGED <<vars, running, at, active, port, loaded, locked, report, cause, denied>>

Environment == LoadDriver \/ UnloadDriver \/ OtherConnects \/ OtherSets \/ OtherLeaves

WriterStep == SaveSteps \/ Kept \/ Denied \/ Fails

CallbackStep(c) ==
    \/ Report(c) \/ ReportFails(c)
    \/ Activate(c)
    \/ SetLockdown(c)
    \/ Announce(c) \/ AnnounceFails(c)

LockdownNext ==
    \/ \E c \in Callbacks : Detect(c) \/ CallbackStep(c)
    \/ OtherSeal
    \/ WriterStep
    \/ StartService
    \/ ReadyWriter
    \/ StopService
    \/ Environment

LockdownSpec == LockdownInit /\ [][LockdownNext]_lockdownVars

-----------------------------------------------------------------------------
(* Properties *)

\* However many callbacks report at once, one of them locks the kernel and
\* announces it, because active_ is tested and set in one step.
OneActivation ==
    LET acting == {c \in Callbacks : at[c] \in {"send", "announce", "announcing"}}
    IN  Cardinality(acting) <= 1 /\ (acting # {} => active)

\* The reports that write() has returned from.
Answered == {l.hmac : l \in Settled} \cup {Refused}

\* A callback's message reaches the filter only after the log has stored,
\* dropped or refused that callback's own report, however many callbacks write
\* at once and whatever happens to their writes: emit_tamper returns from
\* write() before it activates.
LockAfterReport == cause # {} /\ cause \subseteq Answered

\* A service that holds an open port and has activated the lockdown has a
\* locked kernel, once its message is sent: that no step repeats a failed
\* set_lockdown matters only while the port is missing or stale.
OpenPortLocks ==
    active /\ port = "open" /\ (\A c \in Callbacks : at[c] # "send") => locked

\* While the service holds the port, nothing but unloading the driver ends a
\* lockdown, and what the service's own stop, restart or events do never ends
\* one: the port takes one connection, so that no other process can clear it.
LockHeld == [][locked /\ ~locked' => ~loaded' \/ (port # "open" /\ other)]_lockdownVars

\* Lockdown empties chain.state and denies its new content, so after a
\* restart the chain begins at genesis: a break that shows, and never a
\* second branch from an older link.
LockdownLeavesTrace ==
    \A x \in Settled, y \in Stored :
        x.hmac < y.hmac => y.prev_hmac >= x.hmac \/ y.prev_hmac = Genesis

\* Under tampering, lockdown and a driver that comes and goes, the log does
\* nothing its own specification does not allow.
LogSpec == Spec

\* docs/SecurityModel.md says lockdown makes the log append-only: what the
\* service appends is not denied.
AppendOnly == ~denied

=============================================================================
