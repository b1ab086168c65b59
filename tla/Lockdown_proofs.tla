-------------------------- MODULE Lockdown_proofs --------------------------
(***************************************************************************)
(* Proofs about Lockdown, for any set of callbacks: whatever tampering,    *)
(* lockdown and the driver do, the log only takes steps of AuditLog, so    *)
(* that all that is proved of AuditLog holds here; one callback activates  *)
(* the lockdown; its message follows its report; an open port is a locked  *)
(* kernel; while the service holds the port, only unloading the driver     *)
(* unlocks it.                                                             *)
(***************************************************************************)
EXTENDS Lockdown, AuditLog_proofs

-----------------------------------------------------------------------------
(* The lockdown leaves the log to the log's own steps *)

LEMMA StepIsLogStep == [LockdownNext]_lockdownVars => [Next]_vars
<1>. SUFFICES ASSUME [LockdownNext]_lockdownVars PROVE [Next]_vars
  OBVIOUS
<1>1. ASSUME NEW c \in Callbacks, Detect(c) \/ CallbackStep(c) PROVE [Next]_vars
  BY <1>1
     DEF Detect, CallbackStep, Report, ReportFails, Activate, SetLockdown, Announce,
         AnnounceFails, Next
<1>2. CASE OtherSeal
  BY <1>2 DEF OtherSeal, Next
<1>3. CASE WriterStep
  <2>1. CASE SaveSteps
    BY <2>1 DEF SaveSteps, Next
  <2>2. CASE Kept \/ Fails
    BY <2>2 DEF Kept, Fails, Next
  <2>3. CASE Denied
    BY <2>3 DEF Denied, Next
  <2>. QED
    BY <1>3, <2>1, <2>2, <2>3 DEF WriterStep
<1>4. CASE StartService \/ ReadyWriter \/ StopService
  BY <1>4 DEF StartService, ReadyWriter, StopService, Next
<1>5. CASE Environment
  BY <1>5 DEF Environment, LoadDriver, UnloadDriver, OtherConnects, OtherSets, OtherLeaves
<1>6. CASE UNCHANGED lockdownVars
  BY <1>6 DEF lockdownVars
<1>. QED
  BY <1>1, <1>2, <1>3, <1>4, <1>5, <1>6 DEF LockdownNext

\* Under tampering and lockdown the log stays within its specification, and
\* with it within the ledger.
THEOREM LogSpecHolds == LockdownSpec => LogSpec
<1>1. LockdownInit => Init
  BY DEF LockdownInit
<1>. QED
  BY <1>1, StepIsLogStep, PTL DEF LockdownSpec, LogSpec, Spec

THEOREM LedgerUnderLockdown == LockdownSpec => LedgerSpec
BY LogSpecHolds, LogImplementsLedger, PTL DEF LogSpec

-----------------------------------------------------------------------------
(* The inductive invariant *)

Acting == {"send", "announce", "announcing"}

\* A process that is gone has no callbacks, no writer and no active_.
Down ==
    /\ up => running
    /\ ~running => ~active /\ \A c \in Callbacks : at[c] = "idle"

\* Whoever finds active_ clear goes on alone.
Alone ==
    /\ \A c, d \in Callbacks : at[c] \in Acting /\ at[d] \in Acting => c = d
    /\ \A c \in Callbacks : at[c] \in Acting => active

\* The report in flight is the line in flight, and one that led to the
\* activation has been answered.
Reported ==
    \A c \in Callbacks :
        /\ at[c] = "logging" => pc # "idle" /\ report[c] = {line.hmac}
        /\ at[c] \in {"activate", "send"} => report[c] # {} /\ report[c] \subseteq Answered

\* The port takes one connection.
OneConnection == other => port # "open"

LInv ==
    /\ TypeOK
    /\ LockdownTypeOK
    /\ Down
    /\ Alone
    /\ Reported
    /\ OneConnection
    /\ LockAfterReport
    /\ OpenPortLocks

\* What the end of a write does, however it ends.
LEMMA WriteReturns ==
    ASSUME TypeOK, Kept \/ Denied \/ Fails
    PROVE  /\ Returned
           /\ pc = "append"
           /\ Settled' = Settled \cup {line}
           /\ up' = up
           /\ denied' \in {denied, TRUE}
<1>1. Ends /\ Returned /\ denied' \in {denied, TRUE}
  BY DEF Kept, Denied, Fails, Ends
<1>2. up' = up
  BY <1>1 DEF Ends, Store, Reject, OpenFails, WriteFails, Return
<1>. QED
  BY <1>1, <1>2, EndsSettle

\* What any other step of the writer does.
LEMMA SaveStepsFrame ==
    ASSUME SaveSteps
    PROVE  /\ UNCHANGED <<guardVars, up, line>>
           /\ pc' # "idle"
           /\ Settled' = Settled
<1>1. UNCHANGED guardVars /\ (SaveOpen \/ SaveContent \/ SaveFails)
  BY DEF SaveSteps
<1>2. UNCHANGED <<up, line>> /\ pc' # "idle"
  BY <1>1 DEF SaveOpen, SaveContent, SaveFails
<1>. QED
  BY <1>1, <1>2, OthersSettleNothing

LEMMA SealFrame ==
    ASSUME TypeOK, Seal
    PROVE  /\ pc = "idle"
           /\ pc' = "save"
           /\ up /\ up'
           /\ line'.hmac = seals'
           /\ seals' \in Nat
           /\ Settled' = Settled
BY OthersSettleNothing DEF Seal, TypeOK

-----------------------------------------------------------------------------
(* The invariant is inductive *)

\* What is answered stays answered.
LEMMA AnsweredGrows ==
    ASSUME Settled \subseteq Settled'
    PROVE  Answered \subseteq Answered'
BY DEF Answered

LEMMA LInit == LockdownInit => LInv
<1>. SUFFICES ASSUME LockdownInit PROVE LInv
  OBVIOUS
<1>1. TypeOK
  BY InitType DEF LockdownInit
<1>2. at \in [Callbacks -> {"idle"}]
  BY DEF LockdownInit
<1>3. LockdownTypeOK
  <2>1. at \in [Callbacks -> {"idle", "report", "activate", "send", "announce"} \cup Writing]
    BY <1>2
  <2>2. report \in [Callbacks -> SUBSET Nat]
    BY DEF LockdownInit
  <2>3. cause \subseteq Nat
    BY DEF LockdownInit, Refused
  <2>. QED
    BY <2>1, <2>2, <2>3 DEF LockdownInit, LockdownTypeOK
<1>4. Down /\ Alone /\ Reported /\ OneConnection /\ OpenPortLocks
  BY DEF LockdownInit, Init, Down, Alone, Reported, OneConnection, OpenPortLocks, Acting
<1>5. LockAfterReport
  BY DEF LockdownInit, LockAfterReport, Answered
<1>. QED
  BY <1>1, <1>3, <1>4, <1>5 DEF LInv

\* A step of one callback that leaves the log alone.
LEMMA LogAlone ==
    ASSUME UNCHANGED vars
    PROVE  Settled' = Settled /\ Answered' = Answered /\ UNCHANGED <<up, pc, line>>
BY OthersSettleNothing DEF Answered, vars, memVars

LEMMA DetectInv ==
    ASSUME LInv, TypeOK', NEW c \in Callbacks, Detect(c)
    PROVE  LInv'
<1>1. Answered' = Answered /\ UNCHANGED <<up, pc, line>>
  BY LogAlone DEF Detect
<1>2. /\ running /\ UNCHANGED <<running, active, port, other, locked, loaded, report, cause, denied>>
      /\ at[c] = "idle" /\ at' = [at EXCEPT ![c] = "report"]
  BY DEF Detect, Go
<1>3. LockdownTypeOK' /\ Down' /\ Alone'
  BY <1>1, <1>2 DEF LInv, LockdownTypeOK, Writing, Down, Alone, Acting
<1>4. Reported' /\ OneConnection' /\ LockAfterReport' /\ OpenPortLocks'
  BY <1>1, <1>2
     DEF LInv, LockdownTypeOK, Reported, OneConnection, LockAfterReport, OpenPortLocks
<1>. QED
  BY <1>3, <1>4 DEF LInv

LEMMA ReportInv ==
    ASSUME LInv, TypeOK', NEW c \in Callbacks, Report(c)
    PROVE  LInv'
<1>1. /\ pc = "idle" /\ pc' = "save" /\ up /\ up'
      /\ line'.hmac = seals' /\ seals' \in Nat
      /\ Settled' = Settled
  BY SealFrame DEF LInv, Report
<1>2. /\ report' = [report EXCEPT ![c] = {seals'}]
      /\ at' = [at EXCEPT ![c] = "logging"]
      /\ UNCHANGED <<running, active, port, other, loaded, locked, cause, denied>>
      /\ at[c] = "report"
  BY DEF Report, Go
<1>3. Answered' = Answered
  BY <1>1 DEF Answered
<1>4. LockdownTypeOK' /\ Down' /\ Alone'
  BY <1>1, <1>2 DEF LInv, LockdownTypeOK, Writing, Down, Alone, Acting
<1>5. Reported' /\ OneConnection' /\ LockAfterReport' /\ OpenPortLocks'
  BY <1>1, <1>2, <1>3
     DEF LInv, LockdownTypeOK, Reported, OneConnection, LockAfterReport, OpenPortLocks
<1>. QED
  BY <1>4, <1>5 DEF LInv

\* A write that returns before it seals answers the callback too.
LEMMA RefusedInv ==
    ASSUME LInv, TypeOK', NEW c \in Callbacks, ReportFails(c) \/ AnnounceFails(c)
    PROVE  LInv'
<1>1. Answered' = Answered /\ UNCHANGED <<up, pc, line>>
  BY LogAlone DEF ReportFails, AnnounceFails
<1>2. UNCHANGED <<running, active, port, other, loaded, locked, cause, denied>>
  BY DEF ReportFails, AnnounceFails
<1>3. running
  BY DEF LInv, Down, ReportFails, AnnounceFails
<1>4. CASE ReportFails(c)
  <2>1. /\ report' = [report EXCEPT ![c] = {Refused}]
        /\ at[c] = "report" /\ at' = [at EXCEPT ![c] = "activate"]
    BY <1>4 DEF ReportFails, Go
  <2>2. Refused \in Answered /\ Refused \in Nat
    BY DEF Answered, Refused
  <2>3. LockdownTypeOK' /\ Down' /\ Alone'
    BY <1>1, <1>2, <1>3, <2>1, <2>2 DEF LInv, LockdownTypeOK, Writing, Down, Alone, Acting
  <2>4. Reported' /\ OneConnection' /\ LockAfterReport' /\ OpenPortLocks'
    BY <1>1, <1>2, <2>1, <2>2
       DEF LInv, LockdownTypeOK, Reported, OneConnection, LockAfterReport, OpenPortLocks
  <2>. QED
    BY <2>3, <2>4 DEF LInv
<1>5. CASE AnnounceFails(c)
  <2>1. report' = report /\ at[c] = "announce" /\ at' = [at EXCEPT ![c] = "idle"]
    BY <1>5 DEF AnnounceFails, Go
  <2>2. LockdownTypeOK' /\ Down' /\ Alone'
    BY <1>1, <1>2, <1>3, <2>1 DEF LInv, LockdownTypeOK, Writing, Down, Alone, Acting
  <2>3. Reported' /\ OneConnection' /\ LockAfterReport' /\ OpenPortLocks'
    BY <1>1, <1>2, <2>1
       DEF LInv, LockdownTypeOK, Reported, OneConnection, LockAfterReport, OpenPortLocks
  <2>. QED
    BY <2>2, <2>3 DEF LInv
<1>. QED
  BY <1>4, <1>5

LEMMA ActivateInv ==
    ASSUME LInv, TypeOK', NEW c \in Callbacks, Activate(c)
    PROVE  LInv'
<1>1. Answered' = Answered /\ UNCHANGED <<up, pc, line>>
  BY LogAlone DEF Activate
<1>2. /\ UNCHANGED <<running, port, other, locked, loaded, cause, denied>>
      /\ active' = TRUE
      /\ at[c] = "activate"
      /\ at' = [at EXCEPT ![c] = IF active THEN "idle" ELSE "send"]
      /\ report' = IF active THEN Forget(c) ELSE report
  BY DEF Activate, Go
<1>3. running
  BY <1>2 DEF LInv, Down
<1>4. OneConnection' /\ LockAfterReport'
  BY <1>1, <1>2 DEF LInv, OneConnection, LockAfterReport
<1>5. CASE active
  <2>1. at' = [at EXCEPT ![c] = "idle"] /\ report' = [report EXCEPT ![c] = {}]
    BY <1>2, <1>5 DEF Forget
  <2>2. LockdownTypeOK' /\ Down' /\ Alone'
    BY <1>1, <1>2, <1>3, <1>5, <2>1 DEF LInv, LockdownTypeOK, Writing, Down, Alone, Acting
  <2>3. Reported' /\ OpenPortLocks'
    BY <1>1, <1>2, <1>5, <2>1 DEF LInv, LockdownTypeOK, Reported, OpenPortLocks
  <2>. QED
    BY <1>4, <2>2, <2>3 DEF LInv
<1>6. CASE ~active
  \* Nobody else acts, and c itself is about to send.
  <2>1. \A d \in Callbacks : at[d] \notin Acting
    BY <1>6 DEF LInv, Alone
  <2>2. at' = [at EXCEPT ![c] = "send"] /\ report' = report
    BY <1>2, <1>6
  <2>3. LockdownTypeOK' /\ Down' /\ Alone'
    BY <1>1, <1>2, <1>3, <2>1, <2>2 DEF LInv, LockdownTypeOK, Writing, Down, Alone, Acting
  <2>4. Reported' /\ OpenPortLocks'
    BY <1>1, <1>2, <2>2 DEF LInv, LockdownTypeOK, Reported, OpenPortLocks
  <2>. QED
    BY <1>4, <2>3, <2>4 DEF LInv
<1>. QED
  BY <1>5, <1>6

LEMMA SetLockdownInv ==
    ASSUME LInv, TypeOK', NEW c \in Callbacks, SetLockdown(c)
    PROVE  LInv'
<1>1. Answered' = Answered /\ UNCHANGED <<up, pc, line>>
  BY LogAlone DEF SetLockdown
<1>2. /\ UNCHANGED <<running, active, other, loaded, denied>>
      /\ at[c] = "send"
      /\ at' = [at EXCEPT ![c] = "announce"]
      /\ report' = [report EXCEPT ![c] = {}]
      /\ port' \in {port} \cup (IF port = "none" /\ loaded /\ ~other THEN {"open"} ELSE {})
      /\ locked' = (locked \/ port' = "open")
      /\ cause' = IF port' = "open" THEN report[c] ELSE cause
  BY DEF SetLockdown, Connect, Go, Forget
<1>3. running
  BY <1>2 DEF LInv, Down
<1>4. report[c] # {} /\ report[c] \subseteq Answered /\ report[c] \subseteq Nat
  BY <1>2 DEF LInv, Reported, LockdownTypeOK
<1>5. LockdownTypeOK' /\ Down' /\ Alone'
  <2>1. /\ at' \in [Callbacks -> {"idle", "report", "activate", "send", "announce"} \cup Writing]
        /\ report' \in [Callbacks -> SUBSET Nat]
        /\ cause' \subseteq Nat
        /\ port' \in {"none", "open", "stale"}
        /\ locked' \in BOOLEAN
    BY <1>2, <1>4 DEF LInv, LockdownTypeOK, Writing
  <2>2. LockdownTypeOK'
    BY <1>2, <2>1 DEF LInv, LockdownTypeOK
  <2>3. Down' /\ Alone'
    BY <1>1, <1>2, <1>3 DEF LInv, LockdownTypeOK, Down, Alone, Acting
  <2>. QED
    BY <2>2, <2>3
<1>6. Reported' /\ OneConnection' /\ LockAfterReport' /\ OpenPortLocks'
  BY <1>1, <1>2, <1>4
     DEF LInv, LockdownTypeOK, Reported, OneConnection, LockAfterReport, OpenPortLocks
<1>. QED
  BY <1>5, <1>6 DEF LInv

LEMMA AnnounceInv ==
    ASSUME LInv, TypeOK', NEW c \in Callbacks, Announce(c)
    PROVE  LInv'
<1>1. /\ pc = "idle" /\ pc' = "save" /\ up /\ up'
      /\ Settled' = Settled
  BY SealFrame DEF LInv, Announce
<1>2. /\ at[c] = "announce"
      /\ at' = [at EXCEPT ![c] = "announcing"]
      /\ UNCHANGED <<running, active, port, other, loaded, locked, report, cause, denied>>
  BY DEF Announce, Go
<1>3. Answered' = Answered
  BY <1>1 DEF Answered
<1>4. LockdownTypeOK' /\ Down' /\ Alone'
  BY <1>1, <1>2 DEF LInv, LockdownTypeOK, Writing, Down, Alone, Acting
<1>5. Reported' /\ OneConnection' /\ LockAfterReport' /\ OpenPortLocks'
  BY <1>1, <1>2, <1>3
     DEF LInv, LockdownTypeOK, Reported, OneConnection, LockAfterReport, OpenPortLocks
<1>. QED
  BY <1>4, <1>5 DEF LInv

LEMMA ReturnInv ==
    ASSUME LInv, TypeOK', Kept \/ Denied \/ Fails
    PROVE  LInv'
<1>1. /\ Returned
      /\ pc = "append"
      /\ Settled' = Settled \cup {line}
      /\ up' = up
      /\ denied' \in {denied, TRUE}
  BY WriteReturns DEF LInv
<1>2. /\ at' = [c \in Callbacks |->
                  CASE at[c] = "logging"    -> "activate"
                    [] at[c] = "announcing" -> "idle"
                    [] OTHER                -> at[c]]
      /\ UNCHANGED <<running, active, port, other, loaded, locked, report, cause>>
  BY <1>1 DEF Returned
<1>3. Answered' = Answered \cup {line.hmac}
  BY <1>1 DEF Answered
<1>4. LockdownTypeOK'
  BY <1>1, <1>2 DEF LInv, LockdownTypeOK, Writing
<1>5. Down' /\ Alone' /\ OneConnection' /\ LockAfterReport' /\ OpenPortLocks'
  BY <1>1, <1>2, <1>3
     DEF LInv, LockdownTypeOK, Down, Alone, OneConnection, LockAfterReport, OpenPortLocks,
         Acting
<1>6. Reported'
  \* A callback whose report was in flight now has it settled.
  <2>. SUFFICES ASSUME NEW c \in Callbacks
                PROVE  /\ at'[c] # "logging"
                       /\ at'[c] \in {"activate", "send"} =>
                            report[c] # {} /\ report[c] \subseteq Answered'
    BY <1>2 DEF Reported
  <2>1. CASE at[c] = "logging"
    BY <1>2, <1>3, <2>1 DEF LInv, Reported
  <2>2. CASE at[c] # "logging"
    BY <1>2, <1>3, <2>2 DEF LInv, Reported
  <2>. QED
    BY <2>1, <2>2
<1>. QED
  BY <1>4, <1>5, <1>6 DEF LInv

LEMMA OtherWriterInv ==
    ASSUME LInv, TypeOK', OtherSeal \/ SaveSteps
    PROVE  LInv'
<1>1. UNCHANGED guardVars /\ Settled' = Settled /\ pc' # "idle" /\ up' = up
  BY SaveStepsFrame, SealFrame DEF OtherSeal, LInv
<1>2. \A c \in Callbacks : at[c] = "logging" => line' = line
  BY SaveStepsFrame, SealFrame DEF OtherSeal, LInv, Reported
<1>3. Answered' = Answered
  BY <1>1 DEF Answered
<1>. QED
  BY <1>1, <1>2, <1>3
     DEF guardVars, LInv, LockdownTypeOK, Down, Alone, Reported, OneConnection,
         LockAfterReport, OpenPortLocks

\* A writer that becomes ready, when the service starts or later.
LEMMA ReadyInv ==
    ASSUME LInv, TypeOK', StartService \/ ReadyWriter
    PROVE  LInv'
<1>1. Start \/ UNCHANGED vars
  BY DEF StartService, ReadyWriter
<1>2. Settled' = Settled /\ UNCHANGED <<pc, line>>
  BY <1>1, LogAlone, OthersSettleNothing DEF Start
<1>3. Answered' = Answered
  BY <1>2 DEF Answered
<1>4. /\ running' /\ UNCHANGED <<at, active, loaded, other, locked, report, cause, denied>>
      /\ port' \in {port} \cup (IF port = "none" /\ loaded /\ ~other THEN {"open"} ELSE {})
      /\ running \/ \A c \in Callbacks : at[c] = "idle"
      /\ ~running => ~active
      /\ running => port' = port
  BY DEF StartService, ReadyWriter, guardVars, Connect, LInv, Down
<1>5. LockdownTypeOK' /\ Down' /\ Alone'
  BY <1>4 DEF LInv, LockdownTypeOK, Down, Alone
<1>6. Reported' /\ OneConnection' /\ LockAfterReport' /\ OpenPortLocks'
  BY <1>2, <1>3, <1>4
     DEF LInv, Reported, OneConnection, LockAfterReport, OpenPortLocks
<1>. QED
  BY <1>5, <1>6 DEF LInv

LEMMA StopServiceInv ==
    ASSUME LInv, TypeOK', StopService
    PROVE  LInv'
<1>1. Settled \subseteq Settled'
  BY CrashSettles, OthersSettleNothing DEF StopService, LInv
<1>2. Answered \subseteq Answered'
  BY <1>1, AnsweredGrows
<1>3. /\ ~running' /\ ~up'
      /\ at' = [c \in Callbacks |-> "idle"]
      /\ report' = [c \in Callbacks |-> {}]
      /\ ~active' /\ active' \in BOOLEAN /\ running' \in BOOLEAN
      /\ port' = "none" /\ UNCHANGED <<loaded, other, locked, cause, denied>>
  BY DEF StopService, Crash, vars, memVars
<1>4. LockdownTypeOK'
  BY <1>3 DEF LInv, LockdownTypeOK
<1>5. Down' /\ Alone' /\ Reported' /\ OneConnection' /\ LockAfterReport' /\ OpenPortLocks'
  BY <1>2, <1>3
     DEF LInv, Down, Alone, Reported, OneConnection, LockAfterReport, OpenPortLocks, Acting
<1>. QED
  BY <1>4, <1>5 DEF LInv

\* The driver comes and goes, and another process opens its port when the
\* service does not hold it.
LEMMA DriverInv ==
    ASSUME LInv, TypeOK', Environment \/ UNCHANGED lockdownVars
    PROVE  LInv'
<1>1. Answered' = Answered /\ UNCHANGED <<up, pc, line>>
  BY LogAlone
     DEF Environment, LoadDriver, UnloadDriver, OtherConnects, OtherSets, OtherLeaves,
         lockdownVars
<1>2. UNCHANGED <<running, at, active, report, cause, denied>>
  BY DEF Environment, LoadDriver, UnloadDriver, OtherConnects, OtherSets, OtherLeaves,
         lockdownVars, guardVars
<1>3. LockdownTypeOK'
  BY <1>2
     DEF LInv, LockdownTypeOK, Environment, LoadDriver, UnloadDriver, OtherConnects,
         OtherSets, OtherLeaves, lockdownVars, guardVars
<1>4. /\ OneConnection'
      /\ port' = "open" => port = "open" /\ locked' = locked
  BY DEF LInv, OneConnection, Environment, LoadDriver, UnloadDriver, OtherConnects,
         OtherSets, OtherLeaves, lockdownVars, guardVars
<1>5. Down' /\ Alone' /\ Reported' /\ LockAfterReport' /\ OpenPortLocks'
  BY <1>1, <1>2, <1>4 DEF LInv, Down, Alone, Reported, LockAfterReport, OpenPortLocks
<1>. QED
  BY <1>3, <1>4, <1>5 DEF LInv

LEMMA LNext == LInv /\ [LockdownNext]_lockdownVars => LInv'
<1>. SUFFICES ASSUME LInv, [LockdownNext]_lockdownVars PROVE LInv'
  OBVIOUS
<1>1. TypeOK'
  BY StepIsLogStep, NextType DEF LInv
<1>. QED
  BY <1>1, DetectInv, ReportInv, RefusedInv, ActivateInv, SetLockdownInv, AnnounceInv,
     ReturnInv, OtherWriterInv, ReadyInv, StopServiceInv, DriverInv
     DEF LockdownNext, CallbackStep, WriterStep

LEMMA LInvariance == LockdownSpec => []LInv
BY LInit, LNext, PTL DEF LockdownSpec

-----------------------------------------------------------------------------
(* Theorems *)

\* The state of callbacks, LockdownManager and driver has its declared types.
THEOREM LockdownTypeCorrect == LockdownSpec => []LockdownTypeOK
<1>1. LInv => LockdownTypeOK
  BY DEF LInv
<1>. QED
  BY <1>1, LInvariance, PTL

\* However many callbacks report, active_.exchange lets one of them lock.
THEOREM OneActivationHolds == LockdownSpec => []OneActivation
<1>1. ASSUME LInv PROVE OneActivation
  <2>. DEFINE acting == {c \in Callbacks : at[c] \in {"send", "announce", "announcing"}}
  <2>1. \A c, d \in acting : c = d
    BY <1>1 DEF LInv, Alone, Acting
  <2>2. acting # {} => active
    BY <1>1 DEF LInv, Alone, Acting
  <2>3. Cardinality(acting) <= 1
    <3>1. CASE acting = {}
      BY <3>1, FS_EmptySet
    <3>2. CASE acting # {}
      <4>. PICK c \in acting : TRUE
        BY <3>2
      <4>1. acting = {c}
        BY <2>1
      <4>2. Cardinality({c}) = 1
        BY FS_Singleton
      <4>. HIDE DEF acting
      <4>. QED
        BY <4>1, <4>2
    <3>. QED
      BY <3>1, <3>2
  <2>. QED
    BY <2>2, <2>3 DEF OneActivation
<1>. QED
  BY <1>1, LInvariance, PTL

\* Every message of the service that locked the kernel came from a callback
\* whose own report write() had returned from: stored, dropped or refused.
THEOREM LockAfterReportHolds == LockdownSpec => []LockAfterReport
<1>1. LInv => LockAfterReport
  BY DEF LInv
<1>. QED
  BY <1>1, LInvariance, PTL

\* An active lockdown with an open port and no message under way is a locked
\* kernel.
THEOREM OpenPortLocksHolds == LockdownSpec => []OpenPortLocks
<1>1. LInv => OpenPortLocks
  BY DEF LInv
<1>. QED
  BY <1>1, LInvariance, PTL

\* While the service holds the port, a lockdown ends only with the driver: the
\* only other step that clears it is a message of another process, which has
\* no connection then.
THEOREM LockHeldHolds == LockdownSpec => LockHeld
<1>. DEFINE A == locked /\ ~locked' => ~loaded' \/ (port # "open" /\ other)
<1>1. ASSUME LInv, [LockdownNext]_lockdownVars PROVE A
  <2>1. CASE UnloadDriver
    BY <2>1 DEF UnloadDriver
  <2>2. CASE OtherSets
    BY <1>1, <2>2 DEF OtherSets, LInv, OneConnection
  <2>3. ASSUME NEW c \in Callbacks, SetLockdown(c) PROVE A
    BY <2>3 DEF SetLockdown
  <2>4. CASE WriterStep
    BY <1>1, <2>4, WriteReturns, SaveStepsFrame
       DEF LInv, WriterStep, Returned, guardVars
  <2>5. CASE locked' = locked
    BY <2>5
  <2>. QED
    BY <1>1, <2>1, <2>2, <2>3, <2>4, <2>5
       DEF LockdownNext, Detect, CallbackStep, Report, ReportFails, Activate, Announce,
           AnnounceFails, OtherSeal, StartService, ReadyWriter, StopService, Environment,
           LoadDriver, OtherConnects, OtherLeaves, lockdownVars, guardVars
<1>. QED
  BY <1>1, LInvariance, PTL DEF LockdownSpec, LockHeld

-----------------------------------------------------------------------------
(* The trace that a lockdown leaves *)

\* chain.state is emptied before its new content is denied: a save that the
\* minifilter stops half way leaves the fresh state and never an old head, and
\* no settled event is newer than what the next link can reach.
ReachesAll ==
    /\ Reaches(ChainHead.prev_hmac)
    /\ Reaches(chain_state.prev_hmac)
    /\ pc = "flush" => chain_state = Fresh
    /\ pc = "append" => chain_state.prev_hmac \in {Genesis, line.hmac}
    /\ \A x, y \in Settled :
         x.hmac < y.hmac => y.prev_hmac >= x.hmac \/ y.prev_hmac = Genesis

\* The line in flight, whose number is the newest, is settled.
LEMMA SettleReaches ==
    ASSUME IInv, ReachesAll, pc = "append", Settled' = Settled \cup {line},
           UNCHANGED <<chain_state, seals>>, pc' = "idle"
    PROVE  /\ Reaches(seals)' /\ Reaches(chain_state.prev_hmac)'
           /\ \A x, y \in Settled' :
                x.hmac < y.hmac => y.prev_hmac >= x.hmac \/ y.prev_hmac = Genesis
<1>1. /\ Settled \subseteq Line /\ line \in Line /\ seals \in Nat /\ line.hmac = seals
      /\ \A x \in Settled : x.hmac < seals
  BY SettledType DEF IInv, InFlight, Older, TypeOK
<1>2. \A x \in Settled' : x.hmac <= seals
  BY <1>1 DEF Line
<1>3. Reaches(seals)' /\ Reaches(chain_state.prev_hmac)'
  BY <1>1, <1>2 DEF ReachesAll, Reaches
<1>4. line.prev_hmac = Genesis \/ \A x \in Settled : x.hmac <= line.prev_hmac
  BY DEF ReachesAll, Reaches, ChainHead
<1>. QED
  BY <1>1, <1>3, <1>4 DEF ReachesAll, Line

LEMMA ReachesInit == LockdownInit => ReachesAll
<1>. SUFFICES ASSUME LockdownInit PROVE ReachesAll
  OBVIOUS
<1>1. Settled = {}
  BY DEF LockdownInit, Init, Settled, Stored
<1>. QED
  BY <1>1 DEF LockdownInit, Init, ReachesAll, Reaches, ChainHead, Fresh, Genesis

LEMMA SealReaches == ASSUME IInv, ReachesAll, Seal PROVE ReachesAll'
<1>1. /\ pc = "idle" /\ pc' = "save" /\ up /\ UNCHANGED chain_state
      /\ line' = [seq |-> seq + 1, prev_hmac |-> prev_hmac, hmac |-> seals + 1]
      /\ Settled' = Settled
  BY OthersSettleNothing DEF Seal, diskVars
<1>2. ChainHead'.prev_hmac = ChainHead.prev_hmac
  BY <1>1 DEF ChainHead
<1>. QED
  BY <1>1, <1>2 DEF ReachesAll, Reaches

LEMMA SaveReaches == ASSUME IInv, ReachesAll, SaveSteps PROVE ReachesAll'
<1>1. Settled' = Settled /\ UNCHANGED line /\ pc # "idle" /\ pc' # "idle"
  BY SaveStepsFrame DEF SaveSteps, SaveOpen, SaveContent, SaveFails
<1>2. ChainHead'.prev_hmac = ChainHead.prev_hmac
  BY <1>1 DEF ChainHead
<1>3. CASE SaveOpen
  BY <1>1, <1>2, <1>3 DEF SaveOpen, ReachesAll, Reaches, Fresh
<1>4. CASE SaveContent
  <2>1. /\ pc' = "append" /\ chain_state'.prev_hmac = prev_hmac /\ prev_hmac = line.hmac
        /\ \A x \in Settled : x.hmac <= prev_hmac
    BY <1>1, <1>4 DEF SaveContent, IInv, InFlight, Older
  <2>. QED
    BY <1>1, <1>2, <2>1 DEF ReachesAll, Reaches
<1>5. CASE SaveFails /\ pc = "flush"
  BY <1>1, <1>2, <1>5 DEF SaveFails, diskVars, ReachesAll, Reaches, Fresh
<1>. QED
  BY <1>3, <1>4, <1>5 DEF SaveSteps

LEMMA EndReaches == ASSUME IInv, ReachesAll, Ends PROVE ReachesAll'
<1>1. /\ pc = "append" /\ Settled' = Settled \cup {line} /\ pc' = "idle"
      /\ UNCHANGED <<up, prev_hmac, seals, chain_state>> /\ up /\ prev_hmac = seals
  BY EndsSettle DEF IInv, InFlight, Ends, Store, Reject, OpenFails, WriteFails, Return
<1>2. ChainHead'.prev_hmac = seals'
  BY <1>1 DEF ChainHead
<1>. QED
  BY <1>1, <1>2, SettleReaches DEF ReachesAll, Reaches

LEMMA CrashReaches == ASSUME IInv, ReachesAll, Crash PROVE ReachesAll'
<1>1. /\ pc' = "idle" /\ ~up' /\ UNCHANGED <<chain_state, seals>>
      /\ Settled' = IF pc = "append" THEN Settled \cup {line} ELSE Settled
  BY CrashSettles DEF IInv, Crash
<1>2. ChainHead' = chain_state'
  BY <1>1 DEF ChainHead
<1>3. CASE pc = "append"
  BY <1>1, <1>2, <1>3, SettleReaches DEF ReachesAll
<1>4. CASE pc # "append"
  BY <1>1, <1>2, <1>4 DEF ReachesAll, Reaches
<1>. QED
  BY <1>3, <1>4

LEMMA StartReaches == ASSUME IInv, ReachesAll, Start PROVE ReachesAll'
<1>1. /\ ~up /\ up' /\ UNCHANGED <<pc, line, chain_state>> /\ prev_hmac' \in {chain_state.prev_hmac, Genesis}
      /\ Settled' = Settled
  BY OthersSettleNothing DEF Start, diskVars, Fresh
<1>2. pc = "idle" /\ ChainHead'.prev_hmac = prev_hmac'
  BY <1>1 DEF IInv, InFlight, ChainHead
<1>. QED
  BY <1>1, <1>2 DEF ReachesAll, Reaches

LEMMA ReachesNext == IInv /\ ReachesAll /\ [LockdownNext]_lockdownVars => ReachesAll'
<1>. SUFFICES ASSUME IInv, ReachesAll, [LockdownNext]_lockdownVars PROVE ReachesAll'
  OBVIOUS
<1>1. ASSUME UNCHANGED vars PROVE ReachesAll'
  <2>1. Settled' = Settled
    BY <1>1, OthersSettleNothing
  <2>. QED
    BY <1>1, <2>1 DEF vars, memVars, diskVars, ReachesAll, Reaches, ChainHead
<1>2. ASSUME NEW c \in Callbacks, Detect(c) \/ CallbackStep(c) PROVE ReachesAll'
  BY <1>1, <1>2, SealReaches
     DEF Detect, CallbackStep, Report, ReportFails, Activate, SetLockdown, Announce,
         AnnounceFails
<1>3. CASE WriterStep
  BY <1>3, SaveReaches, EndReaches DEF WriterStep, Kept, Denied, Fails, Ends
<1>4. CASE OtherSeal \/ StartService \/ ReadyWriter \/ StopService
  BY <1>1, <1>4, SealReaches, StartReaches, CrashReaches
     DEF OtherSeal, StartService, ReadyWriter, StopService
<1>5. CASE Environment \/ UNCHANGED lockdownVars
  BY <1>1, <1>5
     DEF Environment, LoadDriver, UnloadDriver, OtherConnects, OtherSets, OtherLeaves,
         lockdownVars
<1>. QED
  BY <1>2, <1>3, <1>4, <1>5 DEF LockdownNext

\* Whatever the lockdown denies, no stored line links past an event that was
\* settled before it: the chain goes on from it or visibly starts over.
THEOREM LockdownLeavesTraceHolds == LockdownSpec => []LockdownLeavesTrace
<1>1. LockdownInit => IInv
  BY InitInv DEF LockdownInit
<1>2. IInv /\ [LockdownNext]_lockdownVars => IInv'
  BY StepIsLogStep, NextInv
<1>3. ReachesAll => LockdownLeavesTrace
  BY DEF ReachesAll, LockdownLeavesTrace, Settled
<1>. QED
  BY <1>1, <1>2, <1>3, ReachesInit, ReachesNext, PTL DEF LockdownSpec

=============================================================================
