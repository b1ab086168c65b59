------------------------ MODULE AuthCeremony_proofs ------------------------
(***************************************************************************)
(* Proofs about AuthCeremony, for every set of admins, window and bound of *)
(* the clock: its types, that a stop needs a live token, and that an       *)
(* answer "granted" is true when it is read.                               *)
(***************************************************************************)
EXTENDS AuthCeremony, TLAPS

-----------------------------------------------------------------------------
(* The inductive invariant *)

\* An answer is for a client that waits, and the thread has a client while
\* an answer waits to be read; a process that is down has no thread.
Answering ==
    /\ service = "down" => server = "off"
    /\ server = "answered" => client \in Admins
    /\ \A a \in Admins : answer[a] # "none" => Waiting(a)

\* No challenge reaches further than a window from now.
Issued ==
    /\ clock > 0
    /\ \A a \in Admins : expiry[a] <= clock + Window
    /\ \A t \in signed : t.expiry <= clock + Window

\* Each authorisation is that of a signed token.
Backed ==
    \A x \in Actions : until[x] > 0 => [action |-> x, expiry |-> until[x]] \in signed

\* A positive answer that the server has not disconnected yet is in force.
Granting ==
    \A a \in Admins :
        answer[a] = "yes" /\ client = a =>
            server = "answered" /\ key /\ until[want[a]] >= expiry[a]

IInv == TypeOK /\ Answering /\ Issued /\ Backed /\ Granting

-----------------------------------------------------------------------------
(* Type correctness *)

LEMMA InitType == Init => TypeOK
<1>. SUFFICES ASSUME Init PROVE TypeOK
  OBVIOUS
<1>1. /\ until \in [Actions -> Nat]
      /\ answer \in [Admins -> {"none", "challenge", "yes", "no"}]
      /\ admin \in [Admins -> {"new", "fetch", "fetching", "sign", "submit",
                              "submitting", "granted", "failed"}]
      /\ expiry \in [Admins -> Nat]
  BY DEF Init
<1>2. key \in BOOLEAN /\ denied \in BOOLEAN
  BY DEF Init
<1>. QED
  BY <1>1, <1>2 DEF Init, TypeOK

LEMMA NextType ==
    ASSUME TypeOK, Answering, [Next]_vars
    PROVE  TypeOK'
<1>. USE DEF TypeOK
<1>1. CASE \E a \in Admins : AdminStep(a) \/ Serve(a)
  <2>. PICK a \in Admins : AdminStep(a) \/ Serve(a)
    BY <1>1
  <2>1. CASE Begin(a)
    BY <2>1 DEF Begin, To
  <2>2. CASE Open(a)
    BY <2>2 DEF Open, To
  <2>3. CASE Sign(a)
    <3>1. Payload(a) \in Challenge
      BY DEF Payload, Challenge
    <3>. QED
      BY <2>3, <3>1 DEF Sign, To
  <2>4. CASE Read(a)
    BY <2>4 DEF Read, To
  <2>5. CASE Die(a)
    BY <2>5 DEF Die, To
  <2>6. CASE GetChallenge(a)
    BY <2>6, AuthAssumption DEF GetChallenge, Answer
  <2>7. CASE SubmitToken(a)
    BY <2>7 DEF SubmitToken, Answer
  <2>. QED
    BY <2>1, <2>2, <2>3, <2>4, <2>5, <2>6, <2>7 DEF AdminStep, Serve
<1>2. CASE Check
  BY <1>2 DEF Check, adminVars
<1>3. CASE Create
  BY <1>3 DEF Create, adminVars
<1>4. CASE Disconnect
  BY <1>4 DEF Disconnect, Answering, To
<1>5. CASE ClientGone
  BY <1>5 DEF ClientGone, adminVars
<1>6. CASE StartService
  BY <1>6 DEF StartService, adminVars
<1>7. CASE ControlStop
  BY <1>7 DEF ControlStop, adminVars
<1>8. CASE Wake
  BY <1>8 DEF Wake, adminVars
<1>9. CASE Join \/ Crash
  BY <1>9 DEF Join, Crash, ProcessGone, Actions
<1>10. CASE Uninstall
  BY <1>10 DEF Uninstall, adminVars
<1>11. CASE Tick
  BY <1>11 DEF Tick, adminVars
<1>12. CASE UNCHANGED vars
  BY <1>12 DEF vars, adminVars
<1>. QED
  BY <1>1, <1>2, <1>3, <1>4, <1>5, <1>6, <1>7, <1>8, <1>9, <1>10, <1>11, <1>12
     DEF Next

-----------------------------------------------------------------------------
(* The invariant is inductive *)

LEMMA InitInv == Init => IInv
<1>. SUFFICES ASSUME Init PROVE IInv
  OBVIOUS
<1>1. TypeOK
  BY InitType
<1>2. Answering
  BY DEF Init, Answering
<1>3. Issued
  BY AuthAssumption DEF Init, Issued
<1>4. Backed /\ Granting
  BY DEF Init, Backed, Granting
<1>. QED
  BY <1>1, <1>2, <1>3, <1>4 DEF IInv

LEMMA NextAnswering ==
    ASSUME TypeOK, Answering, [Next]_vars
    PROVE  Answering'
<1>. USE DEF TypeOK, Answering, Waiting
<1>1. ASSUME NEW a \in Admins, AdminStep(a) \/ Serve(a) PROVE Answering'
  <2>1. CASE Begin(a)
    BY <2>1 DEF Begin, To
  <2>2. CASE Open(a)
    BY <2>2 DEF Open, To
  <2>3. CASE Sign(a)
    BY <2>3 DEF Sign, To
  <2>4. CASE Read(a)
    BY <2>4 DEF Read, To
  <2>5. CASE Die(a)
    BY <2>5 DEF Die, To
  <2>6. CASE GetChallenge(a)
    BY <2>6 DEF GetChallenge, Answer
  <2>7. CASE SubmitToken(a)
    BY <2>7 DEF SubmitToken, Answer
  <2>. QED
    BY <1>1, <2>1, <2>2, <2>3, <2>4, <2>5, <2>6, <2>7 DEF AdminStep, Serve
<1>2. CASE Check \/ Create \/ ClientGone
  BY <1>2 DEF Check, Create, ClientGone, adminVars
<1>3. CASE Disconnect
  BY <1>3 DEF Disconnect, To
<1>4. CASE StartService \/ ControlStop \/ Wake
  BY <1>4 DEF StartService, ControlStop, Wake, adminVars
<1>5. CASE Join \/ Crash
  BY <1>5 DEF Join, Crash, ProcessGone
<1>6. CASE Uninstall \/ Tick \/ UNCHANGED vars
  BY <1>6 DEF Uninstall, Tick, vars, adminVars
<1>. QED
  BY <1>1, <1>2, <1>3, <1>4, <1>5, <1>6 DEF Next

LEMMA NextIssued ==
    ASSUME TypeOK, Issued, [Next]_vars
    PROVE  Issued'
<1>. USE AuthAssumption DEF TypeOK, Issued
<1>1. ASSUME NEW a \in Admins, Sign(a) PROVE Issued'
  BY <1>1 DEF Sign, Payload
<1>2. ASSUME NEW a \in Admins, GetChallenge(a) PROVE Issued'
  BY <1>2 DEF GetChallenge
<1>3. CASE Tick
  <2>1. clock' = clock + 1 /\ expiry' = expiry /\ signed' = signed
    BY <1>3 DEF Tick, adminVars
  <2>2. \A t \in signed : t.expiry \in Nat
    BY DEF Challenge
  <2>. QED
    BY <2>1, <2>2
<1>4. CASE UNCHANGED <<clock, expiry, signed>>
  BY <1>4
<1>. QED
  BY <1>1, <1>2, <1>3, <1>4
     DEF Next, AdminStep, Serve, Begin, Open, Read, Die, SubmitToken, Check, Create,
         Disconnect, ClientGone, StartService, ControlStop, Wake, Join, Crash,
         ProcessGone, Uninstall, vars, adminVars

LEMMA NextBacked ==
    ASSUME TypeOK, Backed, [Next]_vars
    PROVE  Backed'
<1>. USE DEF TypeOK, Backed
<1>1. ASSUME NEW a \in Admins, Sign(a) PROVE Backed'
  BY <1>1 DEF Sign, Payload
<1>2. ASSUME NEW a \in Admins, SubmitToken(a) PROVE Backed'
  <2>1. CASE Accepts(a)
    <3>1. until' = [until EXCEPT ![want[a]] = expiry[a]] /\ signed' = signed
      BY <1>2, <2>1 DEF SubmitToken
    <3>2. [action |-> want[a], expiry |-> expiry[a]] \in signed
      BY <2>1 DEF Accepts, Verified, Payload
    <3>. QED
      BY <3>1, <3>2
  <2>2. CASE ~Accepts(a)
    BY <1>2, <2>2 DEF SubmitToken
  <2>. QED
    BY <2>1, <2>2
<1>3. CASE ProcessGone
  BY <1>3 DEF ProcessGone
<1>4. CASE UNCHANGED <<until, signed>>
  BY <1>4
<1>. QED
  BY <1>1, <1>2, <1>3, <1>4
     DEF Next, AdminStep, Serve, Begin, Open, Read, Die, GetChallenge, Check, Create,
         Disconnect, ClientGone, StartService, ControlStop, Wake, Join, Crash,
         Uninstall, Tick, vars, adminVars

LEMMA NextGranting ==
    ASSUME TypeOK, Answering, Granting, [Next]_vars
    PROVE  Granting'
<1>. USE DEF TypeOK, Granting
<1>1. ASSUME NEW a \in Admins, AdminStep(a) PROVE Granting'
  <2>1. CASE Begin(a) \/ Sign(a)
    BY <2>1 DEF Begin, Sign
  <2>2. CASE Open(a)
    \* The client that connects has no answer yet: it was not waiting for one.
    BY <2>2 DEF Open, Answering, Waiting
  <2>3. CASE Read(a) \/ Die(a)
    BY <2>3 DEF Read, Die
  <2>. QED
    BY <1>1, <2>1, <2>2, <2>3 DEF AdminStep
<1>2. ASSUME NEW a \in Admins, GetChallenge(a) PROVE Granting'
  BY <1>2 DEF GetChallenge, Answer
<1>3. ASSUME NEW a \in Admins, SubmitToken(a) PROVE Granting'
  <2>1. CASE Accepts(a)
    BY <1>3, <2>1 DEF SubmitToken, Answer, Accepts
  <2>2. CASE ~Accepts(a)
    BY <1>3, <2>2 DEF SubmitToken, Answer
  <2>. QED
    BY <2>1, <2>2
<1>4. CASE Check \/ Create \/ ClientGone
  BY <1>4, AuthAssumption DEF Check, Create, ClientGone, adminVars
<1>5. CASE Disconnect
  BY <1>5, AuthAssumption DEF Disconnect
<1>6. CASE StartService
  \* Down, there is no thread and so no answer that it still serves.
  BY <1>6 DEF StartService, Answering, adminVars
<1>7. CASE ControlStop \/ Uninstall \/ Tick \/ UNCHANGED vars
  BY <1>7 DEF ControlStop, Uninstall, Tick, vars, adminVars
<1>8. CASE Wake
  BY <1>8, AuthAssumption DEF Wake, adminVars
<1>9. CASE Join \/ Crash
  BY <1>9, AuthAssumption DEF Join, Crash, ProcessGone
<1>. QED
  BY <1>1, <1>2, <1>3, <1>4, <1>5, <1>6, <1>7, <1>8, <1>9 DEF Next, Serve

LEMMA NextInv == IInv /\ [Next]_vars => IInv'
BY NextType, NextAnswering, NextIssued, NextBacked, NextGranting DEF IInv

LEMMA Invariance == Spec => []IInv
<1>. QED
  BY InitInv, NextInv, PTL DEF Spec

-----------------------------------------------------------------------------
(* Theorems *)

\* Whatever the admins, the clock and the crashes do, the state of the
\* ceremony has its declared types.
THEOREM TypeCorrect == Spec => []TypeOK
<1>1. IInv => TypeOK
  BY DEF IInv
<1>. QED
  BY <1>1, Invariance, PTL

\* The control handler lets a stop begin only under a signed token for
\* stopping whose challenge is at most a window old.
THEOREM StopNeedsTokenHolds == Spec => StopNeedsToken
<1>. DEFINE A == service = "running" /\ service' = "stopping" =>
                   \E t \in signed : t.action = "stop" /\ t.expiry \in clock .. clock + Window
<1>1. ASSUME IInv, [Next]_vars PROVE A
  <2>. SUFFICES ASSUME service = "running", service' = "stopping"
                PROVE  \E t \in signed : t.action = "stop" /\ t.expiry \in clock .. clock + Window
    OBVIOUS
  <2>1. ControlStop
    BY <1>1 DEF Next, AdminStep, Serve, Begin, Open, Sign, Read, Die, GetChallenge,
                SubmitToken, Check, Create, Disconnect, ClientGone, StartService, Wake,
                Join, Crash, ProcessGone, Uninstall, Tick, vars, adminVars
  <2>2. until["stop"] >= clock
    BY <2>1 DEF ControlStop, IsAuthorized
  <2>. DEFINE t == [action |-> "stop", expiry |-> until["stop"]]
  <2>3. until["stop"] \in Nat /\ clock \in Nat /\ clock > 0 /\ "stop" \in Actions
    BY <1>1 DEF IInv, TypeOK, Actions, Issued
  <2>4. t \in signed
    BY <1>1, <2>2, <2>3 DEF IInv, Backed
  <2>5. t.expiry <= clock + Window
    BY <1>1, <2>4 DEF IInv, Issued
  <2>. QED
    BY <2>2, <2>3, <2>4, <2>5, AuthAssumption
<1>. QED
  BY <1>1, Invariance, PTL DEF Spec, StopNeedsToken

\* An admin reads "granted" only while the service's authorisation reaches to
\* the end of his token, or after that process ended.
THEOREM GrantedIsInForceHolds == Spec => GrantedIsInForce
<1>. DEFINE A == \A a \in Admins :
                   admin[a] # "granted" /\ admin'[a] = "granted" =>
                       client # a \/ (key /\ until[want[a]] >= expiry[a])
<1>1. ASSUME IInv, [Next]_vars PROVE A
  <2>. SUFFICES ASSUME NEW a \in Admins, admin[a] # "granted", admin'[a] = "granted",
                       client = a
                PROVE  key /\ until[want[a]] >= expiry[a]
    OBVIOUS
  <2>1. answer[a] = "yes"
    BY <1>1 DEF IInv, TypeOK, Answering, Next, AdminStep, Serve, Begin, Open, Sign, Read, Die, GetChallenge,
                SubmitToken, Check, Create, Disconnect, ClientGone, StartService, Wake,
                ControlStop, Join, Crash, ProcessGone, Uninstall, Tick, vars, adminVars, To
  <2>. QED
    BY <1>1, <2>1 DEF IInv, Granting
<1>. QED
  BY <1>1, Invariance, PTL DEF Spec, GrantedIsInForce

=============================================================================
