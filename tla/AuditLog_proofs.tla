--------------------------- MODULE AuditLog_proofs ---------------------------
(***************************************************************************)
(* Proofs about AuditLog, for every MaxPart, set of dates and bound.       *)
(***************************************************************************)
EXTENDS AuditLog, Integers, FiniteSetTheorems, TLAPS

-----------------------------------------------------------------------------
(* The inductive invariant *)

\* Up to where the settled events reach: the chain's head in memory between
\* two writes, the predecessor of the line in flight during one, and the file
\* while the service is down.
ChainHead ==
    IF pc # "idle" THEN [seq |-> line.seq - 1, prev_hmac |-> line.prev_hmac]
    ELSE IF up     THEN [seq |-> seq, prev_hmac |-> prev_hmac]
                   ELSE chain_state

InFlight ==
    pc # "idle" =>
        /\ up
        /\ line.seq > 0
        /\ seals > 0
        /\ seq = line.seq
        /\ line.hmac = seals
        /\ prev_hmac = seals

Older ==
    \A x \in Settled :
        /\ x.hmac > 0
        /\ x.hmac <= seals
        /\ pc # "idle" => x.hmac < seals

Reaches(h) == h = Genesis \/ \A x \in Settled : x.hmac <= h

Traced ==
    "save" \notin faults =>
        /\ Reaches(ChainHead.prev_hmac)
        /\ Reaches(chain_state.prev_hmac)
        /\ pc = "append" => chain_state = [seq |-> line.seq, prev_hmac |-> line.hmac]
        /\ \A x, y \in Settled :
             x.hmac < y.hmac => y.prev_hmac >= x.hmac \/ y.prev_hmac = Genesis

Unbroken ==
    faults = {} =>
        /\ pc \in {"idle", "save"} => chain_state = ChainHead
        /\ \A x \in Settled : x.hmac <= ChainHead.prev_hmac /\ x.seq <= ChainHead.seq
        /\ \A n \in 1 .. ChainHead.seq : \E x \in Settled : x.seq = n
        /\ OneChain

IInv == TypeOK /\ InFlight /\ Older /\ Traced /\ Unbroken

-----------------------------------------------------------------------------
(* Lemmas about the operators of the writer *)

\* rotate_if_needed keeps a stream a stream, and an open one open.
LEMMA RotateType ==
    ASSUME NEW s \in Stream, NEW sized
    PROVE  /\ Rotate(s, sized) \in Stream
           /\ s.state # "closed" => Rotate(s, sized).state # "closed"
<1>1. NextPart(s) \in Stream /\ NextPart(s).state # "closed"
  BY DEF NextPart, Stream
<1>2. Rotate(s, sized) \in {NextPart(s), s}
  BY DEF Rotate
<1>. QED
  BY <1>1, <1>2

\* The stream a line is written to is an open stream.
LEMMA TargetType ==
    ASSUME TypeOK, NEW look \in Looks
    PROVE  /\ Target(look) \in Stream
           /\ Target(look).state # "closed"
           /\ Place(Target(look)) \in Days \X Nat
           /\ Entered(Target(look)) \in Entry
           /\ Entered(Target(look)).line = line
<1>. DEFINE e == EnsureOpen(look[1])
<1>1. e \in Stream /\ e.state # "closed"
  BY RotateType DEF EnsureOpen, Reopens, Stream, TypeOK
<1>2. Target(look) \in Stream /\ Target(look).state # "closed"
  <2>. HIDE DEF e
  <2>. QED
    BY <1>1, RotateType DEF Target, e
<1>. QED
  BY <1>2 DEF Place, Entered, Entry, Stream, TypeOK

-----------------------------------------------------------------------------
(* Type correctness *)

LEMMA InitType == Init => TypeOK
<1>1. Closed \in Stream
  BY AuditLogAssumption DEF Closed, Stream
<1>2. Fresh \in ChainState /\ NoLine \in Line
  BY DEF Fresh, NoLine, ChainState, Line, Genesis
<1>. SUFFICES ASSUME Init PROVE TypeOK
  OBVIOUS
<1>3. log \in Seq(Entry) /\ opens \in [Days -> Nat] /\ prev_hmac \in Nat
  BY DEF Init, Genesis
<1>. QED
  BY <1>1, <1>2, <1>3 DEF Init, TypeOK

LEMMA NextType ==
    ASSUME TypeOK, [Next]_vars
    PROVE  TypeOK'
<1>. USE DEF TypeOK
<1>0. NoLine \in Line /\ Fresh \in ChainState /\ Closed \in Stream
  BY AuditLogAssumption DEF NoLine, Line, Fresh, ChainState, Genesis, Closed, Stream
<1>1. CASE Start
  <2>1. PICK loaded \in {chain_state, Fresh} :
             /\ seq' = loaded.seq
             /\ prev_hmac' = loaded.prev_hmac
             /\ faults' = IF loaded = chain_state THEN faults ELSE faults \cup {"load"}
    BY <1>1 DEF Start
  <2>2. loaded \in ChainState
    BY <1>0
  <2>. QED
    BY <1>1, <2>1, <2>2 DEF Start, ChainState, Fault, diskVars
<1>2. CASE Seal
  BY <1>2 DEF Seal, Line, diskVars
<1>3. CASE SaveOpen
  BY <1>3, <1>0 DEF SaveOpen, histVars
<1>4. CASE SaveContent
  BY <1>4 DEF SaveContent, ChainState, histVars
<1>5. CASE SaveFails
  BY <1>5 DEF SaveFails, Fault, diskVars
<1>6. CASE Store \/ Reject \/ OpenFails \/ WriteFails
  <2>1. CASE Store
    <3>1. PICK look \in Looks :
               /\ stream' = Target(look)
               /\ log' = Append(log, Entered(Target(look)))
               /\ torn' = torn \ {Place(Target(look))}
               /\ Count(look)
               /\ UNCHANGED dropped
               /\ Return
      BY <2>1 DEF Store
    <3>2. Target(look) \in Stream /\ Entered(Target(look)) \in Entry
      BY TargetType
    <3>3. opens' \in [Days -> Nat] /\ blind' \in [Days -> Nat]
      BY <3>1 DEF Count
    <3>4. log' \in Seq(Entry) /\ stream' \in Stream /\ torn' \subseteq Days \X Nat
      BY <3>1, <3>2
    <3>. QED
      BY <3>1, <3>3, <3>4, <1>0 DEF Return
  <2>2. CASE Reject
    BY <2>2, <1>0 DEF Reject, Return
  <2>3. CASE OpenFails
    BY <2>3, <1>0 DEF OpenFails, Return
  <2>4. CASE WriteFails
    <3>1. PICK look \in Looks :
               /\ stream' = [Target(look) EXCEPT !.state = "bad"]
               /\ Fragment(Target(look))
               /\ dropped' = dropped \cup {line}
               /\ Count(look)
               /\ UNCHANGED log
               /\ Return
      BY <2>4 DEF WriteFails
    <3>2. Target(look) \in Stream /\ Place(Target(look)) \in Days \X Nat
      BY TargetType
    <3>3. [Target(look) EXCEPT !.state = "bad"] \in Stream
      BY <3>2 DEF Stream
    <3>4. opens' \in [Days -> Nat] /\ blind' \in [Days -> Nat]
      BY <3>1 DEF Count
    <3>5. stream' \in Stream /\ torn' \subseteq Days \X Nat
      BY <3>1, <3>2, <3>3 DEF Fragment
    <3>. QED
      BY <3>1, <3>4, <3>5, <1>0 DEF Return
  <2>. QED
    BY <1>6, <2>1, <2>2, <2>3, <2>4
<1>7. CASE Crash
  <2>1. torn' = torn \/ \E look \in Looks : torn' \in {torn, torn \cup {Place(Target(look))}}
    BY <1>7 DEF Crash, Fragment
  <2>2. torn' \subseteq Days \X Nat
    BY <2>1, TargetType
  <2>. QED
    BY <1>7, <2>2, <1>0 DEF Crash, Fault, Genesis
<1>8. CASE DayChanges
  BY <1>8 DEF DayChanges, memVars, histVars
<1>9. CASE UNCHANGED vars
  BY <1>9 DEF vars, memVars, diskVars, histVars
<1>. QED
  BY <1>1, <1>2, <1>3, <1>4, <1>5, <1>6, <1>7, <1>8, <1>9 DEF Next

\* Every state the service and its log directory can be in is well typed.
THEOREM TypeCorrect == Spec => []TypeOK
<1>1. Init => TypeOK
  BY InitType
<1>2. TypeOK /\ [Next]_vars => TypeOK'
  BY NextType
<1>. QED
  BY <1>1, <1>2, PTL DEF Spec

-----------------------------------------------------------------------------
(* How a step changes the set of settled events *)

\* Appending an entry to the log adds its line to the stored lines.
LEMMA AppendLine ==
    ASSUME NEW s \in Seq(Entry), NEW e \in Entry
    PROVE  LET t == Append(s, e)
           IN  {t[i].line : i \in DOMAIN t} = {s[i].line : i \in DOMAIN s} \cup {e.line}
<1>. DEFINE t == Append(s, e)
<1>1. /\ DOMAIN s = 1 .. Len(s)
      /\ DOMAIN t = 1 .. Len(s) + 1
      /\ Len(s) \in Nat
  OBVIOUS
<1>2. /\ \A i \in 1 .. Len(s) : t[i] = s[i]
      /\ t[Len(s) + 1] = e
  OBVIOUS
<1>. HIDE DEF t
<1>3. DOMAIN t = DOMAIN s \cup {Len(s) + 1}
  BY <1>1
<1>4. QED
  BY <1>1, <1>2, <1>3 DEF t

LEMMA SettledType ==
    ASSUME TypeOK
    PROVE  Settled \subseteq Line
<1>1. \A i \in DOMAIN log : log[i] \in Entry
  BY DEF TypeOK
<1>2. \A i \in DOMAIN log : log[i].line \in Line
  BY <1>1 DEF Entry
<1>. QED
  BY <1>2 DEF TypeOK, Settled, Stored

Ends == Store \/ Reject \/ OpenFails \/ WriteFails

\* A write ends by settling the line in flight, whatever became of it.
LEMMA EndsSettle ==
    ASSUME TypeOK, Ends
    PROVE  pc = "append" /\ Settled' = Settled \cup {line}
<1>1. CASE Store
  <2>1. PICK look \in Looks :
             log' = Append(log, Entered(Target(look))) /\ dropped' = dropped /\ pc = "append"
    BY <1>1 DEF Store
  <2>2. log \in Seq(Entry) /\ Entered(Target(look)) \in Entry /\ Entered(Target(look)).line = line
    BY TargetType DEF TypeOK
  <2>3. Stored' = Stored \cup {line}
    BY <2>1, <2>2, AppendLine DEF Stored
  <2>. QED
    BY <2>1, <2>3 DEF Settled
<1>2. CASE Reject
  BY <1>2 DEF Reject, Settled, Stored
<1>3. CASE OpenFails
  BY <1>3 DEF OpenFails, Settled, Stored
<1>4. CASE WriteFails
  BY <1>4 DEF WriteFails, Settled, Stored
<1>. QED
  BY <1>1, <1>2, <1>3, <1>4 DEF Ends

\* A crash settles the line in flight when its chain state was saved.
LEMMA CrashSettles ==
    ASSUME TypeOK, Crash
    PROVE  Settled' = IF pc = "append" THEN Settled \cup {line} ELSE Settled
BY DEF Crash, Settled, Stored

LEMMA OthersSettleNothing ==
    ASSUME Start \/ Seal \/ SaveOpen \/ SaveContent \/ SaveFails \/ DayChanges
           \/ UNCHANGED vars
    PROVE  Settled' = Settled
BY DEF Start, Seal, SaveOpen, SaveContent, SaveFails, DayChanges, vars, memVars,
       diskVars, histVars, Settled, Stored

-----------------------------------------------------------------------------
(* Every step keeps the inductive invariant.  Settled is left unexpanded:  *)
(* the lemmas above say how a step changes it.                             *)

LEMMA InitInv == Init => IInv
<1>. SUFFICES ASSUME Init PROVE IInv
  OBVIOUS
<1>1. Settled = {}
  BY DEF Init, Settled, Stored
<1>2. TypeOK
  BY InitType
<1>3. InFlight /\ Older /\ Traced
  BY <1>1 DEF Init, InFlight, Older, Traced, Reaches, ChainHead, Fresh, Genesis
<1>4. Unbroken
  BY <1>1 DEF Init, Unbroken, OneChain, ChainHead, Fresh, Genesis
<1>. QED
  BY <1>2, <1>3, <1>4 DEF IInv

\* The end of a write, at which the line in flight joins the settled events.
LEMMA EndsInv ==
    ASSUME IInv, Ends, TypeOK'
    PROVE  IInv'
<1>1. TypeOK
  BY DEF IInv
<1>2. pc = "append" /\ Settled' = Settled \cup {line}
  BY <1>1, EndsSettle
<1>3. /\ pc' = "idle"
      /\ up' = up /\ seq' = seq /\ prev_hmac' = prev_hmac
      /\ chain_state' = chain_state /\ seals' = seals /\ faults' = faults
  BY DEF Ends, Store, Reject, OpenFails, WriteFails, Return
<1>4. Settled \subseteq Line /\ line \in Line
  BY <1>1, SettledType DEF TypeOK
<1>5. /\ up /\ line.seq > 0 /\ seq = line.seq
      /\ line.hmac = seals /\ prev_hmac = seals
      /\ ChainHead = [seq |-> line.seq - 1, prev_hmac |-> line.prev_hmac]
      /\ ChainHead' = [seq |-> seq, prev_hmac |-> prev_hmac]
  BY <1>2, <1>3 DEF IInv, InFlight, ChainHead
<1>6. \A x \in Settled : x.hmac > 0 /\ x.hmac < seals
  BY <1>1, <1>2, <1>4 DEF IInv, Older, TypeOK, Line
<1>7. InFlight' /\ Older'
  <2>1. \A x \in Settled' : x.hmac > 0 /\ x.hmac <= seals
    <3>1. seals > 0
      BY <1>2 DEF IInv, InFlight
    <3>2. seals \in Nat
      BY <1>1 DEF TypeOK
    <3>. QED
      BY <1>2, <1>4, <1>5, <1>6, <3>1, <3>2 DEF Line
  <2>. QED
    BY <1>3, <2>1 DEF InFlight, Older
<1>8. Traced'
  <2>. SUFFICES ASSUME "save" \notin faults
                PROVE  /\ Reaches(seals)'
                       /\ Reaches(chain_state.prev_hmac)'
                       /\ \A x, y \in Settled' :
                            x.hmac < y.hmac => \/ y.prev_hmac >= x.hmac
                                               \/ y.prev_hmac = Genesis
    BY <1>2, <1>3, <1>5 DEF Traced
  <2>1. \A x \in Settled' : x.hmac <= seals
    BY <1>2, <1>4, <1>5, <1>6 DEF Line
  <2>2. chain_state.prev_hmac = seals
    BY <1>2, <1>5 DEF IInv, Traced
  <2>3. line.prev_hmac = Genesis \/ \A x \in Settled : x.hmac <= line.prev_hmac
    BY <1>5 DEF IInv, Traced, Reaches
  <2>4. \A x, y \in Settled : x.hmac < y.hmac => y.prev_hmac >= x.hmac \/ y.prev_hmac = Genesis
    BY DEF IInv, Traced
  <2>5. \A x, y \in Settled' :
           x.hmac < y.hmac => y.prev_hmac >= x.hmac \/ y.prev_hmac = Genesis
    BY <1>2, <1>4, <1>5, <1>6, <2>3, <2>4 DEF Line
  <2>. QED
    BY <1>3, <2>1, <2>2, <2>5 DEF Reaches
<1>9. Unbroken'
  <2>. SUFFICES ASSUME faults = {}
                PROVE  Unbroken'
    BY <1>3 DEF Unbroken
  <2>1. chain_state' = ChainHead'
    BY <1>2, <1>3, <1>5 DEF IInv, Traced
  <2>2. /\ \A x \in Settled : x.hmac <= line.prev_hmac /\ x.seq <= line.seq - 1
        /\ \A n \in 1 .. line.seq - 1 : \E x \in Settled : x.seq = n
        /\ OneChain
    BY <1>5 DEF IInv, Unbroken
  <2>3. \A x \in Settled' : x.hmac <= prev_hmac /\ x.seq <= seq
    BY <1>2, <1>4, <1>5, <1>6, <2>2 DEF Line
  <2>4. \A n \in 1 .. seq : \E x \in Settled' : x.seq = n
    BY <1>2, <1>4, <1>5, <2>2 DEF Line
  <2>5. OneChain'
    BY <1>2, <1>3, <1>4, <1>5, <1>6, <2>2 DEF OneChain, Line
  <2>. QED
    BY <1>3, <1>5, <2>1, <2>3, <2>4, <2>5 DEF Unbroken
<1>. QED
  BY <1>7, <1>8, <1>9 DEF IInv

LEMMA NextInv ==
    ASSUME IInv, [Next]_vars
    PROVE  IInv'
<1>1. TypeOK /\ TypeOK'
  BY NextType DEF IInv
<1>2. Settled \subseteq Line /\ line \in Line /\ chain_state \in ChainState
  BY <1>1, SettledType DEF TypeOK
<1>3. CASE Start
  <2>1. PICK loaded \in {chain_state, Fresh} :
             /\ seq' = loaded.seq
             /\ prev_hmac' = loaded.prev_hmac
             /\ faults' = IF loaded = chain_state THEN faults ELSE faults \cup {"load"}
    BY <1>3 DEF Start
  <2>2. /\ ~up /\ up' /\ pc = "idle" /\ pc' = "idle"
        /\ chain_state' = chain_state /\ seals' = seals /\ line' = line
    <3>1. pc = "idle"
      BY <1>3 DEF Start, IInv, InFlight
    <3>. QED
      BY <1>3, <3>1 DEF Start, diskVars
  <2>3. Settled' = Settled
    BY <1>3, OthersSettleNothing
  <2>4. /\ ChainHead = chain_state
        /\ ChainHead' = [seq |-> loaded.seq, prev_hmac |-> loaded.prev_hmac]
    BY <2>1, <2>2 DEF ChainHead
  <2>5. InFlight' /\ Older'
    BY <2>2, <2>3 DEF IInv, InFlight, Older
  <2>6. Traced'
    BY <2>1, <2>2, <2>3, <2>4 DEF IInv, Traced, Reaches, Fresh, Genesis
  <2>7. Unbroken'
    <3>1. CASE loaded = chain_state
      <4>1. ChainHead' = ChainHead
        BY <1>2, <2>4, <3>1 DEF ChainState
      <4>. QED
        BY <2>1, <2>2, <2>3, <3>1, <4>1 DEF IInv, Unbroken, OneChain
    <3>2. CASE loaded # chain_state
      BY <2>1, <3>2 DEF Unbroken
    <3>. QED
      BY <3>1, <3>2
  <2>. QED
    BY <1>1, <2>5, <2>6, <2>7 DEF IInv
<1>4. CASE Seal
  <2>1. /\ up /\ up' /\ pc = "idle" /\ pc' = "save"
        /\ seals' = seals + 1 /\ seq' = seq + 1 /\ prev_hmac' = seals + 1
        /\ line' = [seq |-> seq + 1, prev_hmac |-> prev_hmac, hmac |-> seals + 1]
        /\ chain_state' = chain_state /\ faults' = faults
    BY <1>4 DEF Seal, diskVars
  <2>2. Settled' = Settled
    BY <1>4, OthersSettleNothing
  <2>3. ChainHead' = ChainHead
    BY <1>1, <2>1 DEF ChainHead, TypeOK
  <2>4. InFlight' /\ Older'
    <3>1. seq \in Nat /\ seals \in Nat
      BY <1>1 DEF TypeOK
    <3>. QED
      BY <1>2, <2>1, <2>2, <3>1 DEF IInv, InFlight, Older, Line
  <2>5. Traced'
    BY <2>1, <2>2, <2>3 DEF IInv, Traced, Reaches
  <2>6. Unbroken'
    BY <2>1, <2>2, <2>3 DEF IInv, Unbroken, OneChain
  <2>. QED
    BY <1>1, <2>4, <2>5, <2>6 DEF IInv
<1>5. CASE SaveOpen
  <2>1. /\ pc = "save" /\ pc' = "flush" /\ chain_state' = Fresh
        /\ up' = up /\ seals' = seals /\ seq' = seq /\ prev_hmac' = prev_hmac
        /\ line' = line /\ faults' = faults
    BY <1>5 DEF SaveOpen, histVars
  <2>2. Settled' = Settled
    BY <1>5, OthersSettleNothing
  <2>3. ChainHead' = ChainHead
    BY <2>1 DEF ChainHead
  <2>4. InFlight' /\ Older'
    BY <2>1, <2>2 DEF IInv, InFlight, Older
  <2>5. Traced'
    BY <2>1, <2>2, <2>3 DEF IInv, Traced, Reaches, Fresh
  <2>6. Unbroken'
    BY <2>1, <2>2, <2>3 DEF IInv, Unbroken, OneChain
  <2>. QED
    BY <1>1, <2>4, <2>5, <2>6 DEF IInv
<1>6. CASE SaveContent
  <2>1. /\ pc = "flush" /\ pc' = "append"
        /\ chain_state' = [seq |-> seq, prev_hmac |-> prev_hmac]
        /\ up' = up /\ seals' = seals /\ seq' = seq /\ prev_hmac' = prev_hmac
        /\ line' = line /\ faults' = faults
    BY <1>6 DEF SaveContent, histVars
  <2>2. Settled' = Settled
    BY <1>6, OthersSettleNothing
  <2>3. ChainHead' = ChainHead
    BY <2>1 DEF ChainHead
  <2>4. InFlight' /\ Older'
    BY <2>1, <2>2 DEF IInv, InFlight, Older
  <2>5. /\ chain_state' = [seq |-> line.seq, prev_hmac |-> line.hmac]
        /\ \A x \in Settled : x.hmac <= line.hmac
    BY <2>1 DEF IInv, InFlight, Older
  <2>6. Traced'
    BY <2>1, <2>2, <2>3, <2>5 DEF IInv, Traced, Reaches
  <2>7. Unbroken'
    BY <2>1, <2>2, <2>3 DEF IInv, Unbroken, OneChain
  <2>. QED
    BY <1>1, <2>4, <2>6, <2>7 DEF IInv
<1>7. CASE SaveFails
  <2>1. /\ pc \in {"save", "flush"} /\ pc' = "append" /\ "save" \in faults'
        /\ up' = up /\ seals' = seals /\ seq' = seq /\ prev_hmac' = prev_hmac
        /\ line' = line
    BY <1>7 DEF SaveFails
  <2>2. Settled' = Settled
    BY <1>7, OthersSettleNothing
  <2>3. InFlight' /\ Older' /\ Traced' /\ Unbroken'
    BY <2>1, <2>2 DEF IInv, InFlight, Older, Traced, Unbroken
  <2>. QED
    BY <1>1, <2>3 DEF IInv
<1>8. CASE Ends
  BY <1>1, <1>8, EndsInv
<1>9. CASE Crash
  <2>1. /\ up /\ ~up' /\ pc' = "idle"
        /\ chain_state' = chain_state /\ seals' = seals
        /\ faults' = IF pc = "flush" THEN faults \cup {"tear"} ELSE faults
    BY <1>9 DEF Crash
  <2>2. ChainHead' = chain_state
    BY <2>1 DEF ChainHead
  <2>3. Settled' = IF pc = "append" THEN Settled \cup {line} ELSE Settled
    BY <1>1, <1>9, CrashSettles
  <2>4. InFlight' /\ Older'
    <3>1. seals \in Nat
      BY <1>1 DEF TypeOK
    <3>2. \A x \in Settled' : x.hmac > 0 /\ x.hmac <= seals
      BY <1>2, <2>1, <2>3, <3>1 DEF IInv, InFlight, Older, Line
    <3>. QED
      BY <2>1, <3>2 DEF InFlight, Older
  <2>5. CASE pc = "append"
    <3>1. /\ "save" \notin faults =>
                chain_state = [seq |-> line.seq, prev_hmac |-> line.hmac]
          /\ ChainHead = [seq |-> line.seq - 1, prev_hmac |-> line.prev_hmac]
          /\ faults' = faults
          /\ Settled' = Settled \cup {line}
          /\ line.seq > 0
          /\ \A x \in Settled : x.hmac < line.hmac
      BY <2>1, <2>3, <2>5 DEF IInv, InFlight, Older, Traced, ChainHead
    <3>2. Traced'
      <4>. SUFFICES ASSUME "save" \notin faults
                    PROVE  /\ \A x \in Settled' : x.hmac <= line.hmac
                           /\ \A x, y \in Settled' :
                                x.hmac < y.hmac => \/ y.prev_hmac >= x.hmac
                                                   \/ y.prev_hmac = Genesis
        BY <2>1, <2>2, <3>1 DEF Traced, Reaches
      <4>1. line.prev_hmac = Genesis \/ \A x \in Settled : x.hmac <= line.prev_hmac
        BY <3>1 DEF IInv, Traced, Reaches
      <4>2. \A x, y \in Settled :
               x.hmac < y.hmac => y.prev_hmac >= x.hmac \/ y.prev_hmac = Genesis
        BY DEF IInv, Traced
      <4>. QED
        BY <1>2, <3>1, <4>1, <4>2 DEF Line
    <3>3. Unbroken'
      <4>. SUFFICES ASSUME faults = {}
                    PROVE  Unbroken'
        BY <3>1 DEF Unbroken
      <4>1. /\ \A x \in Settled : x.hmac <= line.prev_hmac /\ x.seq <= line.seq - 1
            /\ \A n \in 1 .. line.seq - 1 : \E x \in Settled : x.seq = n
            /\ OneChain
        BY <3>1 DEF IInv, Unbroken
      <4>2. \A x \in Settled' : x.hmac <= line.hmac /\ x.seq <= line.seq
        BY <1>2, <3>1, <4>1 DEF Line
      <4>3. \A n \in 1 .. line.seq : \E x \in Settled' : x.seq = n
        BY <1>2, <3>1, <4>1 DEF Line
      <4>4. OneChain'
        BY <1>2, <3>1, <4>1 DEF OneChain, Line
      <4>. QED
        BY <2>1, <2>2, <3>1, <4>2, <4>3, <4>4 DEF Unbroken
    <3>. QED
      BY <1>1, <2>4, <3>2, <3>3 DEF IInv
  <2>6. CASE pc # "append"
    <3>1. Settled' = Settled
      BY <2>3, <2>6
    <3>2. Traced'
      BY <2>1, <2>2, <3>1 DEF IInv, Traced, Reaches
    <3>3. Unbroken'
      <4>. SUFFICES ASSUME faults' = {}
                    PROVE  Unbroken'
        BY DEF Unbroken
      <4>1. faults = {} /\ pc \in {"idle", "save"}
        BY <1>1, <2>1, <2>6 DEF TypeOK
      <4>2. chain_state = ChainHead
        BY <4>1 DEF IInv, Unbroken
      <4>. QED
        BY <2>1, <2>2, <3>1, <4>1, <4>2 DEF IInv, Unbroken, OneChain
    <3>. QED
      BY <1>1, <2>4, <3>2, <3>3 DEF IInv
  <2>. QED
    BY <2>5, <2>6
<1>10. CASE DayChanges \/ UNCHANGED vars
  <2>1. /\ Settled' = Settled
        /\ up' = up /\ pc' = pc /\ seq' = seq /\ prev_hmac' = prev_hmac
        /\ line' = line /\ chain_state' = chain_state
        /\ seals' = seals /\ faults' = faults
    BY <1>10, OthersSettleNothing
       DEF DayChanges, vars, memVars, diskVars, histVars
  <2>2. ChainHead' = ChainHead
    BY <2>1 DEF ChainHead
  <2>3. InFlight' /\ Older' /\ Traced' /\ Unbroken'
    BY <2>1, <2>2 DEF IInv, InFlight, Older, Traced, Reaches, Unbroken, OneChain
  <2>. QED
    BY <1>1, <2>3 DEF IInv
<1>. QED
  BY <1>3, <1>4, <1>5, <1>6, <1>7, <1>8, <1>9, <1>10 DEF Next, Ends

-----------------------------------------------------------------------------
(* The theorems *)

LEMMA Invariant == Spec => []IInv
<1>1. IInv /\ [Next]_vars => IInv'
  BY NextInv
<1>. QED
  BY InitInv, <1>1, PTL DEF Spec

LEMMA InvImplies == IInv => LossLeavesTrace /\ OneChain /\ GapsAreDrops
<1>. SUFFICES ASSUME IInv PROVE LossLeavesTrace /\ OneChain /\ GapsAreDrops
  OBVIOUS
<1>1. LossLeavesTrace
  BY DEF IInv, Traced, LossLeavesTrace, Settled
<1>2. CASE faults = {}
  <2>1. OneChain
    BY <1>2 DEF IInv, Unbroken
  <2>2. /\ \A x \in Settled : x.seq <= ChainHead.seq
        /\ \A n \in 1 .. ChainHead.seq : \E x \in Settled : x.seq = n
    BY <1>2 DEF IInv, Unbroken
  <2>3. Settled \subseteq Line
    BY SettledType DEF IInv
  <2>4. ChainHead.seq \in Int
    BY DEF IInv, TypeOK, ChainHead, Line, ChainState
  <2>5. GapsAreDrops
    BY <2>2, <2>3, <2>4 DEF GapsAreDrops, Line
  <2>. QED
    BY <1>1, <2>1, <2>5
<1>3. CASE faults # {}
  BY <1>1, <1>3 DEF OneChain, GapsAreDrops
<1>. QED
  BY <1>2, <1>3

\* As long as save_state succeeds, no event the writer sealed disappears
\* without a trace in the links of the lines that follow it.
THEOREM LossLeavesTraceHolds == Spec => []LossLeavesTrace
BY Invariant, InvImplies, PTL

\* While chain.state is never lost, crashes at any point and failed writes
\* leave one chain whose numbers and links only move forward.
THEOREM OneChainHolds == Spec => []OneChain
BY Invariant, InvImplies, PTL

\* While chain.state is never lost, the gaps in the numbers of the stored
\* lines are exactly events the writer dropped.
THEOREM GapsAreDropsHolds == Spec => []GapsAreDrops
BY Invariant, InvImplies, PTL

-----------------------------------------------------------------------------
(* The audit log implements the event ledger *)

\* The grade of the links never improves.
LEMMA GradeWorsens ==
    ASSUME faults \subseteq faults'
    PROVE  Grade' \in Ledger!Worse(Grade)
<1>1. CASE faults = {}
  BY <1>1 DEF Grade, Ledger!Worse, Ledger!Grades
<1>2. CASE faults # {} /\ "save" \notin faults
  BY <1>2 DEF Grade, Ledger!Worse, Ledger!Grades
<1>3. CASE "save" \in faults
  BY <1>3 DEF Grade, Ledger!Worse
<1>. QED
  BY <1>1, <1>2, <1>3

LEMMA FaultsGrow == [Next]_vars => faults \subseteq faults'
<1>. SUFFICES ASSUME [Next]_vars PROVE faults \subseteq faults'
  OBVIOUS
<1>1. CASE Start
  BY <1>1 DEF Start
<1>2. CASE Seal \/ SaveOpen \/ SaveContent \/ SaveFails
  BY <1>2 DEF Seal, SaveOpen, SaveContent, SaveFails, histVars
<1>3. CASE Store \/ Reject \/ OpenFails \/ WriteFails
  BY <1>3 DEF Store, Reject, OpenFails, WriteFails, Return
<1>4. CASE Crash
  BY <1>4 DEF Crash
<1>5. CASE DayChanges \/ UNCHANGED vars
  BY <1>5 DEF DayChanges, vars, histVars
<1>. QED
  BY <1>1, <1>2, <1>3, <1>4, <1>5 DEF Next

\* What the line in flight may be settled as: younger than every settled event
\* and covering each of them as far as the grade promises.
LEMMA LineCovers ==
    ASSUME IInv, pc = "append"
    PROVE  /\ line \notin Settled
           /\ \A k \in Settled : k.hmac < line.hmac /\ Ledger!Covers(line, k)
<1>1. \A k \in Settled : k.hmac < line.hmac
  BY DEF IInv, Older, InFlight
<1>2. Settled \subseteq Line /\ line \in Line
  BY SettledType DEF IInv, TypeOK
<1>3. ChainHead.prev_hmac = line.prev_hmac
  BY DEF ChainHead
<1>4. \A k \in Settled : Ledger!Covers(line, k)
  <2>1. CASE faults = {}
    BY <1>2, <1>3, <2>1 DEF IInv, Unbroken, Ledger!Covers, Line
  <2>2. CASE faults # {} /\ "save" \notin faults
    <3>1. Grade = "restarted"
      BY <2>2 DEF Grade
    <3>. QED
      BY <1>2, <1>3, <2>2, <3>1 DEF IInv, Traced, Reaches, Ledger!Covers, Line
  <2>3. CASE "save" \in faults
    <3>1. Grade = "forked"
      BY <2>3 DEF Grade
    <3>. QED
      BY <3>1 DEF Ledger!Covers
  <2>. QED
    BY <2>1, <2>2, <2>3
<1>. QED
  BY <1>1, <1>2, <1>4 DEF Line

\* A step that keeps or loses the line in flight settles one event.
LEMMA SettlesLine ==
    ASSUME IInv, pc = "append",
           \/ Stored' = Stored \cup {line} /\ dropped' = dropped
           \/ Stored' = Stored /\ dropped' = dropped \cup {line}
    PROVE  Ledger!Settle
<1>1. line \in (Stored' \cup dropped') \ (Stored \cup dropped)
  BY LineCovers DEF Settled
<1>. QED
  BY <1>1, LineCovers DEF Ledger!Settle, Settled

LEMMA StepImplements ==
    ASSUME IInv, [Next]_vars
    PROVE  Ledger!Next
<1>1. Grade' \in Ledger!Worse(Grade)
  BY FaultsGrow, GradeWorsens
<1>2. CASE Ends
  <2>1. pc = "append"
    BY <1>2, EndsSettle DEF IInv
  <2>2. \/ Stored' = Stored \cup {line} /\ dropped' = dropped
        \/ Stored' = Stored /\ dropped' = dropped \cup {line}
    <3>1. CASE Store
      <4>1. PICK look \in Looks : log' = Append(log, Entered(Target(look))) /\ dropped' = dropped
        BY <3>1 DEF Store
      <4>2. TypeOK /\ log \in Seq(Entry)
        BY DEF IInv, TypeOK
      <4>3. Entered(Target(look)) \in Entry /\ Entered(Target(look)).line = line
        BY <4>2, TargetType
      <4>. QED
        BY <4>1, <4>2, <4>3, AppendLine DEF Stored
    <3>2. CASE Reject \/ OpenFails \/ WriteFails
      BY <3>2 DEF Reject, OpenFails, WriteFails, Stored
    <3>. QED
      BY <1>2, <3>1, <3>2 DEF Ends
  <2>. QED
    BY <1>1, <2>1, <2>2, SettlesLine DEF Ledger!Next
<1>3. CASE Crash
  <2>1. Stored' = Stored
    BY <1>3 DEF Crash, Stored
  <2>2. CASE pc = "append"
    BY <1>1, <1>3, <2>1, <2>2, SettlesLine DEF Crash, Ledger!Next
  <2>3. CASE pc # "append"
    BY <1>1, <1>3, <2>1, <2>3 DEF Crash, Ledger!Next, Ledger!Degrade
  <2>. QED
    BY <2>2, <2>3
<1>4. CASE Start \/ Seal \/ SaveOpen \/ SaveContent \/ SaveFails \/ DayChanges
           \/ UNCHANGED vars
  <2>1. Stored' = Stored /\ dropped' = dropped
    BY <1>4 DEF Start, Seal, SaveOpen, SaveContent, SaveFails, DayChanges, vars,
                memVars, diskVars, histVars, Stored
  <2>. QED
    BY <1>1, <2>1 DEF Ledger!Next, Ledger!Degrade
<1>. QED
  BY <1>2, <1>3, <1>4 DEF Next, Ends

\* Every behaviour of the writer, with its crashes, restarts, rotations and
\* failures, is a behaviour of a ledger that only grows.
THEOREM LogImplementsLedger == Spec => LedgerSpec
<1>1. Init => Ledger!Init
  BY DEF Init, Ledger!Init, Stored, Grade
<1>2. IInv /\ [Next]_vars => Ledger!Next
  BY StepImplements
<1>. QED
  BY <1>1, <1>2, Invariant, PTL DEF Spec, LedgerSpec, Ledger!Spec

-----------------------------------------------------------------------------
(* The bound on the size of a part.  A write can step over a full part to  *)
(* one it does not look at, so that a part grows past its limit; it does   *)
(* so at most once for each time its day was opened at part 0, because the *)
(* stream only moves forward in between, and once for each time it could   *)
(* not read how full the part is.                                          *)

Bound(d) == Limit + opens[d] + blind[d]

\* Parts the open stream has not reached have not been grown by this opening.
Ahead ==
    stream.state # "closed" =>
        /\ opens[stream.date] > 0
        /\ \A p \in Nat : p > stream.part =>
             Size(stream.date, p) + 1 < Bound(stream.date)

Bounded == \A d \in Days, p \in Nat : Size(d, p) < Bound(d)

PartsInv == TypeOK /\ Ahead /\ Bounded

-----------------------------------------------------------------------------
(* Lemmas about sizes *)

LEMMA SizeType ==
    ASSUME TypeOK
    PROVE  \A d, p : IsFiniteSet(At(d, p)) /\ Size(d, p) \in Nat
<1>. SUFFICES ASSUME NEW d, NEW p PROVE IsFiniteSet(At(d, p)) /\ Size(d, p) \in Nat
  OBVIOUS
<1>1. Len(log) \in Nat /\ DOMAIN log = 1 .. Len(log)
  BY DEF TypeOK
<1>2. IsFiniteSet(1 .. Len(log))
  BY <1>1, FS_Interval
<1>3. At(d, p) \in SUBSET (1 .. Len(log))
  BY <1>1 DEF At
<1>4. IsFiniteSet(At(d, p))
  BY <1>2, <1>3, FS_Subset
<1>. QED
  BY <1>4, FS_CardinalityType DEF Size

\* An entry appended to the log grows its own part by one, and no other.
LEMMA AppendSize ==
    ASSUME TypeOK, NEW e \in Entry, log' = Append(log, e)
    PROVE  \A d, p : Size(d, p)' = IF e.date = d /\ e.part = p
                                   THEN Size(d, p) + 1 ELSE Size(d, p)
<1>. SUFFICES ASSUME NEW d, NEW p
              PROVE  Size(d, p)' = IF e.date = d /\ e.part = p
                                   THEN Size(d, p) + 1 ELSE Size(d, p)
  OBVIOUS
<1>. DEFINE n == Len(log) + 1
<1>0. log \in Seq(Entry)
  BY DEF TypeOK
<1>1. /\ DOMAIN log = 1 .. Len(log)
      /\ DOMAIN log' = 1 .. n
      /\ Len(log) \in Nat
      /\ \A i \in 1 .. Len(log) : log'[i] = log[i]
      /\ log'[n] = e
  <2>1. \A s \in Seq(Entry) :
          /\ Len(s) \in Nat
          /\ DOMAIN s = 1 .. Len(s)
          /\ DOMAIN Append(s, e) = 1 .. Len(s) + 1
    OBVIOUS
  <2>2. \A s \in Seq(Entry) :
          /\ \A i \in 1 .. Len(s) : Append(s, e)[i] = s[i]
          /\ Append(s, e)[Len(s) + 1] = e
    OBVIOUS
  <2>. QED
    BY <1>0, <2>1, <2>2
<1>2. At(d, p)' = {i \in 1 .. n : log'[i].date = d /\ log'[i].part = p}
  BY <1>1 DEF At
<1>3. At(d, p) = {i \in 1 .. Len(log) : log[i].date = d /\ log[i].part = p}
  BY <1>1 DEF At
<1>4. n \notin At(d, p) /\ IsFiniteSet(At(d, p))
  <2>1. n \notin 1 .. Len(log)
    BY <1>1
  <2>2. At(d, p) \subseteq 1 .. Len(log)
    BY <1>3
  <2>. QED
    BY <2>1, <2>2, SizeType
<1>5. CASE e.date = d /\ e.part = p
  <2>1. At(d, p)' = At(d, p) \cup {n}
    BY <1>1, <1>2, <1>3, <1>5
  <2>2. Cardinality(At(d, p) \cup {n}) = Cardinality(At(d, p)) + 1
    BY <1>4, FS_AddElement
  <2>. QED
    BY <1>5, <2>1, <2>2 DEF Size
<1>6. CASE ~(e.date = d /\ e.part = p)
  <2>1. At(d, p)' = At(d, p)
    BY <1>1, <1>2, <1>3, <1>6
  <2>. QED
    BY <1>6, <2>1 DEF Size
<1>. QED
  BY <1>5, <1>6

\* The counts once the line in flight has reached the stream.
Opened == IF Reopens THEN [opens EXCEPT ![today] = @ + 1] ELSE opens

Blinded(look) ==
    IF ~look[2] /\ Full(Target(look)) THEN [blind EXCEPT ![today] = @ + 1] ELSE blind

LEMMA CountsGrow ==
    ASSUME TypeOK, NEW look \in Looks
    PROVE  /\ Opened \in [Days -> Nat] /\ \A d \in Days : opens[d] <= Opened[d]
           /\ Blinded(look) \in [Days -> Nat] /\ \A d \in Days : blind[d] <= Blinded(look)[d]
           /\ Limit \in Nat /\ Limit > 0 /\ MaxPart <= Limit /\ MaxPart \in Nat
BY AuditLogAssumption DEF Opened, Blinded, TypeOK, Limit

LEMMA BoundGrows ==
    ASSUME TypeOK, NEW look \in Looks, opens' = Opened, blind' = Blinded(look)
    PROVE  \A d \in Days : Bound(d) \in Nat /\ Bound(d)' \in Nat /\ Bound(d) <= Bound(d)'
<1>. SUFFICES ASSUME NEW d \in Days
              PROVE  Bound(d) \in Nat /\ Bound(d)' \in Nat /\ Bound(d) <= Bound(d)'
  OBVIOUS
<1>1. /\ Limit \in Nat /\ opens[d] \in Nat /\ blind[d] \in Nat
      /\ Opened[d] \in Nat /\ Blinded(look)[d] \in Nat
      /\ opens[d] <= Opened[d] /\ blind[d] <= Blinded(look)[d]
  BY CountsGrow DEF TypeOK
<1>2. Bound(d) = Limit + opens[d] + blind[d] /\ Bound(d)' = Limit + Opened[d] + Blinded(look)[d]
  BY DEF Bound, Limit
<1>. QED
  BY <1>1, <1>2

\* What rotation does to a stream that is ahead: it stays on its day, its
\* target has room for one more line within the bound, and all behind the
\* target are still ahead.
LEMMA TargetRoom ==
    ASSUME PartsInv, NEW look \in Looks
    PROVE  /\ Target(look) \in Stream
           /\ Target(look).state # "closed"
           /\ Target(look).date = today
           /\ Opened[today] > 0
           /\ \A p \in Nat : p > Target(look).part =>
                Size(today, p) + 1 < Limit + Opened[today] + blind[today]
           /\ Size(today, Target(look).part) + 1
                < Limit + Opened[today] + Blinded(look)[today]
<1>. DEFINE room(s) ==
              /\ s \in Stream
              /\ s.state # "closed"
              /\ s.date = today
              /\ \A p \in Nat : p > s.part =>
                   Size(today, p) + 1 < Limit + Opened[today] + blind[today]
<1>1. /\ MaxPart \in Nat /\ Limit \in Nat /\ Limit > 0 /\ MaxPart <= Limit
      /\ today \in Days
      /\ stream \in Stream
      /\ opens \in [Days -> Nat] /\ blind \in [Days -> Nat]
      /\ Opened \in [Days -> Nat] /\ opens[today] <= Opened[today]
      /\ Blinded(look) \in [Days -> Nat] /\ blind[today] <= Blinded(look)[today]
      /\ \A d, p : Size(d, p) \in Nat
  BY CountsGrow, SizeType DEF PartsInv, TypeOK
<1>2. Opened[today] > 0
  BY <1>1 DEF PartsInv, Ahead, Opened, Reopens
<1>3. ASSUME NEW s, room(s), NEW sized \in BOOLEAN
      PROVE  /\ room(Rotate(s, sized))
             /\ sized => \/ Size(today, Rotate(s, sized).part) < MaxPart
                         \/ Rotate(s, sized).part > s.part
  <2>1. CASE sized /\ Size(s.date, s.part) >= MaxPart
    <3>1. Rotate(s, sized) = NextPart(s)
      BY <1>3, <2>1 DEF Rotate, Full
    <3>. QED
      BY <1>3, <3>1 DEF Stream, NextPart
  <2>2. CASE ~(sized /\ Size(s.date, s.part) >= MaxPart)
    <3>1. Rotate(s, sized) = s
      BY <1>3, <2>2 DEF Rotate, Full
    <3>. QED
      BY <1>1, <1>3, <2>2, <3>1
  <2>. QED
    BY <2>1, <2>2
<1>. DEFINE first == EnsureOpen(look[1])
<1>4. room(first)
  <2>1. CASE Reopens
    <3>1. first = [state |-> "good", date |-> today, part |-> 0]
      BY <2>1 DEF EnsureOpen
    <3>2. Opened[today] = opens[today] + 1
      BY <1>1, <2>1 DEF Opened
    <3>3. \A p \in Nat : Size(today, p) + 1 < Limit + Opened[today] + blind[today]
      BY <1>1, <3>2 DEF PartsInv, Bounded, Bound
    <3>. QED
      BY <1>1, <3>1, <3>3 DEF Stream
  <2>2. CASE ~Reopens
    <3>1. first = Rotate(stream, look[1]) /\ Opened = opens
      BY <2>2 DEF EnsureOpen, Opened
    <3>2. room(stream)
      BY <1>1, <2>2, <3>1 DEF PartsInv, Ahead, Bound, Reopens
    <3>3. look[1] \in BOOLEAN
      BY DEF Looks
    <3>. HIDE DEF room
    <3>. QED
      BY <1>3, <3>1, <3>2, <3>3
  <2>. QED
    BY <2>1, <2>2
<1>5. /\ room(Target(look))
      /\ look[2] => \/ Size(today, Target(look).part) < MaxPart
                    \/ Target(look).part > first.part
  <2>1. look[2] \in BOOLEAN
    BY DEF Looks
  <2>. HIDE DEF room, first
  <2>2. Target(look) = Rotate(first, look[2])
    BY DEF Target, first
  <2>. QED
    BY <1>3, <1>4, <2>1, <2>2
<1>6. Size(today, Target(look).part) + 1 < Limit + Opened[today] + Blinded(look)[today]
  <2>. HIDE DEF first
  <2>1. Target(look).part \in Nat
    BY <1>5 DEF Stream
  <2>2. CASE Size(today, Target(look).part) < MaxPart
    BY <1>1, <1>2, <2>2
  <2>3. CASE look[2] /\ Target(look).part > first.part
    BY <1>1, <1>4, <2>1, <2>3
  <2>4. CASE ~look[2] /\ ~(Size(today, Target(look).part) < MaxPart)
    <3>1. Full(Target(look))
      BY <1>1, <1>5, <2>4 DEF Full
    <3>2. Blinded(look)[today] = blind[today] + 1
      BY <1>1, <2>4, <3>1 DEF Blinded
    <3>3. Size(today, Target(look).part) < Limit + opens[today] + blind[today]
      BY <1>1, <2>1 DEF PartsInv, Bounded, Bound
    <3>. QED
      BY <1>1, <3>2, <3>3
  <2>. QED
    BY <1>5, <2>2, <2>3, <2>4
<1>. QED
  BY <1>2, <1>5, <1>6

-----------------------------------------------------------------------------
(* The invariant is inductive *)

LEMMA PartsInit == Init => PartsInv
<1>. SUFFICES ASSUME Init PROVE PartsInv
  OBVIOUS
<1>1. TypeOK
  BY InitType
<1>2. \A d, p : Size(d, p) = 0
  <2>1. \A d, p : At(d, p) = {}
    BY DEF Init, At
  <2>. QED
    BY <2>1, FS_EmptySet DEF Size
<1>3. Ahead
  BY DEF Init, Ahead, Closed
<1>4. Bounded
  BY <1>2, AuditLogAssumption DEF Init, Bounded, Bound, Limit
<1>. QED
  BY <1>1, <1>3, <1>4 DEF PartsInv

\* The bounds, and the stream behind which they hold with one line to spare,
\* after a line has reached the stream.
LEMMA ReachedParts ==
    ASSUME PartsInv, TypeOK', NEW look \in Looks,
           opens' = Opened, blind' = Blinded(look), today' = today,
           stream'.date = today, stream'.part = Target(look).part,
           \A d, p : \/ Size(d, p)' = Size(d, p)
                     \/ /\ d = today /\ p = Target(look).part
                        /\ Size(d, p)' = Size(d, p) + 1
    PROVE  PartsInv'
<1>1. TypeOK /\ today \in Days
  BY DEF PartsInv, TypeOK
<1>2. Bound(today)' = Limit + Opened[today] + Blinded(look)[today]
  BY DEF Bound, Limit
<1>3. Bounded'
  <2>. SUFFICES ASSUME NEW d \in Days, NEW p \in Nat
                PROVE  Size(d, p)' < Bound(d)'
    BY DEF Bounded
  <2>1. CASE Size(d, p)' = Size(d, p)
    <3>1. Size(d, p) < Bound(d)
      BY DEF PartsInv, Bounded
    <3>. QED
      BY <1>1, <2>1, <3>1, SizeType, BoundGrows
  <2>2. CASE d = today /\ p = Target(look).part /\ Size(d, p)' = Size(d, p) + 1
    BY <1>2, <2>2, TargetRoom
  <2>. QED
    BY <2>1, <2>2
<1>4. Ahead'
  <2>1. opens'[today] > 0
    BY TargetRoom
  <2>2. ASSUME NEW p \in Nat, p > Target(look).part
        PROVE  Size(today, p)' + 1 < Bound(today)'
    <3>1. Target(look).part # p
      BY <2>2, TargetRoom DEF Stream
    <3>2. Size(today, p)' = Size(today, p)
      BY <3>1
    <3>3. Size(today, p) + 1 < Limit + Opened[today] + blind[today]
      BY <2>2, TargetRoom
    <3>4. /\ Limit \in Nat /\ Opened[today] \in Nat /\ blind[today] \in Nat
          /\ Blinded(look)[today] \in Nat /\ blind[today] <= Blinded(look)[today]
      BY <1>1, CountsGrow DEF TypeOK
    <3>5. Size(today, p) \in Nat
      BY <1>1, SizeType
    <3>. QED
      BY <1>2, <3>2, <3>3, <3>4, <3>5
  <2>. QED
    BY <2>1, <2>2 DEF Ahead
<1>. QED
  BY <1>3, <1>4 DEF PartsInv

LEMMA StoreParts ==
    ASSUME PartsInv, Store, TypeOK'
    PROVE  PartsInv'
<1>1. PICK look \in Looks :
           /\ stream' = Target(look)
           /\ log' = Append(log, Entered(Target(look)))
           /\ Count(look)
  BY DEF Store
<1>2. TypeOK
  BY DEF PartsInv
<1>3. /\ Entered(Target(look)) \in Entry
      /\ Entered(Target(look)).date = today
      /\ Entered(Target(look)).part = Target(look).part
  BY <1>2, TargetType, TargetRoom DEF Entered
<1>4. \A d, p : \/ Size(d, p)' = Size(d, p)
                \/ /\ d = today /\ p = Target(look).part
                   /\ Size(d, p)' = Size(d, p) + 1
  BY <1>1, <1>2, <1>3, AppendSize
<1>5. opens' = Opened /\ blind' = Blinded(look)
  BY <1>1 DEF Count, Opened, Blinded
<1>7. today' = today
  BY DEF Store, WriteFails, Return
<1>6. stream'.date = today /\ stream'.part = Target(look).part
  BY <1>1, TargetRoom
<1>. QED
  BY <1>4, <1>5, <1>6, <1>7, ReachedParts

\* A step that leaves the log alone keeps all sizes.
LEMMA SameLog ==
    ASSUME log' = log
    PROVE  \A d, p : Size(d, p)' = Size(d, p)
BY DEF Size, At

LEMMA WriteFailsParts ==
    ASSUME PartsInv, WriteFails, TypeOK'
    PROVE  PartsInv'
<1>1. PICK look \in Looks :
           stream' = [Target(look) EXCEPT !.state = "bad"] /\ Count(look) /\ log' = log
  BY DEF WriteFails
<1>2. stream'.date = today /\ stream'.part = Target(look).part
  BY <1>1, TargetRoom DEF Stream
<1>3. \A d, p : Size(d, p)' = Size(d, p)
  BY <1>1, SameLog
<1>4. opens' = Opened /\ blind' = Blinded(look)
  BY <1>1 DEF Count, Opened, Blinded
<1>7. today' = today
  BY DEF Store, WriteFails, Return
<1>. QED
  BY <1>2, <1>3, <1>4, <1>7, ReachedParts

\* Every other step keeps the log and the counts, and keeps the stream or
\* closes it.
LEMMA OtherParts ==
    ASSUME PartsInv, TypeOK', UNCHANGED <<log, opens, blind>>,
           stream' = stream \/ stream' = Closed
    PROVE  PartsInv'
<1>1. \A d, p : Size(d, p)' = Size(d, p)
  BY SameLog
<1>2. Bounded'
  BY <1>1 DEF PartsInv, Bounded, Bound, Limit
<1>3. Ahead'
  BY <1>1 DEF PartsInv, Ahead, Closed, Bound, Limit
<1>. QED
  BY <1>2, <1>3 DEF PartsInv

LEMMA PartsNext == PartsInv /\ [Next]_vars => PartsInv'
<1>. SUFFICES ASSUME PartsInv, [Next]_vars PROVE PartsInv'
  OBVIOUS
<1>1. TypeOK'
  BY NextType DEF PartsInv
<1>2. CASE Store
  BY <1>1, <1>2, StoreParts
<1>3. CASE WriteFails
  BY <1>1, <1>3, WriteFailsParts
<1>4. CASE Reject \/ OpenFails \/ Crash
  BY <1>1, <1>4, OtherParts DEF Reject, OpenFails, Crash
<1>5. CASE Start \/ Seal \/ SaveOpen \/ SaveContent \/ SaveFails
  BY <1>1, <1>5, OtherParts
     DEF Start, Seal, SaveOpen, SaveContent, SaveFails, diskVars, histVars
<1>6. CASE DayChanges \/ UNCHANGED vars
  BY <1>1, <1>6, OtherParts DEF DayChanges, vars, diskVars, histVars
<1>. QED
  BY <1>2, <1>3, <1>4, <1>5, <1>6 DEF Next

-----------------------------------------------------------------------------
(* Theorem *)

\* No part outgrows its limit by more than a line for each time its day's log
\* was found not open and one for each time a full part's size could not be
\* read, although write_encrypted_line can step over the part that
\* rotate_if_needed looked at.
THEOREM PartOverflowBoundedHolds == Spec => []PartOverflowBounded
<1>1. Spec => []PartsInv
  BY PartsInit, PartsNext, PTL DEF Spec
<1>2. PartsInv => PartOverflowBounded
  <2>. SUFFICES ASSUME PartsInv, NEW i \in DOMAIN log
                PROVE  Size(log[i].date, log[i].part) < Bound(log[i].date)
    BY DEF PartOverflowBounded, Bound
  <2>1. log[i] \in Entry
    BY DEF PartsInv, TypeOK
  <2>. QED
    BY <2>1 DEF Entry, PartsInv, Bounded
<1>. QED
  BY <1>1, <1>2, PTL

=============================================================================
