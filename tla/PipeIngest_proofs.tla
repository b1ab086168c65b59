--------------------------- MODULE PipeIngest_proofs ---------------------------
(***************************************************************************)
(* Proofs about PipeIngest, for any number of threads, events and          *)
(* connections.  What every step keeps, races or not, is that the JSON of  *)
(* an event is at one place at most: a pipe, or a frame that was handed    *)
(* over.  While no two threads are in write() at once, there is moreover   *)
(* one connection, and what it carries is a run of whole frames.           *)
(***************************************************************************)
EXTENDS PipeIngest, SequenceTheorems, TLAPS

-----------------------------------------------------------------------------
(* The inductive invariant *)

\* An event whose call of write() is over.
Past(e) ==
    \/ e[2] < count[e[1]]
    \/ e[2] = count[e[1]] /\ at[e[1]] = "idle"

\* A connection without a handler is empty; a thread in write() has an event.
Tidy ==
    /\ \A c \in Conn \ served : stream[c] = <<>> /\ c \notin length
    /\ \A t \in Threads : at[t] # "idle" => count[t] > 0

\* The first half of an event is sent with the end of its call, once.
Sent ==
    \A c \in Conn : \A i \in DOMAIN stream[c] :
        stream[c][i][1] = "front" =>
            /\ Past(stream[c][i][2])
            /\ stream[c][i][2] \notin failed
            /\ \A d \in Conn : \A j \in DOMAIN stream[d] :
                 stream[d][j] = stream[c][i] => c = d /\ i = j

HandedOver ==
    \A k \in DOMAIN ingested :
        ingested[k][1][1] = "front" =>
            /\ Past(ingested[k][1][2])
            /\ ingested[k][1][2] \notin failed
            /\ \A l \in DOMAIN ingested : ingested[l][1] = ingested[k][1] => k = l
            /\ \A c \in Conn : \A i \in DOMAIN stream[c] : stream[c][i] # ingested[k][1]

Over == \A e \in failed : Past(e)

OnceInv == TypeOK /\ Tidy /\ Sent /\ HandedOver /\ Over

\* Without a race: one thread in write(), and one connection with a handler.
Alone ==
    /\ \A t, u \in Threads : at[t] # "idle" /\ at[u] # "idle" => t = u
    /\ \A c \in served : c = pipe
    /\ pipe \in held \cup {0}
    /\ \A t \in Threads : /\ at[t] \in {"reset", "clear", "open"} => pipe \notin served
                          /\ at[t] \in {"clear", "open"} => pipe = 0

\* A length, the two halves of an event, and so on, from the unit given.
IsRun(s, first) ==
    \A i \in DOMAIN s :
        /\ i = 1 => s[i][1] = first
        /\ s[i][1] = "front" => i + 1 \in DOMAIN s /\ s[i + 1] = Half(s[i][2], "back")
        /\ i # 1 /\ s[i][1] = "front" => s[i - 1][1] = "length"
        /\ i # 1 /\ s[i][1] = "length" => s[i - 1][1] = "back"
        /\ i # 1 /\ s[i][1] = "back" => s[i - 1][1] = "front"

\* The last frame of a run has its length only.
IsBegun(s, first) == IF s = <<>> THEN first = "front" ELSE s[Len(s)][1] = "length"

\* What a handler reads next.
Awaits(c) == IF c \in length THEN "front" ELSE "length"

Begun(c) == IsBegun(stream[c], Awaits(c))

Framed ==
    \A c \in Conn :
        /\ IsRun(stream[c], Awaits(c))
        /\ Begun(c) => \E t \in Threads : at[t] = "body"
        /\ c = pipe /\ c \in served /\ (\E t \in Threads : at[t] = "body") => Begun(c)

\* e comes before f, if they are of one thread.
Before(e, f) == e[1] = f[1] => e[2] < f[2]

Ordered ==
    /\ \A c \in Conn : \A i, j \in DOMAIN stream[c] :
         i < j /\ stream[c][i][1] = "front" /\ stream[c][j][1] = "front" =>
             Before(stream[c][i][2], stream[c][j][2])
    /\ \A k \in DOMAIN ingested :
         /\ Whole(ingested[k])
         /\ \A l \in DOMAIN ingested : l < k => Before(ingested[l][1][2], ingested[k][1][2])
         /\ \A c \in Conn : \A i \in DOMAIN stream[c] :
              stream[c][i][1] = "front" => Before(ingested[k][1][2], stream[c][i][2])

InStreams == {e \in Event : \E c \in Conn : \E i \in DOMAIN stream[c] : stream[c][i] = Half(e, "front")}

Accounted == told \subseteq cut \cup Received \cup InStreams

CalmInv == Alone /\ Framed /\ Ordered /\ Accounted

IInv == OnceInv /\ (~raced => CalmInv)

-----------------------------------------------------------------------------
(* Types, and what a step does to the calls of write() *)

LEMMA FrameTypes ==
    ASSUME TypeOK, NEW t \in Threads, count[t] > 0
    PROVE  /\ Current(t) \in Event
           /\ Len4(Current(t)) \in Unit
           /\ Body(Current(t)) \in Seq(Unit)
<1>1. Current(t) \in Event
  BY DEF TypeOK, Current, Event
<1>2. \A h \in {"length", "front", "back"} : <<h, Current(t)>> \in Unit
  BY <1>1 DEF Unit
<1>. QED
  BY <1>1, <1>2 DEF Len4, Body, Half

LEMMA CloseTypes ==
    ASSUME TypeOK, NEW c \in Conn, Close(c)
    PROVE  /\ served' = served \ {c} /\ length' = length \ {c}
           /\ stream' \in [Conn -> Seq(Unit)]
           /\ stream'[c] = <<>> /\ \A d \in Conn \ {c} : stream'[d] = stream[d]
<1>1. <<>> \in Seq(Unit)
  OBVIOUS
<1>. QED
  BY <1>1 DEF Close, TypeOK

LEMMA GiveUpTypes ==
    ASSUME TypeOK, Tidy, NEW t \in Threads, at[t] # "idle", GiveUpOrReset(t)
    PROVE  /\ at' \in [Threads -> {"idle", "length", "body", "reset", "clear", "open"}]
           /\ retry' \subseteq Threads
           /\ failed' \subseteq Event
<1>1. Current(t) \in Event
  BY FrameTypes DEF Tidy
<1>. QED
  BY <1>1 DEF GiveUpOrReset, Go, TypeOK

LEMMA InitOnce == Init => OnceInv
<1>. SUFFICES ASSUME Init PROVE OnceInv
  OBVIOUS
<1>1. TypeOK
  <2>1. 1 \in Conn
    BY PipeAssumption DEF Conn
  <2>2. stream \in [Conn -> Seq(Unit)] /\ ingested \in Seq(Unit \X Unit)
    BY DEF Init
  <2>3. at \in [Threads -> {"idle"}] /\ count \in [Threads -> 0 .. PerThread]
    BY PipeAssumption DEF Init
  <2>4. up \in BOOLEAN /\ raced \in BOOLEAN
    BY DEF Init
  <2>. QED
    BY <2>1, <2>2, <2>3, <2>4 DEF Init, TypeOK
<1>2. \A c \in Conn : stream[c] = <<>>
  BY DEF Init
<1>. QED
  BY <1>1, <1>2 DEF Init, OnceInv, Tidy, Sent, HandedOver, Over, Conn

\* The steps of a thread in write().
LEMMA ClientType ==
    ASSUME TypeOK, Tidy, NEW t \in Threads,
           \/ Begin(t) \/ WriteLength(t) \/ WriteBody(t) \/ Reset(t) \/ Open(t) \/ OpenFails(t)
    PROVE  TypeOK' /\ Tidy'
<1>. USE PipeAssumption DEF TypeOK, Tidy
<1>1. CASE Begin(t)
  BY <1>1 DEF Begin, Go
<1>2. CASE WriteLength(t)
  <2>1. at[t] = "length" /\ count[t] > 0 /\ (pipe \in served => pipe \in Conn)
    BY <1>2 DEF WriteLength
  <2>2. CASE Writable
    <3>1. /\ stream' = [stream EXCEPT ![pipe] = Append(stream[pipe], Len4(Current(t)))]
          /\ pipe \in served
          /\ at' = [at EXCEPT ![t] = "body"]
          /\ UNCHANGED <<up, pipe, conns, held, served, length, count, ingested, told, cut, raced, retry, failed>>
      BY <1>2, <2>2 DEF WriteLength, Writable, Go
    <3>2. stream' \in [Conn -> Seq(Unit)]
      BY <2>1, <3>1, FrameTypes
    <3>. QED
      BY <2>1, <3>1, <3>2
  <2>3. CASE ~Writable
    <3>1. /\ GiveUpOrReset(t)
          /\ UNCHANGED <<up, pipe, conns, held, served, stream, length, count, ingested, told, cut, raced>>
      BY <1>2, <2>3 DEF WriteLength
    <3>2. \A u \in Threads : at'[u] # "idle" => at[u] # "idle"
      BY <2>1, <3>1 DEF GiveUpOrReset, Go
    <3>. QED
      BY <2>1, <3>1, <3>2, GiveUpTypes
  <2>. QED
    BY <2>2, <2>3
<1>3. CASE WriteBody(t)
  <2>1. at[t] = "body" /\ count[t] > 0 /\ (pipe \in served => pipe \in Conn)
    BY <1>3 DEF WriteBody
  <2>2. CASE Writable
    <3>1. /\ stream' = [stream EXCEPT ![pipe] = stream[pipe] \o Body(Current(t))]
          /\ pipe \in served
          /\ at' = [at EXCEPT ![t] = "idle"]
          /\ told' = told \cup {Current(t)} /\ retry' = retry \ {t}
          /\ UNCHANGED <<up, pipe, conns, held, served, length, count, ingested, cut, raced, failed>>
      BY <1>3, <2>2 DEF WriteBody, Writable, Go
    <3>2. stream' \in [Conn -> Seq(Unit)]
      BY <2>1, <3>1, FrameTypes
    <3>. QED
      BY <2>1, <3>1, <3>2, FrameTypes
  <2>3. CASE ~Writable
    <3>1. /\ GiveUpOrReset(t)
          /\ UNCHANGED <<up, pipe, conns, held, served, stream, length, count, ingested, told, cut, raced>>
      BY <1>3, <2>3 DEF WriteBody
    <3>2. \A u \in Threads : at'[u] # "idle" => at[u] # "idle"
      BY <2>1, <3>1 DEF GiveUpOrReset, Go
    <3>. QED
      BY <2>1, <3>1, <3>2, GiveUpTypes
  <2>. QED
    BY <2>2, <2>3
<1>4. CASE Reset(t)
  BY <1>4 DEF Reset, Disconnect, Go
<1>5. CASE Open(t)
  BY <1>5 DEF Open, Go, Conn
<1>6. CASE OpenFails(t)
  BY <1>6, FrameTypes DEF OpenFails, Go
<1>. QED
  BY <1>1, <1>2, <1>3, <1>4, <1>5, <1>6

\* The handlers, and the service as a whole.
LEMMA ServiceType ==
    ASSUME TypeOK, Tidy,
           \/ \E c \in Conn : ReadLength(c) \/ ReadPayload(c) \/ ReadFails(c)
           \/ ServiceDies \/ ServiceStarts \/ UNCHANGED vars
    PROVE  TypeOK' /\ Tidy'
<1>. USE PipeAssumption DEF TypeOK, Tidy
<1>1. ASSUME NEW c \in Conn, ReadLength(c) PROVE TypeOK' /\ Tidy'
  <2>1. CASE Head(stream[c])[1] = "length"
    <3>1. /\ length' = length \cup {c} /\ c \in served
          /\ stream' = [stream EXCEPT ![c] = Tail(stream[c])] /\ stream[c] # <<>>
          /\ UNCHANGED <<up, conns, held, served, ingested, cut, clientVars>>
      BY <1>1, <2>1 DEF ReadLength
    <3>2. Tail(stream[c]) \in Seq(Unit)
      BY <3>1
    <3>. QED
      BY <3>1, <3>2 DEF clientVars
  <2>2. CASE Head(stream[c])[1] # "length"
    <3>1. Close(c) /\ UNCHANGED <<up, conns, held, ingested, cut, clientVars>>
      BY <1>1, <2>2 DEF ReadLength
    <3>. QED
      BY <3>1, CloseTypes DEF clientVars
  <2>. QED
    BY <2>1, <2>2
<1>2. ASSUME NEW c \in Conn, ReadPayload(c) PROVE TypeOK' /\ Tidy'
  <2>1. CASE Len(stream[c]) >= 2
    <3>1. /\ length' = length \ {c}
          /\ stream' = [stream EXCEPT ![c] = SubSeq(stream[c], 3, Len(stream[c]))]
          /\ ingested' = Append(ingested, <<stream[c][1], stream[c][2]>>)
          /\ c \in served
          /\ UNCHANGED <<up, conns, held, served, cut, clientVars>>
      BY <1>2, <2>1 DEF ReadPayload
    <3>2. stream[c] \in Seq(Unit) /\ stream[c][1] \in Unit /\ stream[c][2] \in Unit
      BY <2>1
    <3>3. SubSeq(stream[c], 3, Len(stream[c])) \in Seq(Unit)
      BY <3>2
    <3>4. stream' \in [Conn -> Seq(Unit)] /\ ingested' \in Seq(Unit \X Unit)
      BY <3>1, <3>2, <3>3
    <3>. QED
      BY <3>1, <3>4 DEF clientVars
  <2>2. CASE Len(stream[c]) < 2
    <3>1. Close(c) /\ UNCHANGED <<up, conns, held, ingested, cut, clientVars>>
      BY <1>2, <2>2 DEF ReadPayload
    <3>. QED
      BY <3>1, CloseTypes DEF clientVars
  <2>. QED
    BY <2>1, <2>2
<1>3. ASSUME NEW c \in Conn, ReadFails(c) PROVE TypeOK' /\ Tidy'
  BY <1>3, CloseTypes DEF ReadFails, clientVars
<1>4. CASE ServiceDies
  <2>1. stream' \in [Conn -> Seq(Unit)] /\ \A c \in Conn : stream'[c] = <<>>
    BY <1>4 DEF ServiceDies
  <2>2. cut' \subseteq Event
    BY <1>4 DEF ServiceDies, InPipes
  <2>. QED
    BY <1>4, <2>1, <2>2 DEF ServiceDies, clientVars
<1>5. CASE ServiceStarts
  BY <1>5 DEF ServiceStarts, clientVars
<1>6. CASE UNCHANGED vars
  BY <1>6 DEF vars, clientVars
<1>. QED
  BY <1>1, <1>2, <1>3, <1>4, <1>5, <1>6

LEMMA NextType == TypeOK /\ Tidy /\ [Next]_vars => TypeOK' /\ Tidy'
BY ClientType, ServiceType DEF Next

\* The type of the whole: what every variable can be, whatever races.
THEOREM TypeCorrect == Spec => []TypeOK
<1>1. Init => TypeOK /\ Tidy
  BY InitOnce DEF OnceInv
<1>. QED
  BY <1>1, NextType, PTL DEF Spec

-----------------------------------------------------------------------------
(* Each event is sent once *)

\* Calls that are over stay over, and an event fails with the end of its call.
CallsEnd ==
    /\ \A e \in Event : Past(e) => Past(e)'
    /\ \A e \in failed' : e \in failed \/ (~Past(e) /\ Past(e)')

LEMMA GiveUpEnds ==
    ASSUME TypeOK, Tidy, NEW t \in Threads, at[t] \notin {"idle"}, GiveUpOrReset(t), count' = count
    PROVE  CallsEnd
<1>0. PICK e : e = Current(t)
  OBVIOUS
<1>1. e \in Event /\ ~Past(e) /\ e = <<t, count[t]>>
  BY <1>0, FrameTypes DEF Past, Current, TypeOK, Tidy
<1>2. CASE t \in retry
  <2>1. at' = [at EXCEPT ![t] = "idle"] /\ failed' = failed \cup {e}
    BY <1>0, <1>2 DEF GiveUpOrReset, Go
  <2>2. Past(e)'
    BY <1>1, <2>1 DEF Past, TypeOK
  <2>3. \A f \in Event : Past(f) => Past(f)'
    BY <2>1 DEF Past, TypeOK, Event
  <2>. QED
    BY <1>1, <2>1, <2>2, <2>3 DEF CallsEnd
<1>3. CASE t \notin retry
  <2>1. at' = [at EXCEPT ![t] = "reset"] /\ failed' = failed
    BY <1>3 DEF GiveUpOrReset, Go
  <2>. QED
    BY <2>1 DEF Past, CallsEnd, TypeOK, Event
<1>. QED
  BY <1>2, <1>3

LEMMA NextCallsEnd == ASSUME TypeOK, Tidy, [Next]_vars PROVE CallsEnd
<1>1. ASSUME NEW t \in Threads, Begin(t) PROVE CallsEnd
  <2>1. /\ at[t] = "idle" /\ count' = [count EXCEPT ![t] = count[t] + 1]
        /\ at' = [at EXCEPT ![t] = "length"] /\ failed' = failed
    BY <1>1 DEF Begin, Go
  <2>. QED
    BY <2>1 DEF Past, CallsEnd, TypeOK, Event
<1>2. ASSUME NEW t \in Threads, WriteLength(t) \/ WriteBody(t) PROVE CallsEnd
  <2>1. at[t] # "idle" /\ count' = count
    BY <1>2 DEF WriteLength, WriteBody
  <2>2. CASE Writable
    <3>1. /\ failed' = failed
          /\ at' = [at EXCEPT ![t] = "body"] \/ at' = [at EXCEPT ![t] = "idle"]
      BY <1>2, <2>2 DEF WriteLength, WriteBody, Go
    <3>. QED
      BY <2>1, <3>1 DEF Past, CallsEnd, TypeOK, Event
  <2>3. CASE ~Writable
    BY <1>2, <2>1, <2>3, GiveUpEnds DEF WriteLength, WriteBody
  <2>. QED
    BY <2>2, <2>3
<1>3. ASSUME NEW t \in Threads, Reset(t) \/ Open(t) PROVE CallsEnd
  <2>1. /\ at[t] # "idle" /\ count' = count /\ failed' = failed
        /\ \E place : at' = [at EXCEPT ![t] = place]
    BY <1>3 DEF Reset, Open, Go
  <2>. QED
    BY <2>1 DEF Past, CallsEnd, TypeOK, Event
<1>4. ASSUME NEW t \in Threads, OpenFails(t) PROVE CallsEnd
  <2>0. PICK e : e = Current(t)
    OBVIOUS
  <2>1. /\ at[t] = "open" /\ count' = count /\ failed' = failed \cup {e}
        /\ at' = [at EXCEPT ![t] = "idle"]
    BY <1>4, <2>0 DEF OpenFails, Go
  <2>2. e \in Event /\ ~Past(e) /\ e = <<t, count[t]>>
    BY <2>0, <2>1, FrameTypes DEF Past, Current, TypeOK, Tidy
  <2>3. Past(e)'
    BY <2>1, <2>2 DEF Past, TypeOK
  <2>4. \A f \in Event : Past(f) => Past(f)'
    BY <2>1 DEF Past, TypeOK, Event
  <2>. QED
    BY <2>1, <2>2, <2>3, <2>4 DEF CallsEnd
<1>5. ASSUME UNCHANGED clientVars PROVE CallsEnd
  BY <1>5 DEF clientVars, CallsEnd, Past
<1>6. ASSUME \/ \E c \in Conn : ReadLength(c) \/ ReadPayload(c) \/ ReadFails(c)
             \/ ServiceDies \/ ServiceStarts \/ UNCHANGED vars
      PROVE  UNCHANGED clientVars
  BY <1>6 DEF ReadLength, ReadPayload, ReadFails, ServiceDies, ServiceStarts, vars
<1>. QED
  BY <1>1, <1>2, <1>3, <1>4, <1>5, <1>6 DEF Next

\* Nothing is added to a pipe, and what it loses is at its head.
Shift(c) == Len(stream[c]) - Len(stream'[c])

Shrinks ==
    \A c \in Conn :
        /\ Len(stream'[c]) <= Len(stream[c])
        /\ \A i \in DOMAIN stream'[c] : stream'[c][i] = stream[c][i + Shift(c)]

LEMMA ShrinkOnce ==
    ASSUME OnceInv, TypeOK', Shrinks, CallsEnd, ingested' = ingested
    PROVE  Sent' /\ HandedOver' /\ Over'
<1>. USE DEF OnceInv
<1>1. ASSUME NEW c \in Conn, NEW i \in DOMAIN stream'[c]
      PROVE  /\ i + Shift(c) \in DOMAIN stream[c]
             /\ stream'[c][i] = stream[c][i + Shift(c)]
             /\ stream'[c][i] \in Unit
             /\ Shift(c) \in Nat /\ i \in Nat
  <2>1. /\ stream[c] \in Seq(Unit) /\ stream'[c] \in Seq(Unit)
        /\ Len(stream[c]) \in Nat /\ Len(stream'[c]) \in Nat
        /\ DOMAIN stream[c] = 1 .. Len(stream[c]) /\ DOMAIN stream'[c] = 1 .. Len(stream'[c])
    BY DEF TypeOK
  <2>2. stream'[c][i] = stream[c][i + Shift(c)] /\ Len(stream'[c]) <= Len(stream[c])
    BY DEF Shrinks
  <2>3. Shift(c) \in Nat /\ i \in Nat /\ i + Shift(c) \in 1 .. Len(stream[c])
    <3>1. PICK m, n, k : m = Len(stream[c]) /\ n = Len(stream'[c]) /\ k = Shift(c)
      OBVIOUS
    <3>2. i \in 1 .. n /\ n <= m /\ m \in Nat /\ n \in Nat /\ k = m - n
      BY <2>1, <2>2, <3>1 DEF Shift
    <3>3. k \in Nat /\ i \in Nat /\ i + k \in 1 .. m
      BY <3>2
    <3>. QED
      BY <3>1, <3>3
  <2>4. stream'[c][i] \in Unit
    BY <2>1
  <2>. QED
    BY <2>1, <2>2, <2>3, <2>4
<1>2. Over'
  BY DEF Over, CallsEnd, TypeOK
<1>3. ASSUME NEW c \in Conn, NEW i \in DOMAIN stream'[c], stream'[c][i][1] = "front",
             NEW e \in Event, e = stream'[c][i][2]
      PROVE  /\ Past(e)'
             /\ e \notin failed'
             /\ \A d \in Conn : \A j \in DOMAIN stream'[d] :
                  stream'[d][j] = stream'[c][i] => c = d /\ i = j
  <2>1. Past(e) /\ e \notin failed
    BY <1>1, <1>3 DEF Sent
  <2>2. ASSUME NEW d \in Conn, NEW j \in DOMAIN stream'[d], stream'[d][j] = stream'[c][i]
        PROVE  c = d /\ i = j
    <3>1. c = d /\ i + Shift(c) = j + Shift(d)
      BY <1>1, <1>3, <2>2 DEF Sent
    <3>. QED
      BY <1>1, <3>1
  <2>. QED
    BY <1>3, <2>1, <2>2 DEF CallsEnd
<1>4. ASSUME NEW k \in DOMAIN ingested, ingested[k][1][1] = "front",
             NEW e \in Event, e = ingested[k][1][2]
      PROVE  /\ Past(e)'
             /\ e \notin failed'
             /\ \A l \in DOMAIN ingested : ingested[l][1] = ingested[k][1] => k = l
             /\ \A c \in Conn : \A i \in DOMAIN stream'[c] : stream'[c][i] # ingested[k][1]
  BY <1>1, <1>4 DEF HandedOver, CallsEnd
<1>5. Sent'
  <2>1. \A c \in Conn : \A i \in DOMAIN stream'[c] : stream'[c][i][2] \in Event
    BY <1>1 DEF Unit
  <2>. QED
    BY <1>3, <2>1 DEF Sent, Past
<1>6. HandedOver'
  <2>1. \A k \in DOMAIN ingested : ingested[k][1][2] \in Event
    BY DEF TypeOK, Unit
  <2>. QED
    BY <1>4, <2>1 DEF HandedOver, Past
<1>. QED
  BY <1>2, <1>5, <1>6

\* What the queue operations used here leave of a sequence.
LEMMA TailShift ==
    ASSUME NEW S, NEW s \in Seq(S), s # <<>>
    PROVE  /\ Tail(s) \in Seq(S) /\ Len(s) \in Nat \ {0} /\ Len(Tail(s)) = Len(s) - 1
           /\ \A i \in 1 .. Len(s) - 1 : Tail(s)[i] = s[i + 1]
OBVIOUS

LEMMA SubSeqShift ==
    ASSUME NEW S, NEW s \in Seq(S), Len(s) >= 2
    PROVE  /\ SubSeq(s, 3, Len(s)) \in Seq(S)
           /\ Len(s) \in Nat /\ Len(SubSeq(s, 3, Len(s))) = Len(s) - 2
           /\ \A i \in 1 .. Len(s) - 2 : SubSeq(s, 3, Len(s))[i] = s[i + 2]
<1>1. Len(s) \in Nat /\ \A i \in 3 .. Len(s) : s[i] \in S
  OBVIOUS
<1>2. /\ SubSeq(s, 3, Len(s)) \in Seq(S)
      /\ Len(SubSeq(s, 3, Len(s))) = IF 3 <= Len(s) THEN Len(s) - 3 + 1 ELSE 0
      /\ \A i \in 1 .. Len(s) - 3 + 1 : SubSeq(s, 3, Len(s))[i] = s[3 + i - 1]
  BY <1>1, SubSeqProperties
<1>3. \A i \in 1 .. Len(s) - 2 : i \in 1 .. Len(s) - 3 + 1 /\ 3 + i - 1 = i + 2
  BY <1>1
<1>4. \A i \in 1 .. Len(s) - 2 : SubSeq(s, 3, Len(s))[i] = s[i + 2]
  BY <1>2, <1>3
<1>5. Len(SubSeq(s, 3, Len(s))) = Len(s) - 2
  <2>1. CASE Len(s) = 2
    BY <1>2, <2>1
  <2>2. CASE Len(s) # 2
    <3>1. \A n \in Nat : n >= 2 /\ n # 2 => 3 <= n /\ n - 3 + 1 = n - 2
      OBVIOUS
    <3>2. 3 <= Len(s) /\ Len(s) - 3 + 1 = Len(s) - 2
      BY <1>1, <2>2, <3>1
    <3>. QED
      BY <1>2, <3>2
  <2>. QED
    BY <2>1, <2>2
<1>. QED
  BY <1>1, <1>2, <1>4, <1>5

LEMMA SameShrinks == ASSUME TypeOK, stream' = stream PROVE Shrinks
<1>. SUFFICES ASSUME NEW c \in Conn
              PROVE  /\ Len(stream'[c]) <= Len(stream[c])
                     /\ \A i \in DOMAIN stream'[c] : stream'[c][i] = stream[c][i + Shift(c)]
  BY DEF Shrinks
<1>1. Len(stream[c]) \in Nat /\ \A i \in DOMAIN stream[c] : i \in Nat
  BY DEF TypeOK
<1>2. Shift(c) = 0
  BY <1>1 DEF Shift
<1>. QED
  BY <1>1, <1>2

\* One pipe loses its first units, or all, or every pipe is emptied.
LEMMA HeadShrinks ==
    ASSUME TypeOK, NEW c \in Conn, NEW n \in Nat, n <= Len(stream[c]), NEW s \in Seq(Unit),
           Len(s) = Len(stream[c]) - n,
           \A i \in 1 .. Len(stream[c]) - n : s[i] = stream[c][i + n],
           stream' = [stream EXCEPT ![c] = s]
    PROVE  Shrinks
<1>. SUFFICES ASSUME NEW d \in Conn
              PROVE  /\ Len(stream'[d]) <= Len(stream[d])
                     /\ \A i \in DOMAIN stream'[d] : stream'[d][i] = stream[d][i + Shift(d)]
  BY DEF Shrinks
<1>1. Len(stream[d]) \in Nat /\ \A i \in DOMAIN stream[d] : i \in Nat
  BY DEF TypeOK
<1>2. CASE d = c
  <2>1. stream'[d] = s /\ Shift(d) = n /\ DOMAIN s = 1 .. Len(stream[c]) - n
    BY <1>1, <1>2 DEF Shift, TypeOK
  <2>. QED
    BY <1>1, <1>2, <2>1
<1>3. CASE d # c
  <2>1. stream'[d] = stream[d]
    BY <1>3 DEF TypeOK
  <2>2. Shift(d) = 0
    BY <1>1, <2>1 DEF Shift
  <2>. QED
    BY <1>1, <2>1, <2>2
<1>. QED
  BY <1>2, <1>3

LEMMA CloseShrinks == ASSUME TypeOK, NEW c \in Conn, Close(c) PROVE Shrinks
<1>1. /\ <<>> \in Seq(Unit) /\ Len(<<>>) = 0 /\ Len(stream[c]) \in Nat
      /\ stream' = [stream EXCEPT ![c] = <<>>]
  BY DEF Close, TypeOK
<1>2. PICK n \in Nat : n = Len(stream[c])
  BY <1>1
<1>3. n <= Len(stream[c]) /\ Len(<<>>) = Len(stream[c]) - n /\ 1 .. Len(stream[c]) - n = {}
  BY <1>1, <1>2
<1>. QED
  BY <1>1, <1>3, HeadShrinks

LEMMA DeathShrinks == ASSUME TypeOK, ServiceDies PROVE Shrinks
<1>1. \A c \in Conn : Len(stream[c]) \in Nat
  BY DEF TypeOK
<1>2. \A c \in Conn : stream'[c] = <<>>
  BY DEF ServiceDies
<1>. QED
  BY <1>1, <1>2 DEF Shrinks

\* A length goes into a pipe.
LEMMA LengthOnce ==
    ASSUME OnceInv, TypeOK', CallsEnd, UNCHANGED <<ingested, failed>>,
           NEW c \in Conn, NEW u \in Unit, u[1] = "length",
           stream' = [stream EXCEPT ![c] = Append(stream[c], u)]
    PROVE  Sent' /\ HandedOver' /\ Over'
<1>. USE DEF OnceInv
<1>1. /\ \A d \in Conn : Len(stream[d]) \in Nat /\ DOMAIN stream[d] = 1 .. Len(stream[d])
      /\ \A d \in Conn \ {c} : stream'[d] = stream[d]
      /\ DOMAIN stream'[c] = 1 .. Len(stream[c]) + 1
      /\ stream'[c][Len(stream[c]) + 1] = u
      /\ \A i \in 1 .. Len(stream[c]) : stream'[c][i] = stream[c][i]
  BY DEF TypeOK
<1>2. ASSUME NEW d \in Conn, NEW i \in DOMAIN stream'[d], stream'[d][i][1] = "front"
      PROVE  i \in DOMAIN stream[d] /\ stream'[d][i] = stream[d][i]
  BY <1>1, <1>2
<1>3. \A d \in Conn : \A i \in DOMAIN stream[d] : stream[d][i][2] \in Event
  BY DEF TypeOK, Unit
<1>4. \A k \in DOMAIN ingested : ingested[k][1][2] \in Event
  BY DEF TypeOK, Unit
<1>5. Sent'
  <2>. SUFFICES ASSUME NEW d \in Conn, NEW i \in DOMAIN stream'[d], stream'[d][i][1] = "front",
                       NEW e, e = stream'[d][i][2]
                PROVE  /\ Past(e)'
                       /\ e \notin failed
                       /\ \A x \in Conn : \A j \in DOMAIN stream'[x] :
                            stream'[x][j] = stream'[d][i] => d = x /\ i = j
    BY DEF Sent, Past
  <2>. QED
    BY <1>2, <1>3 DEF Sent, CallsEnd
<1>6. HandedOver'
  <2>. SUFFICES ASSUME NEW k \in DOMAIN ingested, ingested[k][1][1] = "front",
                       NEW e, e = ingested[k][1][2]
                PROVE  /\ Past(e)'
                       /\ e \notin failed
                       /\ \A l \in DOMAIN ingested : ingested[l][1] = ingested[k][1] => k = l
                       /\ \A d \in Conn : \A i \in DOMAIN stream'[d] : stream'[d][i] # ingested[k][1]
    BY DEF HandedOver, Past
  <2>. QED
    BY <1>2, <1>4 DEF HandedOver, CallsEnd
<1>7. Over'
  BY DEF Over, CallsEnd, TypeOK
<1>. QED
  BY <1>5, <1>6, <1>7

\* The JSON of an event goes into a pipe, with the end of its call.
LEMMA BodyOnce ==
    ASSUME OnceInv, TypeOK', CallsEnd, UNCHANGED <<ingested, failed>>,
           NEW c \in Conn, NEW e \in Event, ~Past(e), Past(e)',
           stream' = [stream EXCEPT ![c] = stream[c] \o Body(e)]
    PROVE  Sent' /\ HandedOver' /\ Over'
<1>. USE DEF OnceInv
<1>1. PICK L : L = Len(stream[c])
  OBVIOUS
<1>2. /\ L \in Nat
      /\ \A d \in Conn : Len(stream[d]) \in Nat /\ DOMAIN stream[d] = 1 .. Len(stream[d])
      /\ \A d \in Conn \ {c} : stream'[d] = stream[d]
      /\ DOMAIN stream'[c] = 1 .. L + 2 /\ DOMAIN stream[c] = 1 .. L
      /\ stream'[c][L + 1] = Half(e, "front")
      /\ stream'[c][L + 2] = Half(e, "back")
      /\ \A i \in 1 .. L : stream'[c][i] = stream[c][i]
  <2>1. stream[c] \in Seq(Unit) /\ Body(e) \in Seq(Unit) /\ Len(Body(e)) = 2
        /\ Body(e)[1] = Half(e, "front") /\ Body(e)[2] = Half(e, "back")
    BY DEF TypeOK, Body, Half, Unit
  <2>2. stream'[c] = stream[c] \o Body(e)
    BY DEF TypeOK
  <2>3. Len(stream'[c]) = L + 2 /\ \A i \in 1 .. L + 2 :
           stream'[c][i] = IF i <= L THEN stream[c][i] ELSE Body(e)[i - L]
    <3>1. /\ Len(stream[c] \o Body(e)) = Len(stream[c]) + Len(Body(e))
          /\ \A i \in 1 .. Len(stream[c]) + Len(Body(e)) : (stream[c] \o Body(e))[i] =
                IF i <= Len(stream[c]) THEN stream[c][i] ELSE Body(e)[i - Len(stream[c])]
      BY <2>1, ConcatProperties
    <3>. QED
      BY <1>1, <2>1, <2>2, <3>1
  <2>4. L \in Nat /\ DOMAIN stream'[c] = 1 .. L + 2
    BY <1>1, <2>1, <2>3 DEF TypeOK
  <2>. QED
    BY <1>1, <2>1, <2>3, <2>4 DEF TypeOK
<1>3. Half(e, "front")[1] = "front" /\ Half(e, "front")[2] = e /\ Half(e, "back")[1] = "back"
  BY DEF Half
<1>4. ASSUME NEW d \in Conn, NEW i \in DOMAIN stream'[d], stream'[d][i][1] = "front"
      PROVE  \/ i \in DOMAIN stream[d] /\ stream'[d][i] = stream[d][i]
             \/ d = c /\ i = L + 1 /\ stream'[d][i] = Half(e, "front")
  <2>1. CASE d = c
    <3>1. i \in 1 .. L \/ i = L + 1 \/ i = L + 2
      BY <1>2, <2>1
    <3>. QED
      BY <1>2, <1>3, <1>4, <2>1, <3>1
  <2>2. CASE d # c
    BY <1>2, <2>2
  <2>. QED
    BY <2>1, <2>2
<1>5. /\ \A d \in Conn : \A i \in DOMAIN stream[d] : stream[d][i][2] \in Event
      /\ \A k \in DOMAIN ingested : ingested[k][1][2] \in Event
  BY DEF TypeOK, Unit
<1>6. /\ \A d \in Conn : \A i \in DOMAIN stream[d] : stream[d][i] # Half(e, "front")
      /\ \A k \in DOMAIN ingested : ingested[k][1] # Half(e, "front")
      /\ e \notin failed
  BY <1>3 DEF Sent, HandedOver, Over
<1>7. Sent'
  <2>. SUFFICES ASSUME NEW d \in Conn, NEW i \in DOMAIN stream'[d], stream'[d][i][1] = "front",
                       NEW f, f = stream'[d][i][2]
                PROVE  /\ Past(f)'
                       /\ f \notin failed
                       /\ \A x \in Conn : \A j \in DOMAIN stream'[x] :
                            stream'[x][j] = stream'[d][i] => d = x /\ i = j
    BY DEF Sent, Past
  <2>1. CASE i \in DOMAIN stream[d] /\ stream'[d][i] = stream[d][i]
    <3>1. Past(f)' /\ f \notin failed
      BY <1>5, <2>1 DEF Sent, CallsEnd
    <3>2. ASSUME NEW x \in Conn, NEW j \in DOMAIN stream'[x], stream'[x][j] = stream'[d][i]
          PROVE  d = x /\ i = j
      BY <1>4, <1>6, <2>1, <3>2 DEF Sent
    <3>. QED
      BY <3>1, <3>2
  <2>2. CASE d = c /\ i = L + 1 /\ stream'[d][i] = Half(e, "front")
    <3>1. ASSUME NEW x \in Conn, NEW j \in DOMAIN stream'[x], stream'[x][j] = stream'[d][i]
          PROVE  d = x /\ i = j
      BY <1>3, <1>4, <1>6, <2>2, <3>1
    <3>. QED
      BY <1>3, <1>6, <2>2, <3>1
  <2>. QED
    BY <1>4, <2>1, <2>2
<1>8. HandedOver'
  <2>. SUFFICES ASSUME NEW k \in DOMAIN ingested, ingested[k][1][1] = "front",
                       NEW f, f = ingested[k][1][2]
                PROVE  /\ Past(f)'
                       /\ f \notin failed
                       /\ \A l \in DOMAIN ingested : ingested[l][1] = ingested[k][1] => k = l
                       /\ \A d \in Conn : \A i \in DOMAIN stream'[d] : stream'[d][i] # ingested[k][1]
    BY DEF HandedOver, Past
  <2>. QED
    BY <1>4, <1>5, <1>6 DEF HandedOver, CallsEnd
<1>9. Over'
  BY DEF Over, CallsEnd, TypeOK
<1>. QED
  BY <1>7, <1>8, <1>9

\* A handler hands over what is at the head of its pipe.
LEMMA PayloadOnce ==
    ASSUME OnceInv, TypeOK', CallsEnd, NEW c \in Conn, ReadPayload(c), Len(stream[c]) >= 2
    PROVE  Sent' /\ HandedOver' /\ Over'
<1>. USE DEF OnceInv
<1>1. PICK u, v, n, m : u = stream[c][1] /\ v = stream[c][2] /\ n = Len(ingested) /\ m = Len(stream[c])
  OBVIOUS
<1>2. /\ n \in Nat /\ m \in Nat /\ m >= 2 /\ u \in Unit /\ v \in Unit
      /\ DOMAIN ingested = 1 .. n /\ DOMAIN stream[c] = 1 .. m
  BY <1>1 DEF TypeOK
<1>3. /\ UNCHANGED failed
      /\ DOMAIN ingested' = 1 .. n + 1
      /\ ingested'[n + 1][1] = u /\ ingested'[n + 1][2] = v
      /\ \A k \in 1 .. n : ingested'[k] = ingested[k]
  <2>1. ingested' = Append(ingested, <<u, v>>) /\ UNCHANGED failed
    BY <1>1 DEF ReadPayload, clientVars
  <2>. QED
    BY <1>1, <1>2, <2>1 DEF TypeOK
<1>4. /\ \A d \in Conn \ {c} : stream'[d] = stream[d]
      /\ DOMAIN stream'[c] = 1 .. m - 2
      /\ \A i \in 1 .. m - 2 : stream'[c][i] = stream[c][i + 2]
  <2>1. stream' = [stream EXCEPT ![c] = SubSeq(stream[c], 3, Len(stream[c]))]
    BY DEF ReadPayload
  <2>2. stream[c] \in Seq(Unit)
    BY DEF TypeOK
  <2>3. /\ SubSeq(stream[c], 3, Len(stream[c])) \in Seq(Unit)
        /\ Len(SubSeq(stream[c], 3, Len(stream[c]))) = m - 2
        /\ \A i \in 1 .. m - 2 : SubSeq(stream[c], 3, Len(stream[c]))[i] = stream[c][i + 2]
    BY <1>1, <2>2, SubSeqShift
  <2>4. stream'[c] = SubSeq(stream[c], 3, Len(stream[c])) /\ \A d \in Conn \ {c} : stream'[d] = stream[d]
    BY <2>1 DEF TypeOK
  <2>. QED
    BY <1>2, <2>3, <2>4
<1>5. ASSUME NEW d \in Conn, NEW i \in DOMAIN stream'[d]
      PROVE  \E j \in DOMAIN stream[d] :
                /\ stream'[d][i] = stream[d][j]
                /\ j = IF d = c THEN i + 2 ELSE i
                /\ d = c => j > 2
  BY <1>2, <1>4
<1>6. /\ \A d \in Conn : \A i \in DOMAIN stream[d] : stream[d][i][2] \in Event
      /\ \A k \in DOMAIN ingested : ingested[k][1][2] \in Event
      /\ \A d \in Conn : \A i \in DOMAIN stream'[d] : i \in Nat
  BY DEF TypeOK, Unit
<1>7. Sent'
  <2>. SUFFICES ASSUME NEW d \in Conn, NEW i \in DOMAIN stream'[d], stream'[d][i][1] = "front",
                       NEW f, f = stream'[d][i][2]
                PROVE  /\ Past(f)'
                       /\ f \notin failed
                       /\ \A x \in Conn : \A j \in DOMAIN stream'[x] :
                            stream'[x][j] = stream'[d][i] => d = x /\ i = j
    BY <1>3 DEF Sent, Past
  <2>1. Past(f)' /\ f \notin failed
    BY <1>5, <1>6 DEF Sent, CallsEnd
  <2>2. ASSUME NEW x \in Conn, NEW j \in DOMAIN stream'[x], stream'[x][j] = stream'[d][i]
        PROVE  d = x /\ i = j
    <3>1. PICK k \in DOMAIN stream[d] : stream'[d][i] = stream[d][k] /\ k = IF d = c THEN i + 2 ELSE i
      BY <1>5
    <3>2. PICK l \in DOMAIN stream[x] : stream'[x][j] = stream[x][l] /\ l = IF x = c THEN j + 2 ELSE j
      BY <1>5
    <3>3. d = x /\ k = l
      BY <2>2, <3>1, <3>2 DEF Sent
    <3>. QED
      BY <1>6, <3>1, <3>2, <3>3
  <2>. QED
    BY <2>1, <2>2
<1>8. HandedOver'
  <2>. SUFFICES ASSUME NEW k \in 1 .. n + 1, ingested'[k][1][1] = "front",
                       NEW f, f = ingested'[k][1][2]
                PROVE  /\ Past(f)'
                       /\ f \notin failed
                       /\ \A l \in 1 .. n + 1 : ingested'[l][1] = ingested'[k][1] => k = l
                       /\ \A d \in Conn : \A i \in DOMAIN stream'[d] : stream'[d][i] # ingested'[k][1]
    BY <1>3 DEF HandedOver, Past
  <2>0. /\ 1 \in DOMAIN stream[c] /\ stream[c][1] = u
        /\ \A l \in 1 .. n + 1 : l \in 1 .. n \/ l = n + 1
    BY <1>1, <1>2
  <2>1. u[1] = "front" => \A l \in 1 .. n : ingested[l][1] # u
    BY <1>2, <2>0 DEF HandedOver
  <2>2. u[1] = "front" => \A d \in Conn : \A i \in DOMAIN stream'[d] : stream'[d][i] # u
    BY <1>5, <2>0 DEF Sent
  <2>3. CASE k = n + 1
    <3>1. Past(f)' /\ f \notin failed
      BY <1>3, <1>6, <2>0, <2>3 DEF Sent, CallsEnd
    <3>. QED
      BY <1>3, <2>0, <2>1, <2>2, <2>3, <3>1
  <2>4. CASE k \in 1 .. n
    <3>1. ingested'[k] = ingested[k] /\ k \in DOMAIN ingested
      BY <1>2, <1>3, <2>4
    <3>2. Past(f)' /\ f \notin failed
      BY <1>6, <3>1 DEF HandedOver, CallsEnd
    <3>3. ASSUME NEW l \in 1 .. n + 1, ingested'[l][1] = ingested'[k][1] PROVE k = l
      BY <1>2, <1>3, <2>0, <2>1, <3>1, <3>3 DEF HandedOver
    <3>4. \A d \in Conn : \A i \in DOMAIN stream'[d] : stream'[d][i] # ingested'[k][1]
      BY <1>5, <3>1 DEF HandedOver
    <3>. QED
      BY <3>2, <3>3, <3>4
  <2>. QED
    BY <2>0, <2>3, <2>4
<1>9. Over'
  BY DEF Over, CallsEnd, TypeOK
<1>. QED
  BY <1>7, <1>8, <1>9

\* A step that leaves the pipes alone, or takes from their heads.
LEMMA QuietOnce ==
    ASSUME OnceInv, TypeOK', Tidy', CallsEnd, Shrinks, ingested' = ingested
    PROVE  OnceInv'
BY ShrinkOnce DEF OnceInv

LEMMA NextOnce == OnceInv /\ [Next]_vars => OnceInv'
<1>. SUFFICES ASSUME OnceInv, [Next]_vars PROVE OnceInv'
  OBVIOUS
<1>1. TypeOK /\ Tidy /\ TypeOK' /\ Tidy' /\ CallsEnd
  BY NextType, NextCallsEnd DEF OnceInv
<1>2. ASSUME stream' = stream, ingested' = ingested PROVE OnceInv'
  BY <1>1, <1>2, SameShrinks, QuietOnce
<1>3. ASSUME NEW t \in Threads, WriteLength(t) PROVE OnceInv'
  <2>1. CASE Writable
    <3>1. /\ stream' = [stream EXCEPT ![pipe] = Append(stream[pipe], Len4(Current(t)))]
          /\ UNCHANGED <<ingested, failed>> /\ pipe \in Conn /\ at[t] # "idle"
      BY <1>1, <1>3, <2>1 DEF WriteLength, Writable, TypeOK
    <3>2. PICK u \in Unit : u = Len4(Current(t)) /\ u[1] = "length"
      BY <1>1, <3>1, FrameTypes DEF Len4, Tidy
    <3>. QED
      BY <1>1, <3>1, <3>2, LengthOnce DEF OnceInv
  <2>2. CASE ~Writable
    BY <1>2, <1>3, <2>2 DEF WriteLength
  <2>. QED
    BY <2>1, <2>2
<1>4. ASSUME NEW t \in Threads, WriteBody(t) PROVE OnceInv'
  <2>1. CASE Writable
    <3>1. PICK e : e = Current(t)
      OBVIOUS
    <3>2. /\ stream' = [stream EXCEPT ![pipe] = stream[pipe] \o Body(e)]
          /\ UNCHANGED <<ingested, failed, count>> /\ pipe \in Conn
          /\ at[t] = "body" /\ at' = [at EXCEPT ![t] = "idle"]
      BY <1>1, <1>4, <2>1, <3>1 DEF WriteBody, Writable, Go, TypeOK
    <3>3. e \in Event /\ ~Past(e) /\ Past(e)'
      BY <1>1, <3>1, <3>2, FrameTypes DEF Past, Current, Tidy, TypeOK
    <3>. QED
      BY <1>1, <3>2, <3>3, BodyOnce DEF OnceInv
  <2>2. CASE ~Writable
    BY <1>2, <1>4, <2>2 DEF WriteBody
  <2>. QED
    BY <2>1, <2>2
<1>5. ASSUME NEW t \in Threads, Begin(t) \/ Reset(t) \/ Open(t) \/ OpenFails(t) PROVE OnceInv'
  BY <1>2, <1>5 DEF Begin, Reset, Open, OpenFails
<1>6. ASSUME NEW c \in Conn, ReadLength(c) PROVE OnceInv'
  <2>1. ingested' = ingested /\ stream[c] # <<>> /\ stream[c] \in Seq(Unit)
    BY <1>1, <1>6 DEF ReadLength, TypeOK
  <2>2. CASE Head(stream[c])[1] = "length"
    <3>1. PICK s \in Seq(Unit) : s = Tail(stream[c])
      BY <2>1, TailShift
    <3>2. stream' = [stream EXCEPT ![c] = s]
      BY <1>6, <2>2, <3>1 DEF ReadLength
    <3>3. /\ 1 <= Len(stream[c]) /\ Len(s) = Len(stream[c]) - 1
          /\ \A i \in 1 .. Len(stream[c]) - 1 : s[i] = stream[c][i + 1]
      BY <2>1, <3>1, TailShift
    <3>4. Shrinks
      BY <1>1, <3>2, <3>3, HeadShrinks
    <3>. QED
      BY <1>1, <2>1, <3>4, QuietOnce
  <2>3. CASE Head(stream[c])[1] # "length"
    BY <1>1, <1>6, <2>1, <2>3, CloseShrinks, QuietOnce DEF ReadLength
  <2>. QED
    BY <2>2, <2>3
<1>7. ASSUME NEW c \in Conn, ReadPayload(c) PROVE OnceInv'
  <2>1. CASE Len(stream[c]) >= 2
    BY <1>1, <1>7, <2>1, PayloadOnce DEF OnceInv
  <2>2. CASE Len(stream[c]) < 2
    <3>1. Close(c) /\ ingested' = ingested
      BY <1>1, <1>7, <2>2 DEF ReadPayload, TypeOK
    <3>. QED
      BY <1>1, <3>1, CloseShrinks, QuietOnce
  <2>. QED
    BY <1>1, <2>1, <2>2 DEF TypeOK
<1>8. ASSUME NEW c \in Conn, ReadFails(c) PROVE OnceInv'
  BY <1>1, <1>8, CloseShrinks, QuietOnce DEF ReadFails
<1>9. CASE ServiceDies
  BY <1>1, <1>9, DeathShrinks, QuietOnce DEF ServiceDies
<1>10. CASE ServiceStarts \/ UNCHANGED vars
  BY <1>2, <1>10 DEF ServiceStarts, vars
<1>. QED
  BY <1>3, <1>4, <1>5, <1>6, <1>7, <1>8, <1>9, <1>10 DEF Next

LEMMA OnceInvariance == Spec => []OnceInv
BY InitOnce, NextOnce, PTL DEF Spec

\* Whatever the threads tear apart, whatever fails and restarts, the service
\* receives no event twice.
THEOREM NeverTwiceHolds == Spec => []NeverTwice
<1>1. OnceInv => NeverTwice
  <2>. SUFFICES ASSUME OnceInv, NEW i \in DOMAIN ingested, NEW j \in DOMAIN ingested,
                       i # j, Whole(ingested[i])
                PROVE  ingested[i] # ingested[j]
    BY DEF NeverTwice
  <2>1. PICK e \in Event : ingested[i] = Body(e)
    BY DEF Whole
  <2>2. ingested[i][1][1] = "front"
    BY <2>1 DEF Body, Half
  <2>. QED
    BY <2>2 DEF OnceInv, HandedOver
<1>. QED
  BY <1>1, OnceInvariance, PTL

-----------------------------------------------------------------------------
(* Without a race *)

LEMMA InitCalm == Init => CalmInv
<1>. SUFFICES ASSUME Init PROVE CalmInv
  OBVIOUS
<1>1. \A c \in Conn : stream[c] = <<>> /\ c \notin length
  BY DEF Init
<1>2. Alone
  BY DEF Init, Alone
<1>3. Framed
  BY <1>1 DEF Init, Framed, IsRun, Begun, IsBegun, Awaits
<1>4. Ordered
  BY <1>1 DEF Init, Ordered
<1>5. Accounted
  BY DEF Init, Accounted
<1>. QED
  BY <1>2, <1>3, <1>4, <1>5 DEF CalmInv

\* A write fails without a race only when nothing is connected.
LEMMA NoHandler ==
    ASSUME TypeOK, Tidy, Alone, pipe \notin served
    PROVE  served = {} /\ \A c \in Conn : stream[c] = <<>> /\ c \notin length
BY DEF TypeOK, Tidy, Alone

LEMMA FailsAlone ==
    ASSUME TypeOK, Alone, ~Writable
    PROVE  pipe \notin served
BY DEF TypeOK, Alone, Writable, Conn

LEMMA GiveUpAlone ==
    ASSUME TypeOK, Alone, NEW t \in Threads, at[t] # "idle", GiveUpOrReset(t), pipe \notin served,
           UNCHANGED <<pipe, held, served>>
    PROVE  Alone'
<1>1. at' = [at EXCEPT ![t] = "idle"] \/ at' = [at EXCEPT ![t] = "reset"]
  BY DEF GiveUpOrReset, Go
<1>2. /\ \A u \in Threads : at'[u] # "idle" => at[u] # "idle"
      /\ \A u \in Threads : at'[u] \in {"clear", "open"} => at'[u] = at[u]
  BY <1>1 DEF TypeOK
<1>. QED
  BY <1>2 DEF Alone

\* There is one thread in write(), and one connection.
LEMMA NextAlone ==
    ASSUME TypeOK, Tidy, Alone, [Next]_vars, ~raced'
    PROVE  Alone' /\ ~raced
<1>1. ASSUME NEW t \in Threads, Begin(t) PROVE Alone' /\ ~raced
  <2>1. /\ at' = [at EXCEPT ![t] = "length"] /\ UNCHANGED <<pipe, held, served>> /\ ~raced
        /\ \A u \in Threads \ {t} : at[u] = "idle"
    BY <1>1 DEF Begin, Go
  <2>. QED
    BY <2>1 DEF Alone, TypeOK
<1>2. ASSUME NEW t \in Threads, WriteLength(t) \/ WriteBody(t) PROVE Alone' /\ ~raced
  <2>1. at[t] # "idle" /\ UNCHANGED <<pipe, held, served, raced>>
    BY <1>2 DEF WriteLength, WriteBody
  <2>2. CASE Writable
    <3>1. at' = [at EXCEPT ![t] = "body"] \/ at' = [at EXCEPT ![t] = "idle"]
      BY <1>2, <2>2 DEF WriteLength, WriteBody, Go
    <3>. QED
      BY <2>1, <3>1 DEF Alone, TypeOK
  <2>3. CASE ~Writable
    <3>1. GiveUpOrReset(t) /\ pipe \notin served
      BY <1>2, <2>3, FailsAlone DEF WriteLength, WriteBody
    <3>. QED
      BY <2>1, <3>1, GiveUpAlone
  <2>. QED
    BY <2>2, <2>3
<1>3. ASSUME NEW t \in Threads, Reset(t) PROVE Alone' /\ ~raced
  <2>1. /\ at[t] \in {"reset", "clear"} /\ pipe' = 0 /\ UNCHANGED <<served, raced>>
        /\ at' = [at EXCEPT ![t] = IF at[t] = "reset" THEN "clear" ELSE "open"]
    BY <1>3 DEF Reset, Disconnect, Go
  <2>2. served = {} /\ at' \in [Threads -> {"idle", "length", "body", "reset", "clear", "open"}]
    BY <2>1, NoHandler DEF Alone, TypeOK
  <2>3. \A u \in Threads : at'[u] # "idle" => at[u] # "idle"
    BY <2>1 DEF TypeOK
  <2>. QED
    BY <2>1, <2>2, <2>3 DEF Alone
<1>4. ASSUME NEW t \in Threads, Open(t) PROVE Alone' /\ ~raced
  <2>1. /\ at[t] = "open" /\ at' = [at EXCEPT ![t] = "length"] /\ raced' = raced
        /\ pipe' = conns + 1 /\ held' = held \cup {conns + 1} /\ served' = served \cup {conns + 1}
    BY <1>4 DEF Open, Go
  <2>2. served = {}
    BY <2>1, NoHandler DEF Alone
  <2>3. \A u \in Threads : at'[u] # "idle" => at[u] # "idle"
    BY <2>1 DEF TypeOK
  <2>4. \A u \in Threads : at'[u] \in {"idle", "length"}
    BY <2>1, <2>3 DEF Alone, TypeOK
  <2>. QED
    BY <2>1, <2>2, <2>3, <2>4 DEF Alone
<1>5. ASSUME NEW t \in Threads, OpenFails(t) PROVE Alone' /\ ~raced
  BY <1>5 DEF OpenFails, Go, Alone, TypeOK
<1>6. ASSUME \/ \E c \in Conn : ReadLength(c) \/ ReadPayload(c) \/ ReadFails(c)
             \/ ServiceDies \/ ServiceStarts \/ UNCHANGED vars
      PROVE  Alone' /\ ~raced
  <2>1. UNCHANGED <<held, clientVars>> /\ served' \subseteq served
    BY <1>6 DEF ReadLength, ReadPayload, ReadFails, Close, ServiceDies, ServiceStarts, vars
  <2>. QED
    BY <2>1 DEF clientVars, Alone
<1>. QED
  BY <1>1, <1>2, <1>3, <1>4, <1>5, <1>6 DEF Next

\* Nothing is in a pipe, and nothing new is told.
LEMMA EmptyCalm ==
    ASSUME OnceInv, CalmInv, \A c \in Conn : stream'[c] = <<>> /\ c \notin length',
           ingested' = ingested, told' = told, cut \cup InStreams \subseteq cut',
           ~ \E t \in Threads, c \in served' : at'[t] = "body"
    PROVE  Framed' /\ Ordered' /\ Accounted'
<1>1. Framed'
  BY DEF Framed, IsRun, Begun, IsBegun, Awaits
<1>2. Ordered'
  BY DEF CalmInv, Ordered, Whole
<1>3. Received' = Received
  BY DEF Received
<1>4. Accounted'
  BY <1>3 DEF CalmInv, Accounted
<1>. QED
  BY <1>1, <1>2, <1>4

\* The pipes are as they were, and so is who is at the second write.
LEMMA SameCalm ==
    ASSUME OnceInv, CalmInv, UNCHANGED <<stream, length, ingested, told, cut, pipe, served>>,
           \A t \in Threads : at'[t] = "body" <=> at[t] = "body"
    PROVE  Framed' /\ Ordered' /\ Accounted'
<1>1. Framed'
  BY DEF CalmInv, Framed, Begun, Awaits
<1>2. Ordered'
  BY DEF CalmInv, Ordered, Whole
<1>3. Received' = Received /\ InStreams' = InStreams
  BY DEF Received, InStreams
<1>4. Accounted'
  BY <1>3 DEF CalmInv, Accounted
<1>. QED
  BY <1>1, <1>2, <1>4

\* What reading and writing do to a run of frames.
LEMMA RunThenLength ==
    ASSUME NEW s \in Seq(Unit), NEW first \in {"front", "length"}, NEW u \in Unit, u[1] = "length",
           IsRun(s, first), ~IsBegun(s, first)
    PROVE  IsRun(Append(s, u), first) /\ IsBegun(Append(s, u), first)
<1>1. PICK L, r : L = Len(s) /\ r = Append(s, u)
  OBVIOUS
<1>2. /\ L \in Nat /\ DOMAIN s = 1 .. L /\ DOMAIN r = 1 .. L + 1 /\ Len(r) = L + 1 /\ r # <<>>
      /\ r[L + 1] = u /\ \A i \in 1 .. L : r[i] = s[i]
  BY <1>1
<1>3. L # 0 => s[L][1] = "back"
  <2>1. L # 0 => L \in DOMAIN s /\ L + 1 \notin DOMAIN s /\ s # <<>> /\ s[L] \in Unit
    BY <1>1, <1>2
  <2>. QED
    BY <1>1, <2>1 DEF IsRun, IsBegun, Unit
<1>4. L = 0 => first = "length"
  BY <1>1, <1>2 DEF IsBegun
<1>5. ASSUME NEW i \in DOMAIN r
      PROVE  /\ i = 1 => r[i][1] = first
             /\ r[i][1] = "front" => i + 1 \in DOMAIN r /\ r[i + 1] = Half(r[i][2], "back")
             /\ i # 1 /\ r[i][1] = "front" => r[i - 1][1] = "length"
             /\ i # 1 /\ r[i][1] = "length" => r[i - 1][1] = "back"
             /\ i # 1 /\ r[i][1] = "back" => r[i - 1][1] = "front"
  <2>1. CASE i \in 1 .. L
    <3>1. /\ r[i] = s[i] /\ i \in DOMAIN s
          /\ i + 1 \in DOMAIN s => i + 1 \in DOMAIN r /\ r[i + 1] = s[i + 1]
          /\ i # 1 => r[i - 1] = s[i - 1]
      BY <1>2, <2>1
    <3>. QED
      BY <3>1 DEF IsRun
  <2>2. CASE i = L + 1
    <3>1. i # 1 => r[i - 1] = s[L] /\ L # 0
      BY <1>2, <2>2
    <3>2. i = 1 => L = 0
      BY <1>2, <2>2
    <3>. QED
      BY <1>2, <1>3, <1>4, <2>2, <3>1, <3>2
  <2>. QED
    BY <1>2, <2>1, <2>2
<1>6. IsRun(r, first)
  BY <1>5 DEF IsRun
<1>7. IsBegun(r, first)
  BY <1>2 DEF IsBegun
<1>. QED
  BY <1>1, <1>6, <1>7

LEMMA RunThenBody ==
    ASSUME NEW s \in Seq(Unit), NEW first \in {"front", "length"}, NEW e \in Event,
           IsRun(s, first), IsBegun(s, first)
    PROVE  IsRun(s \o Body(e), first) /\ ~IsBegun(s \o Body(e), first)
<1>1. PICK L, r : L = Len(s) /\ r = s \o Body(e)
  OBVIOUS
<1>2. /\ L \in Nat /\ DOMAIN s = 1 .. L /\ DOMAIN r = 1 .. L + 2 /\ Len(r) = L + 2 /\ r # <<>>
      /\ r[L + 1] = Half(e, "front") /\ r[L + 2] = Half(e, "back")
      /\ \A i \in 1 .. L : r[i] = s[i]
  <2>1. Body(e) \in Seq(Unit) /\ Len(Body(e)) = 2
        /\ Body(e)[1] = Half(e, "front") /\ Body(e)[2] = Half(e, "back")
    BY DEF Body, Half, Unit
  <2>2. /\ r \in Seq(Unit) /\ Len(r) = L + 2
        /\ \A i \in 1 .. L + 2 : r[i] = IF i <= L THEN s[i] ELSE Body(e)[i - L]
    <3>1. /\ s \o Body(e) \in Seq(Unit)
          /\ Len(s \o Body(e)) = Len(s) + Len(Body(e))
          /\ \A i \in 1 .. Len(s) + Len(Body(e)) : (s \o Body(e))[i] =
                IF i <= Len(s) THEN s[i] ELSE Body(e)[i - Len(s)]
      BY <2>1, ConcatProperties
    <3>. QED
      BY <1>1, <2>1, <3>1
  <2>3. L \in Nat /\ DOMAIN s = 1 .. L /\ DOMAIN r = 1 .. L + 2 /\ r # <<>>
    BY <1>1, <2>2
  <2>. QED
    BY <2>1, <2>2, <2>3
<1>3. /\ Half(e, "front")[1] = "front" /\ Half(e, "front")[2] = e /\ Half(e, "back")[1] = "back"
  BY DEF Half
<1>4. IF L = 0 THEN first = "front" ELSE s[L][1] = "length"
  <2>1. s = <<>> <=> L = 0
    BY <1>1, <1>2
  <2>. QED
    BY <1>1, <2>1 DEF IsBegun
<1>5. ASSUME NEW i \in DOMAIN r
      PROVE  /\ i = 1 => r[i][1] = first
             /\ r[i][1] = "front" => i + 1 \in DOMAIN r /\ r[i + 1] = Half(r[i][2], "back")
             /\ i # 1 /\ r[i][1] = "front" => r[i - 1][1] = "length"
             /\ i # 1 /\ r[i][1] = "length" => r[i - 1][1] = "back"
             /\ i # 1 /\ r[i][1] = "back" => r[i - 1][1] = "front"
  <2>1. CASE i \in 1 .. L
    <3>1. /\ r[i] = s[i] /\ i \in DOMAIN s
          /\ i + 1 \in DOMAIN s => i + 1 \in DOMAIN r /\ r[i + 1] = s[i + 1]
          /\ i # 1 => r[i - 1] = s[i - 1]
      BY <1>2, <2>1
    <3>. QED
      BY <3>1 DEF IsRun
  <2>2. CASE i = L + 1
    <3>1. /\ i # 1 => r[i - 1] = s[L] /\ L # 0
          /\ i = 1 => L = 0
          /\ i + 1 \in DOMAIN r /\ r[i + 1] = Half(e, "back") /\ r[i] = Half(e, "front")
      BY <1>2, <2>2
    <3>. QED
      BY <1>3, <1>4, <3>1
  <2>3. CASE i = L + 2
    <3>1. i # 1 /\ r[i - 1] = Half(e, "front") /\ r[i] = Half(e, "back")
      BY <1>2, <2>3
    <3>. QED
      BY <1>3, <3>1
  <2>. QED
    BY <1>2, <2>1, <2>2, <2>3
<1>6. IsRun(r, first)
  BY <1>5 DEF IsRun
<1>7. ~IsBegun(r, first)
  BY <1>2, <1>3 DEF IsBegun
<1>. QED
  BY <1>1, <1>6, <1>7

LEMMA RunAfterLength ==
    ASSUME NEW s \in Seq(Unit), s # <<>>, IsRun(s, "length")
    PROVE  /\ s[1][1] = "length"
           /\ IsRun(Tail(s), "front")
           /\ IsBegun(Tail(s), "front") <=> IsBegun(s, "length")
<1>1. PICK L, r : L = Len(s) /\ r = Tail(s)
  OBVIOUS
<1>2. /\ L \in Nat \ {0} /\ DOMAIN s = 1 .. L /\ DOMAIN r = 1 .. L - 1 /\ Len(r) = L - 1
      /\ r = <<>> <=> L = 1
      /\ \A i \in 1 .. L - 1 : r[i] = s[i + 1]
  <2>1. /\ r \in Seq(Unit) /\ L \in Nat \ {0} /\ Len(r) = L - 1
        /\ \A i \in 1 .. L - 1 : r[i] = s[i + 1]
    BY <1>1, TailShift
  <2>. QED
    BY <1>1, <2>1
<1>3. 1 \in DOMAIN s /\ s[1][1] = "length"
  BY <1>2 DEF IsRun
<1>4. ASSUME NEW i \in DOMAIN r
      PROVE  /\ i = 1 => r[i][1] = "front"
             /\ r[i][1] = "front" => i + 1 \in DOMAIN r /\ r[i + 1] = Half(r[i][2], "back")
             /\ i # 1 /\ r[i][1] = "front" => r[i - 1][1] = "length"
             /\ i # 1 /\ r[i][1] = "length" => r[i - 1][1] = "back"
             /\ i # 1 /\ r[i][1] = "back" => r[i - 1][1] = "front"
  <2>1. /\ r[i] = s[i + 1] /\ i + 1 \in DOMAIN s /\ i + 1 # 1 /\ (i + 1) - 1 = i
        /\ (i + 1) + 1 \in DOMAIN s => i + 1 \in DOMAIN r /\ r[i + 1] = s[(i + 1) + 1]
        /\ i # 1 => r[i - 1] = s[i]
        /\ i = 1 => s[i] = s[1]
    BY <1>2
  <2>2. i = 1 => r[i][1] = "front"
    <3>1. s[i + 1] \in Unit /\ s[i + 1][1] \in {"length", "front", "back"}
      BY <2>1 DEF Unit
    <3>. QED
      BY <1>3, <2>1, <3>1 DEF IsRun
  <2>. QED
    BY <2>1, <2>2 DEF IsRun
<1>5. IsRun(r, "front")
  BY <1>4 DEF IsRun
<1>6. IsBegun(r, "front") <=> IsBegun(s, "length")
  <2>1. CASE L = 1
    BY <1>1, <1>2, <1>3, <2>1 DEF IsBegun
  <2>2. CASE L # 1
    <3>1. r # <<>> /\ r[Len(r)] = s[Len(s)]
      BY <1>1, <1>2, <2>2
    <3>. QED
      BY <3>1 DEF IsBegun
  <2>. QED
    BY <2>1, <2>2
<1>. QED
  BY <1>1, <1>3, <1>5, <1>6

LEMMA RunAfterPayload ==
    ASSUME NEW s \in Seq(Unit), s # <<>>, IsRun(s, "front")
    PROVE  /\ Len(s) >= 2
           /\ s[1][1] = "front" /\ s[2] = Half(s[1][2], "back")
           /\ IsRun(SubSeq(s, 3, Len(s)), "length")
           /\ IsBegun(SubSeq(s, 3, Len(s)), "length") <=> IsBegun(s, "front")
<1>1. PICK L, r : L = Len(s) /\ r = SubSeq(s, 3, Len(s))
  OBVIOUS
<1>2. L \in Nat \ {0} /\ DOMAIN s = 1 .. L
  BY <1>1
<1>3. L >= 2 /\ s[1][1] = "front" /\ s[2] = Half(s[1][2], "back") /\ s[2][1] = "back"
  <2>1. 1 \in DOMAIN s /\ s[1][1] = "front"
    BY <1>2 DEF IsRun
  <2>2. 1 + 1 \in DOMAIN s /\ s[1 + 1] = Half(s[1][2], "back")
    BY <2>1 DEF IsRun
  <2>3. 1 + 1 = 2
    OBVIOUS
  <2>. QED
    BY <1>2, <2>1, <2>2, <2>3 DEF Half
<1>4. /\ DOMAIN r = 1 .. L - 2 /\ Len(r) = L - 2
      /\ r = <<>> <=> L = 2
      /\ \A i \in 1 .. L - 2 : r[i] = s[i + 2]
  <2>1. /\ r \in Seq(Unit) /\ Len(r) = L - 2
        /\ \A i \in 1 .. L - 2 : r[i] = s[i + 2]
    BY <1>1, <1>3, SubSeqShift
  <2>. QED
    BY <1>2, <1>3, <2>1
<1>5. ASSUME NEW i \in DOMAIN r
      PROVE  /\ i = 1 => r[i][1] = "length"
             /\ r[i][1] = "front" => i + 1 \in DOMAIN r /\ r[i + 1] = Half(r[i][2], "back")
             /\ i # 1 /\ r[i][1] = "front" => r[i - 1][1] = "length"
             /\ i # 1 /\ r[i][1] = "length" => r[i - 1][1] = "back"
             /\ i # 1 /\ r[i][1] = "back" => r[i - 1][1] = "front"
  <2>1. /\ r[i] = s[i + 2] /\ i + 2 \in DOMAIN s /\ i + 2 # 1 /\ (i + 2) - 1 = i + 1
        /\ (i + 2) + 1 \in DOMAIN s => i + 1 \in DOMAIN r /\ r[i + 1] = s[(i + 2) + 1]
        /\ i # 1 => r[i - 1] = s[i + 1]
        /\ i = 1 => s[i + 1] = s[2]
    BY <1>2, <1>3, <1>4
  <2>2. i = 1 => r[i][1] = "length"
    <3>1. s[i + 2] \in Unit /\ s[i + 2][1] \in {"length", "front", "back"}
      BY <2>1 DEF Unit
    <3>. QED
      BY <1>3, <2>1, <3>1 DEF IsRun
  <2>. QED
    BY <2>1, <2>2 DEF IsRun
<1>6. IsRun(r, "length")
  BY <1>5 DEF IsRun
<1>7. IsBegun(r, "length") <=> IsBegun(s, "front")
  <2>1. CASE L = 2
    BY <1>1, <1>2, <1>3, <1>4, <2>1 DEF IsBegun
  <2>2. CASE L # 2
    <3>1. r # <<>> /\ r[Len(r)] = s[Len(s)]
      BY <1>1, <1>2, <1>3, <1>4, <2>2
    <3>. QED
      BY <3>1 DEF IsBegun
  <2>. QED
    BY <2>1, <2>2
<1>. QED
  BY <1>1, <1>3, <1>6, <1>7

\* The fronts in the pipes are where they were, less n units at the head.
FrontsFrom(n) ==
    \A c \in Conn : \A i \in DOMAIN stream'[c] :
        /\ i \in Nat
        /\ stream'[c][i][1] = "front" =>
              i + n[c] \in DOMAIN stream[c] /\ stream'[c][i] = stream[c][i + n[c]]

LEMMA FrontsInOrder ==
    ASSUME Ordered, NEW n \in [Conn -> Nat], FrontsFrom(n)
    PROVE  /\ \A c \in Conn : \A i, j \in DOMAIN stream'[c] :
                i < j /\ stream'[c][i][1] = "front" /\ stream'[c][j][1] = "front" =>
                    Before(stream'[c][i][2], stream'[c][j][2])
           /\ \A k \in DOMAIN ingested : \A c \in Conn : \A i \in DOMAIN stream'[c] :
                stream'[c][i][1] = "front" => Before(ingested[k][1][2], stream'[c][i][2])
<1>1. ASSUME NEW c \in Conn, NEW i \in DOMAIN stream'[c], NEW j \in DOMAIN stream'[c], i < j,
             stream'[c][i][1] = "front", stream'[c][j][1] = "front"
      PROVE  Before(stream'[c][i][2], stream'[c][j][2])
  <2>1. PICK m \in Nat : m = n[c]
    OBVIOUS
  <2>2. /\ i + m \in DOMAIN stream[c] /\ j + m \in DOMAIN stream[c] /\ i \in Nat /\ j \in Nat
        /\ stream'[c][i] = stream[c][i + m] /\ stream'[c][j] = stream[c][j + m]
    BY <1>1, <2>1 DEF FrontsFrom
  <2>3. i + m < j + m
    BY <1>1, <2>1, <2>2
  <2>. QED
    BY <1>1, <2>2, <2>3 DEF Ordered
<1>2. ASSUME NEW k \in DOMAIN ingested, NEW c \in Conn, NEW i \in DOMAIN stream'[c],
             stream'[c][i][1] = "front"
      PROVE  Before(ingested[k][1][2], stream'[c][i][2])
  <2>1. i + n[c] \in DOMAIN stream[c] /\ stream'[c][i] = stream[c][i + n[c]]
    BY <1>2 DEF FrontsFrom
  <2>. QED
    BY <1>2, <2>1 DEF Ordered
<1>. QED
  BY <1>1, <1>2

\* The length of an event goes into the pipe: its frame is begun.
LEMMA LengthCalm ==
    ASSUME OnceInv, CalmInv, NEW t \in Threads, WriteLength(t), Writable
    PROVE  Framed' /\ Ordered' /\ Accounted'
<1>1. PICK c, u : c = pipe /\ u = Len4(Current(t))
  OBVIOUS
<1>2. /\ c \in Conn /\ at[t] = "length" /\ at' = [at EXCEPT ![t] = "body"]
      /\ stream' = [stream EXCEPT ![c] = Append(stream[c], u)]
      /\ UNCHANGED <<pipe, served, length, ingested, told, cut>>
  BY <1>1 DEF WriteLength, Writable, Go, OnceInv, TypeOK
<1>3. u \in Unit /\ u[1] = "length"
  BY <1>1, <1>2, FrameTypes DEF Len4, OnceInv, Tidy
<1>4. /\ stream[c] \in Seq(Unit) /\ stream'[c] = Append(stream[c], u)
      /\ \A d \in Conn \ {c} : stream'[d] = stream[d]
      /\ DOMAIN stream'[c] = 1 .. Len(stream[c]) + 1
      /\ stream'[c][Len(stream[c]) + 1] = u
      /\ \A i \in DOMAIN stream[c] : i \in DOMAIN stream'[c] /\ stream'[c][i] = stream[c][i]
      /\ Len(stream[c]) \in Nat /\ DOMAIN stream[c] = 1 .. Len(stream[c])
  BY <1>2, <1>3 DEF OnceInv, TypeOK
<1>5. at'[t] = "body" /\ \A v \in Threads : at[v] # "body"
  BY <1>2 DEF OnceInv, TypeOK, CalmInv, Alone
<1>6. Framed'
  <2>1. \A d \in Conn : Awaits(d)' = Awaits(d) /\ Awaits(d) \in {"front", "length"}
    BY <1>2 DEF Awaits
  <2>2. \A d \in Conn : IsRun(stream[d], Awaits(d)) /\ ~IsBegun(stream[d], Awaits(d))
    BY <1>5 DEF CalmInv, Framed, Begun
  <2>3. IsRun(stream'[c], Awaits(c)) /\ IsBegun(stream'[c], Awaits(c))
    BY <1>2, <1>3, <1>4, <2>1, <2>2, RunThenLength
  <2>4. \A d \in Conn \ {c} : IsRun(stream'[d], Awaits(d)) /\ ~IsBegun(stream'[d], Awaits(d))
    BY <1>4, <2>2
  <2>5. pipe' = c
    BY <1>1, <1>2
  <2>. QED
    BY <1>5, <2>1, <2>3, <2>4, <2>5 DEF Framed, Begun
<1>7. Ordered'
  <2>1. PICK n \in [Conn -> Nat] : n = [d \in Conn |-> 0]
    OBVIOUS
  <2>2. FrontsFrom(n)
    <3>1. ASSUME NEW d \in Conn, NEW i \in DOMAIN stream'[d]
          PROVE  /\ i \in Nat
                 /\ stream'[d][i][1] = "front" => i \in DOMAIN stream[d] /\ stream'[d][i] = stream[d][i]
      <4>1. CASE d = c
        BY <1>3, <1>4, <4>1
      <4>2. CASE d # c
        BY <1>4, <4>2 DEF OnceInv, TypeOK
      <4>. QED
        BY <4>1, <4>2
    <3>. QED
      BY <2>1, <3>1 DEF FrontsFrom
  <2>. QED
    BY <1>2, <2>2, FrontsInOrder DEF CalmInv, Ordered, Whole
<1>8. Accounted'
  <2>1. InStreams \subseteq InStreams'
    <3>1. \A d \in Conn : \A i \in DOMAIN stream[d] : i \in DOMAIN stream'[d] /\ stream'[d][i] = stream[d][i]
      BY <1>4
    <3>. QED
      BY <3>1 DEF InStreams
  <2>2. Received' = Received
    BY <1>2 DEF Received
  <2>. QED
    BY <1>2, <2>1, <2>2 DEF CalmInv, Accounted
<1>. QED
  BY <1>6, <1>7, <1>8

\* The JSON of an event goes into the pipe: its frame is whole.
LEMMA BodyCalm ==
    ASSUME OnceInv, CalmInv, NEW t \in Threads, WriteBody(t), Writable
    PROVE  Framed' /\ Ordered' /\ Accounted'
<1>1. PICK c, e, L : c = pipe /\ e = Current(t) /\ L = Len(stream[c])
  OBVIOUS
<1>2. /\ c \in Conn /\ c \in served /\ at[t] = "body" /\ at' = [at EXCEPT ![t] = "idle"]
      /\ stream' = [stream EXCEPT ![c] = stream[c] \o Body(e)]
      /\ told' = told \cup {e}
      /\ UNCHANGED <<pipe, served, length, ingested, cut, count>>
  BY <1>1 DEF WriteBody, Writable, Go, OnceInv, TypeOK
<1>3. e \in Event /\ e = <<t, count[t]>> /\ Body(e) \in Seq(Unit)
  BY <1>1, <1>2, FrameTypes DEF Current, OnceInv, Tidy
<1>4. /\ stream[c] \in Seq(Unit) /\ stream'[c] = stream[c] \o Body(e)
      /\ \A d \in Conn \ {c} : stream'[d] = stream[d]
      /\ L \in Nat /\ DOMAIN stream[c] = 1 .. L
  BY <1>1, <1>2 DEF OnceInv, TypeOK
<1>5. /\ DOMAIN stream'[c] = 1 .. L + 2
      /\ stream'[c][L + 1] = Half(e, "front") /\ stream'[c][L + 2] = Half(e, "back")
      /\ \A i \in 1 .. L : stream'[c][i] = stream[c][i]
  <2>1. Len(Body(e)) = 2 /\ Body(e)[1] = Half(e, "front") /\ Body(e)[2] = Half(e, "back")
    BY DEF Body
  <2>2. /\ stream'[c] \in Seq(Unit)
        /\ Len(stream'[c]) = L + 2
        /\ \A i \in 1 .. L + 2 : stream'[c][i] = IF i <= L THEN stream[c][i] ELSE Body(e)[i - L]
    <3>1. /\ stream[c] \o Body(e) \in Seq(Unit)
          /\ Len(stream[c] \o Body(e)) = Len(stream[c]) + Len(Body(e))
          /\ \A i \in 1 .. Len(stream[c]) + Len(Body(e)) : (stream[c] \o Body(e))[i] =
                IF i <= Len(stream[c]) THEN stream[c][i] ELSE Body(e)[i - Len(stream[c])]
      BY <1>3, <1>4, ConcatProperties
    <3>. QED
      BY <1>1, <1>4, <2>1, <3>1
  <2>3. DOMAIN stream'[c] = 1 .. L + 2
    BY <1>4, <2>2
  <2>. QED
    BY <1>4, <2>1, <2>2, <2>3
<1>6. Half(e, "front")[1] = "front" /\ Half(e, "front")[2] = e /\ Half(e, "back")[1] = "back"
  BY DEF Half
<1>7. \A v \in Threads : at'[v] # "body"
  BY <1>2 DEF OnceInv, TypeOK, CalmInv, Alone
<1>8. Framed'
  <2>1. \A d \in Conn : Awaits(d)' = Awaits(d) /\ Awaits(d) \in {"front", "length"}
    BY <1>2 DEF Awaits
  <2>2. IsRun(stream[c], Awaits(c)) /\ IsBegun(stream[c], Awaits(c))
    BY <1>1, <1>2 DEF CalmInv, Framed, Begun
  <2>3. IsRun(stream'[c], Awaits(c)) /\ ~IsBegun(stream'[c], Awaits(c))
    <3>1. PICK s, a : s = stream[c] /\ a = Awaits(c)
      OBVIOUS
    <3>2. s \in Seq(Unit) /\ a \in {"front", "length"} /\ IsRun(s, a) /\ IsBegun(s, a)
      BY <1>2, <1>4, <2>1, <2>2, <3>1
    <3>3. IsRun(s \o Body(e), a) /\ ~IsBegun(s \o Body(e), a)
      BY <1>3, <3>2, RunThenBody
    <3>. QED
      BY <1>4, <3>1, <3>3
  <2>4. ASSUME NEW d \in Conn \ {c} PROVE IsRun(stream'[d], Awaits(d)) /\ ~IsBegun(stream'[d], Awaits(d))
    <3>1. stream[d] = <<>> /\ d \notin length
      BY <1>1 DEF CalmInv, Alone, OnceInv, Tidy
    <3>2. IsRun(stream[d], Awaits(d))
      BY DEF CalmInv, Framed
    <3>. QED
      BY <1>4, <3>1, <3>2 DEF IsBegun, Awaits
  <2>. QED
    BY <1>7, <2>1, <2>3, <2>4 DEF Framed, Begun
<1>9. ASSUME NEW d \in Conn, NEW i \in DOMAIN stream'[d], stream'[d][i][1] = "front"
      PROVE  \/ i \in DOMAIN stream[d] /\ stream'[d][i] = stream[d][i]
             \/ d = c /\ i = L + 1 /\ stream'[d][i] = Half(e, "front")
  <2>1. CASE d = c
    <3>1. i \in 1 .. L \/ i = L + 1 \/ i = L + 2
      BY <1>4, <1>5, <2>1
    <3>. QED
      BY <1>4, <1>5, <1>6, <1>9, <2>1, <3>1
  <2>2. CASE d # c
    BY <1>4, <2>2
  <2>. QED
    BY <2>1, <2>2
<1>10. \A f \in Event : Past(f) => Before(f, e)
  BY <1>2, <1>3 DEF Past, Before, Event, OnceInv, TypeOK
<1>11. Ordered'
  <2>1. ASSUME NEW d \in Conn, NEW i \in DOMAIN stream'[d], NEW j \in DOMAIN stream'[d], i < j,
               stream'[d][i][1] = "front", stream'[d][j][1] = "front"
        PROVE  Before(stream'[d][i][2], stream'[d][j][2])
    <3>1. CASE i \in DOMAIN stream[d] /\ stream'[d][i] = stream[d][i]
      <4>1. CASE j \in DOMAIN stream[d] /\ stream'[d][j] = stream[d][j]
        BY <2>1, <3>1, <4>1 DEF CalmInv, Ordered
      <4>2. CASE j = L + 1 /\ stream'[d][j] = Half(e, "front")
        <5>1. stream[d][i][2] \in Event /\ Past(stream[d][i][2])
          BY <2>1, <3>1 DEF OnceInv, Sent, TypeOK, Unit
        <5>. QED
          BY <1>6, <1>10, <3>1, <4>2, <5>1
      <4>. QED
        BY <1>9, <2>1, <4>1, <4>2
    <3>2. CASE d = c /\ i = L + 1
      BY <1>4, <1>5, <1>9, <2>1, <3>2
    <3>. QED
      BY <1>9, <2>1, <3>1, <3>2
  <2>2. ASSUME NEW k \in DOMAIN ingested, NEW d \in Conn, NEW i \in DOMAIN stream'[d],
               stream'[d][i][1] = "front"
        PROVE  Before(ingested[k][1][2], stream'[d][i][2])
    <3>1. CASE i \in DOMAIN stream[d] /\ stream'[d][i] = stream[d][i]
      BY <2>2, <3>1 DEF CalmInv, Ordered
    <3>2. CASE stream'[d][i] = Half(e, "front")
      <4>1. PICK f \in Event : ingested[k] = Body(f)
        BY DEF CalmInv, Ordered, Whole
      <4>2. ingested[k][1][1] = "front" /\ ingested[k][1][2] = f
        BY <4>1 DEF Body, Half
      <4>3. Past(f)
        BY <4>2 DEF OnceInv, HandedOver
      <4>. QED
        BY <1>6, <1>10, <3>2, <4>2, <4>3
    <3>. QED
      BY <1>9, <2>2, <3>1, <3>2
  <2>3. ingested' = ingested /\ \A k \in DOMAIN ingested :
           Whole(ingested[k]) /\ \A l \in DOMAIN ingested : l < k => Before(ingested[l][1][2], ingested[k][1][2])
    BY <1>2 DEF CalmInv, Ordered
  <2>. QED
    BY <2>1, <2>2, <2>3 DEF Ordered, Whole
<1>12. Accounted'
  <2>1. InStreams \cup {e} \subseteq InStreams'
    <3>1. \A d \in Conn : \A i \in DOMAIN stream[d] : i \in DOMAIN stream'[d] /\ stream'[d][i] = stream[d][i]
      BY <1>4, <1>5
    <3>2. InStreams \subseteq InStreams'
      BY <3>1 DEF InStreams
    <3>3. L + 1 \in DOMAIN stream'[c]
      BY <1>4, <1>5
    <3>4. \E d \in Conn : \E i \in DOMAIN stream'[d] : stream'[d][i] = Half(e, "front")
      BY <1>2, <1>5, <3>3
    <3>5. e \in InStreams'
      BY <1>3, <3>4 DEF InStreams
    <3>. QED
      BY <3>2, <3>5
  <2>2. Received' = Received
    BY <1>2 DEF Received
  <2>. QED
    BY <1>2, <2>1, <2>2 DEF CalmInv, Accounted
<1>. QED
  BY <1>8, <1>11, <1>12

\* A handler reads a length: the pipe begins with the halves of an event.
LEMMA ReadLengthCalm ==
    ASSUME OnceInv, CalmInv, NEW c \in Conn, ReadLength(c)
    PROVE  Framed' /\ Ordered' /\ Accounted'
<1>1. PICK s, r : s = stream[c] /\ r = Tail(stream[c])
  OBVIOUS
<1>2. /\ s \in Seq(Unit) /\ s # <<>> /\ c \in served /\ c \notin length /\ c = pipe
      /\ stream \in [Conn -> Seq(Unit)]
      /\ UNCHANGED <<ingested, cut, clientVars>>
  BY <1>1 DEF ReadLength, OnceInv, TypeOK, CalmInv, Alone
<1>3. IsRun(s, "length")
  BY <1>1, <1>2 DEF CalmInv, Framed, Awaits
<1>4. s[1][1] = "length" /\ IsRun(r, "front") /\ (IsBegun(r, "front") <=> IsBegun(s, "length"))
  BY <1>1, <1>2, <1>3, RunAfterLength
<1>5. length' = length \cup {c} /\ stream' = [stream EXCEPT ![c] = r] /\ served' = served
  BY <1>1, <1>2, <1>4 DEF ReadLength
<1>6. /\ Len(s) \in Nat /\ DOMAIN s = 1 .. Len(s) /\ DOMAIN r = 1 .. Len(s) - 1
      /\ \A i \in 1 .. Len(s) - 1 : r[i] = s[i + 1]
  <2>1. /\ r \in Seq(Unit) /\ Len(s) \in Nat \ {0} /\ Len(r) = Len(s) - 1
        /\ \A i \in 1 .. Len(s) - 1 : r[i] = s[i + 1]
    BY <1>1, <1>2, TailShift
  <2>. QED
    BY <1>2, <2>1
<1>7. stream'[c] = r /\ \A d \in Conn \ {c} : stream'[d] = stream[d]
  BY <1>2, <1>5
<1>8. Framed'
  <2>1. Awaits(c) = "length" /\ Awaits(c)' = "front" /\ \A d \in Conn \ {c} : Awaits(d)' = Awaits(d)
    BY <1>2, <1>5 DEF Awaits
  <2>2. UNCHANGED <<at, pipe, served>>
    BY <1>2, <1>5 DEF clientVars
  <2>3. Begun(c)' <=> Begun(c)
    BY <1>1, <1>4, <1>7, <2>1 DEF Begun
  <2>4. \A d \in Conn \ {c} : Begun(d)' <=> Begun(d)
    BY <1>7, <2>1 DEF Begun
  <2>5. \A d \in Conn : IsRun(stream[d], Awaits(d))
    BY DEF CalmInv, Framed
  <2>6. \A d \in Conn : IsRun(stream'[d], Awaits(d)')
    BY <1>4, <1>7, <2>1, <2>5
  <2>. QED
    BY <2>2, <2>3, <2>4, <2>6 DEF CalmInv, Framed
<1>9. Ordered'
  <2>1. PICK n \in [Conn -> Nat] : n = [d \in Conn |-> IF d = c THEN 1 ELSE 0]
    OBVIOUS
  <2>2. FrontsFrom(n)
    <3>1. ASSUME NEW d \in Conn, NEW i \in DOMAIN stream'[d]
          PROVE  i \in Nat /\ i + n[d] \in DOMAIN stream[d] /\ stream'[d][i] = stream[d][i + n[d]]
      <4>1. CASE d = c
        <5>1. i \in Nat /\ i + 1 \in DOMAIN s /\ r[i] = s[i + 1]
          BY <1>6, <1>7, <4>1
        <5>. QED
          BY <1>1, <1>7, <2>1, <4>1, <5>1
      <4>2. CASE d # c
        BY <1>2, <1>7, <2>1, <4>2
      <4>. QED
        BY <4>1, <4>2
    <3>. QED
      BY <3>1 DEF FrontsFrom
  <2>3. ingested' = ingested
    BY <1>2
  <2>. QED
    BY <2>2, <2>3, FrontsInOrder DEF CalmInv, Ordered, Whole
<1>10. Accounted'
  <2>1. ASSUME NEW e \in Event, NEW d \in Conn, NEW i \in DOMAIN stream[d], stream[d][i] = Half(e, "front")
        PROVE  e \in InStreams'
    <3>1. CASE d = c
      <4>1. i # 1
        BY <1>1, <1>4, <2>1, <3>1 DEF Half
      <4>2. i - 1 \in DOMAIN r /\ r[i - 1] = s[(i - 1) + 1] /\ (i - 1) + 1 = i
        BY <1>1, <1>6, <3>1, <4>1
      <4>. QED
        BY <1>1, <1>7, <2>1, <3>1, <4>2 DEF InStreams
    <3>2. CASE d # c
      BY <1>7, <2>1, <3>2 DEF InStreams
    <3>. QED
      BY <3>1, <3>2
  <2>2. InStreams \subseteq InStreams'
    BY <2>1 DEF InStreams
  <2>3. Received' = Received /\ told' = told /\ cut' = cut
    BY <1>2 DEF Received, clientVars
  <2>. QED
    BY <2>2, <2>3 DEF CalmInv, Accounted
<1>. QED
  BY <1>8, <1>9, <1>10

\* A handler hands over the event its pipe begins with.
LEMMA PayloadCalm ==
    ASSUME OnceInv, CalmInv, NEW c \in Conn, ReadPayload(c)
    PROVE  Framed' /\ Ordered' /\ Accounted'
<1>1. PICK s, r, e, n : /\ s = stream[c] /\ r = SubSeq(stream[c], 3, Len(stream[c]))
                        /\ e = stream[c][1][2] /\ n = Len(ingested)
  OBVIOUS
<1>2. /\ s \in Seq(Unit) /\ s # <<>> /\ c \in served /\ c \in length /\ c = pipe
      /\ stream \in [Conn -> Seq(Unit)] /\ n \in Nat /\ DOMAIN ingested = 1 .. n
      /\ UNCHANGED <<cut, clientVars>>
  BY <1>1 DEF ReadPayload, OnceInv, TypeOK, CalmInv, Alone
<1>3. IsRun(s, "front")
  BY <1>1, <1>2 DEF CalmInv, Framed, Awaits
<1>4. /\ Len(s) >= 2 /\ s[1][1] = "front" /\ s[2] = Half(s[1][2], "back")
      /\ IsRun(r, "length") /\ (IsBegun(r, "length") <=> IsBegun(s, "front"))
  BY <1>1, <1>2, <1>3, RunAfterPayload
<1>5. /\ length' = length \ {c} /\ stream' = [stream EXCEPT ![c] = r] /\ served' = served
      /\ ingested' = Append(ingested, <<s[1], s[2]>>)
  BY <1>1, <1>2, <1>4 DEF ReadPayload
<1>6. e \in Event /\ s[1] = Half(e, "front") /\ <<s[1], s[2]>> = Body(e)
  <2>1. s[1] \in Unit /\ s[1][1] = "front" /\ e = s[1][2]
    BY <1>1, <1>2, <1>4
  <2>2. e \in Event /\ s[1] = Half(e, "front")
    BY <2>1 DEF Unit, Half
  <2>. QED
    BY <1>1, <1>4, <2>1, <2>2 DEF Body
<1>7. /\ Len(s) \in Nat /\ DOMAIN s = 1 .. Len(s) /\ DOMAIN r = 1 .. Len(s) - 2
      /\ \A i \in 1 .. Len(s) - 2 : r[i] = s[i + 2]
  <2>1. /\ r \in Seq(Unit) /\ Len(s) \in Nat /\ Len(r) = Len(s) - 2
        /\ \A i \in 1 .. Len(s) - 2 : r[i] = s[i + 2]
    BY <1>1, <1>2, <1>4, SubSeqShift
  <2>. QED
    BY <1>2, <2>1
<1>8. /\ stream'[c] = r /\ \A d \in Conn \ {c} : stream'[d] = stream[d]
      /\ DOMAIN ingested' = 1 .. n + 1 /\ ingested'[n + 1] = Body(e)
      /\ \A k \in 1 .. n : ingested'[k] = ingested[k]
  <2>1. ingested \in Seq(Unit \X Unit) /\ ingested' = Append(ingested, Body(e))
    BY <1>5, <1>6 DEF OnceInv, TypeOK
  <2>2. Len(ingested') = n + 1 /\ ingested'[n + 1] = Body(e) /\ \A k \in 1 .. n : ingested'[k] = ingested[k]
    BY <1>1, <1>2, <2>1
  <2>3. DOMAIN ingested' = 1 .. Len(ingested')
    BY <2>1
  <2>. QED
    BY <1>2, <1>5, <2>2, <2>3
<1>9. Framed'
  <2>1. Awaits(c) = "front" /\ Awaits(c)' = "length" /\ \A d \in Conn \ {c} : Awaits(d)' = Awaits(d)
    BY <1>2, <1>5 DEF Awaits
  <2>2. UNCHANGED <<at, pipe, served>>
    BY <1>2, <1>5 DEF clientVars
  <2>3. Begun(c)' <=> Begun(c)
    BY <1>1, <1>4, <1>8, <2>1 DEF Begun
  <2>4. \A d \in Conn \ {c} : Begun(d)' <=> Begun(d)
    BY <1>8, <2>1 DEF Begun
  <2>5. \A d \in Conn : IsRun(stream[d], Awaits(d))
    BY DEF CalmInv, Framed
  <2>6. \A d \in Conn : IsRun(stream'[d], Awaits(d)')
    BY <1>4, <1>8, <2>1, <2>5
  <2>. QED
    BY <2>2, <2>3, <2>4, <2>6 DEF CalmInv, Framed
<1>10. 1 \in DOMAIN s /\ \A i \in DOMAIN r : i \in Nat /\ i + 2 \in DOMAIN s /\ r[i] = s[i + 2] /\ 1 < i + 2
  BY <1>4, <1>7
<1>11. Ordered'
  <2>1. PICK m \in [Conn -> Nat] : m = [d \in Conn |-> IF d = c THEN 2 ELSE 0]
    OBVIOUS
  <2>2. FrontsFrom(m)
    <3>1. ASSUME NEW d \in Conn, NEW i \in DOMAIN stream'[d]
          PROVE  i \in Nat /\ i + m[d] \in DOMAIN stream[d] /\ stream'[d][i] = stream[d][i + m[d]]
      <4>1. CASE d = c
        BY <1>1, <1>8, <1>10, <2>1, <4>1
      <4>2. CASE d # c
        BY <1>2, <1>8, <2>1, <4>2
      <4>. QED
        BY <4>1, <4>2
    <3>. QED
      BY <3>1 DEF FrontsFrom
  <2>3. Ordered
    BY DEF CalmInv
  <2>4. Body(e)[1][2] = e
    BY DEF Body, Half
  <2>5. \A k \in 1 .. n + 1 : k \in 1 .. n \/ k = n + 1
    BY <1>2
  <2>6. \A k \in 1 .. n : Before(ingested[k][1][2], e)
    BY <1>1, <1>2, <1>4, <1>10, <2>3 DEF Ordered
  <2>7. \A d \in Conn : \A i \in DOMAIN stream'[d] : stream'[d][i][1] = "front" => Before(e, stream'[d][i][2])
    <3>1. ASSUME NEW i \in DOMAIN r, r[i][1] = "front" PROVE Before(e, r[i][2])
      BY <1>1, <1>4, <1>10, <2>3, <3>1 DEF Ordered
    <3>2. ASSUME NEW d \in Conn \ {c} PROVE stream'[d] = <<>>
      BY <1>2, <1>8 DEF CalmInv, Alone, OnceInv, Tidy
    <3>. QED
      BY <1>8, <3>1, <3>2
  <2>8. ASSUME NEW k \in 1 .. n + 1
        PROVE  /\ Whole(ingested'[k])
               /\ \A l \in 1 .. n + 1 : l < k => Before(ingested'[l][1][2], ingested'[k][1][2])
               /\ \A d \in Conn : \A i \in DOMAIN stream'[d] :
                    stream'[d][i][1] = "front" => Before(ingested'[k][1][2], stream'[d][i][2])
    <3>1. CASE k \in 1 .. n
      <4>1. \A l \in 1 .. n + 1 : l < k => l \in 1 .. n
        BY <1>2, <3>1
      <4>. QED
        BY <1>2, <1>8, <2>2, <2>3, <3>1, <4>1, FrontsInOrder DEF Ordered
    <3>2. CASE k = n + 1
      <4>1. \A l \in 1 .. n + 1 : l < k => l \in 1 .. n
        BY <1>2, <3>2
      <4>2. Whole(ingested'[k])
        BY <1>6, <1>8, <3>2 DEF Whole
      <4>. QED
        BY <1>8, <2>4, <2>6, <2>7, <3>2, <4>1, <4>2
    <3>. QED
      BY <2>5, <3>1, <3>2
  <2>. QED
    BY <1>8, <2>2, <2>3, <2>8, FrontsInOrder DEF Ordered, Whole
<1>12. Accounted'
  <2>1. ASSUME NEW f \in Event, NEW d \in Conn, NEW i \in DOMAIN stream[d], stream[d][i] = Half(f, "front")
        PROVE  f \in InStreams' \/ f = e
    <3>1. CASE d = c
      <4>1. i = 1 => f = e
        BY <1>1, <2>1, <3>1 DEF Half
      <4>2. i # 2
        BY <1>1, <1>4, <2>1, <3>1 DEF Half
      <4>3. i \in 1 .. Len(s) /\ (i # 1 /\ i # 2 => i - 2 \in DOMAIN r /\ r[i - 2] = s[(i - 2) + 2] /\ (i - 2) + 2 = i)
        BY <1>1, <1>7, <3>1
      <4>. QED
        BY <1>1, <1>8, <2>1, <3>1, <4>1, <4>2, <4>3 DEF InStreams
    <3>2. CASE d # c
      BY <1>8, <2>1, <3>2 DEF InStreams
    <3>. QED
      BY <3>1, <3>2
  <2>2. InStreams \subseteq InStreams' \cup {e}
    BY <2>1 DEF InStreams
  <2>3. Received \cup {e} \subseteq Received'
    <3>1. n + 1 \in DOMAIN ingested' /\ \A k \in DOMAIN ingested : k \in DOMAIN ingested' /\ ingested'[k] = ingested[k]
      BY <1>2, <1>8
    <3>. QED
      BY <1>6, <1>8, <3>1 DEF Received
  <2>4. told' = told /\ cut' = cut
    BY <1>2 DEF clientVars
  <2>. QED
    BY <2>2, <2>3, <2>4 DEF CalmInv, Accounted
<1>. QED
  BY <1>9, <1>11, <1>12

\* A step of a thread that puts nothing into a pipe: nothing is connected
\* after it, or nothing changes but the thread.
LEMMA BrokenCalm ==
    ASSUME OnceInv, CalmInv, pipe \notin served, UNCHANGED <<stream, length, ingested, told, cut>>,
           ~ \E t \in Threads, c \in served' : at'[t] = "body"
    PROVE  Framed' /\ Ordered' /\ Accounted'
<1>1. \A c \in Conn : stream'[c] = <<>> /\ c \notin length'
  BY NoHandler DEF OnceInv, CalmInv
<1>2. InStreams = {}
  BY NoHandler DEF InStreams, OnceInv, CalmInv
<1>. QED
  BY <1>1, <1>2, EmptyCalm

LEMMA ClientCalm ==
    ASSUME OnceInv, CalmInv, NEW t \in Threads, ~raced',
           \/ Begin(t) \/ WriteLength(t) \/ WriteBody(t) \/ Reset(t) \/ Open(t) \/ OpenFails(t)
    PROVE  Framed' /\ Ordered' /\ Accounted'
<1>1. CASE Begin(t)
  <2>1. /\ UNCHANGED <<stream, length, ingested, told, cut, pipe, served>>
        /\ at[t] = "idle" /\ at' = [at EXCEPT ![t] = "length"]
    BY <1>1 DEF Begin, Go
  <2>2. \A u \in Threads : at'[u] = "body" <=> at[u] = "body"
    BY <2>1 DEF OnceInv, TypeOK
  <2>. QED
    BY <2>1, <2>2, SameCalm
<1>2. CASE (WriteLength(t) \/ WriteBody(t)) /\ ~Writable
  <2>1. /\ GiveUpOrReset(t) /\ UNCHANGED <<stream, length, ingested, cut, served>>
        /\ told' = told
    BY <1>2 DEF WriteLength, WriteBody
  <2>2. pipe \notin served
    BY <1>2, FailsAlone DEF OnceInv, CalmInv
  <2>3. served = {}
    BY <2>2, NoHandler DEF OnceInv, CalmInv
  <2>. QED
    BY <2>1, <2>2, <2>3, BrokenCalm
<1>3. CASE Reset(t)
  <2>1. UNCHANGED <<stream, length, ingested, told, cut, served>> /\ at[t] \in {"reset", "clear"}
    BY <1>3 DEF Reset
  <2>2. pipe \notin served /\ served = {}
    BY <2>1, NoHandler DEF OnceInv, CalmInv, Alone
  <2>. QED
    BY <2>1, <2>2, BrokenCalm
<1>4. CASE Open(t)
  <2>1. UNCHANGED <<stream, length, ingested, told, cut>> /\ at[t] = "open" /\ at' = [at EXCEPT ![t] = "length"]
    BY <1>4 DEF Open, Go
  <2>2. pipe \notin served
    BY <2>1 DEF CalmInv, Alone
  <2>3. \A u \in Threads : at'[u] # "body"
    BY <2>1 DEF CalmInv, Alone, OnceInv, TypeOK
  <2>. QED
    BY <2>1, <2>2, <2>3, BrokenCalm
<1>5. CASE OpenFails(t)
  <2>1. UNCHANGED <<stream, length, ingested, told, cut, served>> /\ at[t] = "open"
    BY <1>5 DEF OpenFails
  <2>2. pipe \notin served /\ served = {}
    BY <2>1, NoHandler DEF OnceInv, CalmInv, Alone
  <2>. QED
    BY <2>1, <2>2, BrokenCalm
<1>. QED
  BY <1>1, <1>2, <1>3, <1>4, <1>5, LengthCalm, BodyCalm

LEMMA ServiceCalm ==
    ASSUME OnceInv, CalmInv,
           \/ \E c \in Conn : ReadLength(c) \/ ReadPayload(c) \/ ReadFails(c)
           \/ ServiceDies \/ ServiceStarts \/ UNCHANGED vars
    PROVE  Framed' /\ Ordered' /\ Accounted'
<1>1. \A c \in Conn : ~ReadFails(c)
  BY DEF ReadFails, CalmInv, Alone, Conn
<1>2. CASE ServiceDies
  <2>1. InStreams \subseteq InPipes
    BY DEF InStreams, InPipes, OnceInv, Tidy
  <2>2. /\ \A c \in Conn : stream'[c] = <<>> /\ c \notin length'
        /\ served' = {} /\ ingested' = ingested /\ told' = told /\ cut' = cut \cup InPipes
    BY <1>2 DEF ServiceDies, clientVars
  <2>. QED
    BY <2>1, <2>2, EmptyCalm
<1>3. CASE ServiceStarts \/ UNCHANGED vars
  BY <1>3, SameCalm DEF ServiceStarts, vars, clientVars
<1>. QED
  BY <1>1, <1>2, <1>3, ReadLengthCalm, PayloadCalm

LEMMA NextInv == IInv /\ [Next]_vars => IInv'
<1>. SUFFICES ASSUME IInv, [Next]_vars PROVE IInv'
  OBVIOUS
<1>1. OnceInv /\ OnceInv'
  BY NextOnce DEF IInv
<1>2. ASSUME ~raced' PROVE CalmInv'
  <2>1. ~raced
    BY <1>2 DEF Next, Begin, WriteLength, WriteBody, Reset, Open, OpenFails, ReadLength, ReadPayload,
                ReadFails, ServiceDies, ServiceStarts, clientVars, vars
  <2>2. CalmInv
    BY <2>1 DEF IInv
  <2>3. Alone'
    BY <1>1, <1>2, <2>2, NextAlone DEF OnceInv, CalmInv
  <2>4. Framed' /\ Ordered' /\ Accounted'
    BY <1>1, <1>2, <2>2, ClientCalm, ServiceCalm DEF Next
  <2>. QED
    BY <2>3, <2>4 DEF CalmInv
<1>. QED
  BY <1>1, <1>2 DEF IInv

LEMMA Invariance == Spec => []IInv
<1>1. Init => IInv
  BY InitOnce, InitCalm DEF IInv
<1>. QED
  BY <1>1, NextInv, PTL DEF Spec

\* While no two threads are in write() at once, the service gets whole events,
\* none twice, and those of a thread in its order.
THEOREM WholeInOrderHolds == Spec => []WholeInOrder
<1>1. IInv => WholeInOrder
  <2>. SUFFICES ASSUME IInv, ~raced, NEW i \in DOMAIN ingested
                PROVE  /\ Whole(ingested[i])
                       /\ \A j \in 1 .. i - 1 :
                            /\ ingested[i][1][2] # ingested[j][1][2]
                            /\ ingested[i][1][2][1] = ingested[j][1][2][1] =>
                                 ingested[j][1][2][2] < ingested[i][1][2][2]
    BY DEF WholeInOrder
  <2>1. Ordered /\ OnceInv
    BY DEF IInv, CalmInv
  <2>2. \A k \in DOMAIN ingested : \E e \in Event : ingested[k] = Body(e)
    BY <2>1 DEF Ordered, Whole
  <2>3. ASSUME NEW j \in 1 .. i - 1 PROVE j \in DOMAIN ingested /\ j < i /\ i # j
    BY <2>1, <2>3 DEF OnceInv, TypeOK
  <2>4. ASSUME NEW j \in 1 .. i - 1
        PROVE  /\ ingested[i][1][2] # ingested[j][1][2]
               /\ Before(ingested[j][1][2], ingested[i][1][2])
    <3>1. PICK e \in Event : ingested[i] = Body(e)
      BY <2>2
    <3>2. PICK f \in Event : ingested[j] = Body(f)
      BY <2>2, <2>3
    <3>3. /\ ingested[i][1] = Half(e, "front") /\ ingested[j][1] = Half(f, "front")
          /\ ingested[i][1][1] = "front" /\ ingested[i][1][2] = e /\ ingested[j][1][2] = f
      BY <3>1, <3>2 DEF Body, Half
    <3>4. e # f
      BY <2>1, <2>3, <3>3 DEF OnceInv, HandedOver
    <3>. QED
      BY <2>1, <2>3, <3>3, <3>4 DEF Ordered
  <2>. QED
    BY <2>1, <2>4 DEF Ordered, Before
<1>. QED
  BY <1>1, Invariance, PTL

\* Then also what write() returned is the truth about its event.
THEOREM WriteTellsTheTruthHolds == Spec => []WriteTellsTheTruth
<1>1. IInv => WriteTellsTheTruth
  <2>. SUFFICES ASSUME IInv, ~raced PROVE WriteTellsTheTruth
    BY DEF WriteTellsTheTruth
  <2>1. ASSUME \A c \in Conn : stream[c] = <<>> PROVE told \ cut \subseteq Received
    <3>1. InStreams = {}
      BY <2>1 DEF InStreams
    <3>. QED
      BY <3>1 DEF IInv, CalmInv, Accounted
  <2>2. failed \cap Received = {}
    <3>1. ASSUME NEW e \in Received PROVE e \notin failed
      <4>1. PICK k \in DOMAIN ingested : ingested[k] = Body(e)
        BY DEF Received
      <4>2. ingested[k][1][1] = "front" /\ ingested[k][1][2] = e
        BY <4>1 DEF Body, Half
      <4>. QED
        BY <4>2 DEF IInv, OnceInv, HandedOver
    <3>. QED
      BY <3>1
  <2>. QED
    BY <2>1, <2>2 DEF WriteTellsTheTruth
<1>. QED
  BY <1>1, Invariance, PTL

=============================================================================
