----------------------------- MODULE PipeIngest -----------------------------
(***************************************************************************)
(* Events on their way from a user agent to the service.  The agent's      *)
(* collectors (foreground window, session notifications, clipboard) run in *)
(* threads of their own and share one PipeClient, which has no lock.  An   *)
(* event is a frame: its length, and then its JSON, in two writes.  When a *)
(* write fails, the client connects again and sends the whole frame once   *)
(* more.  On the other side each connection has a handler thread that      *)
(* reads a length, then that many bytes, and hands them to the log.        *)
(*                                                                         *)
(* A pipe carries units of four bytes: the length of an event, or one half *)
(* of its JSON.  A half read as a length is four characters, which is more *)
(* than 1 MiB.  A length read as JSON seldom begins with a brace, and then *)
(* seal_json_line refuses it; what is handed over is recorded either way.  *)
(***************************************************************************)
EXTENDS Naturals, Sequences, FiniteSets

CONSTANTS Threads,   \* collector threads of one agent
          PerThread, \* bound: events of each thread
          MaxConns   \* bound: connections the agent makes

ASSUME PipeAssumption ==
    /\ PerThread \in Nat
    /\ MaxConns \in Nat \ {0}

VARIABLES
    up,       \* the pipe server is there
    pipe,     \* PipeClient::pipe_: a connection, 0 when invalid
    conns,    \* connections made so far
    held,     \* connections whose client handle is open
    served,   \* connections whose handler thread runs
    stream,   \* what each connection carries
    length,   \* connections whose handler has read a length
    at,       \* where each thread is in PipeClient::write
    retry,    \* threads on their second attempt
    count,    \* events each thread has begun to write
    \* history
    ingested, \* what the handlers passed to the log, in order
    told,     \* events write() returned true for
    failed,   \* events write() returned false for
    cut,      \* events in a pipe when their service died
    raced     \* one thread called write() during a call of another

clientVars == <<pipe, at, retry, count, told, failed, raced>>
vars == <<up, conns, held, served, stream, length, ingested, cut, clientVars>>

Conn  == 1 .. MaxConns
Event == Threads \X (1 .. PerThread)

\* What would go wrong: the length is sent as text.
Len4AsText(e) == <<"digits", e>>

Len4(e) == <<"length", e>>
Half(e, i) == <<i, e>>
Body(e) == <<Half(e, "front"), Half(e, "back")>>
Unit  == {"length", "front", "back"} \X Event

\* The event thread t is writing.
Current(t) == <<t, count[t]>>

TypeOK ==
    /\ up \in BOOLEAN
    /\ pipe \in Conn \cup {0}
    /\ conns \in Conn \cup {0}
    /\ held \subseteq Conn
    /\ served \subseteq Conn
    /\ stream \in [Conn -> Seq(Unit)]
    /\ length \subseteq Conn
    /\ at \in [Threads -> {"idle", "length", "body", "reset", "clear", "open"}]
    /\ retry \subseteq Threads
    /\ count \in [Threads -> 0 .. PerThread]
    /\ ingested \in Seq(Unit \X Unit)
    /\ told \subseteq Event
    /\ failed \subseteq Event
    /\ cut \subseteq Event
    /\ raced \in BOOLEAN

\* The agent has connected: PipeClient::connect of user_agent_mode.
Init ==
    /\ up = TRUE
    /\ pipe = 1
    /\ conns = 1
    /\ held = {1}
    /\ served = {1}
    /\ stream = [c \in Conn |-> <<>>]
    /\ length = {}
    /\ at = [t \in Threads |-> "idle"]
    /\ retry = {}
    /\ count = [t \in Threads |-> 0]
    /\ ingested = <<>>
    /\ told = {}
    /\ failed = {}
    /\ cut = {}
    /\ raced = FALSE

-----------------------------------------------------------------------------
(* PipeClient *)

Writable == pipe \in held /\ pipe \in served

Go(t, place) == at' = [at EXCEPT ![t] = place]

\* What would go wrong: each event gets a connection of its own.
BeginAnew(t) ==
    /\ at[t] = "idle"
    /\ count[t] < PerThread
    /\ Go(t, "reset")
    /\ count' = [count EXCEPT ![t] = @ + 1]
    /\ raced' = (raced \/ \E u \in Threads \ {t} : at[u] # "idle")
    /\ UNCHANGED <<up, pipe, conns, held, served, stream, length, retry,
                   ingested, told, failed, cut>>

Begin(t) ==
    /\ at[t] = "idle"
    /\ count[t] < PerThread
    /\ Go(t, "length")
    /\ count' = [count EXCEPT ![t] = @ + 1]
    /\ raced' = (raced \/ \E u \in Threads \ {t} : at[u] # "idle")
    /\ UNCHANGED <<up, pipe, conns, held, served, stream, length, retry,
                   ingested, told, failed, cut>>

\* An attempt that fails is followed by one more, with a new connection.
GiveUpOrReset(t) ==
    IF t \in retry
    THEN /\ Go(t, "idle")
         /\ retry' = retry \ {t}
         /\ failed' = failed \cup {Current(t)}
    ELSE /\ Go(t, "reset")
         /\ UNCHANGED <<retry, failed>>

\* The first WriteFile of try_write_payload ...
WriteLength(t) ==
    /\ at[t] = "length"
    /\ IF Writable
       THEN /\ stream' = [stream EXCEPT ![pipe] = Append(@, Len4(Current(t)))]
            /\ Go(t, "body")
            /\ UNCHANGED <<retry, failed>>
       ELSE UNCHANGED stream /\ GiveUpOrReset(t)
    /\ UNCHANGED <<up, pipe, conns, held, served, length, count, ingested,
                   told, cut, raced>>

\* What would go wrong: the second write succeeds and is taken for a failure.
WriteBodyDoubted(t) ==
    /\ at[t] = "body"
    /\ stream' = IF Writable
                 THEN [stream EXCEPT ![pipe] = @ \o Body(Current(t))]
                 ELSE stream
    /\ GiveUpOrReset(t)
    /\ UNCHANGED <<up, pipe, conns, held, served, length, count, ingested,
                   told, cut, raced>>

\* ... and the second, to whatever pipe_ is by then.
WriteBody(t) ==
    /\ at[t] = "body"
    /\ IF Writable
       THEN /\ stream' = [stream EXCEPT ![pipe] = @ \o Body(Current(t))]
            /\ Go(t, "idle")
            /\ told' = told \cup {Current(t)}
            /\ retry' = retry \ {t}
            /\ UNCHANGED failed
       ELSE UNCHANGED <<stream, told>> /\ GiveUpOrReset(t)
    /\ UNCHANGED <<up, pipe, conns, held, served, length, count, ingested,
                   cut, raced>>

Disconnect ==
    /\ pipe' = 0
    /\ held' = held \ {pipe}

\* write() disconnects, and so does connect() when it begins.
Reset(t) ==
    /\ at[t] \in {"reset", "clear"}
    /\ Disconnect
    /\ Go(t, IF at[t] = "reset" THEN "clear" ELSE "open")
    /\ UNCHANGED <<up, conns, served, stream, length, retry, count, ingested,
                   told, failed, cut, raced>>

\* What would go wrong: after connecting again nothing is sent.
OpenOnly(t) ==
    /\ at[t] = "open"
    /\ up
    /\ conns < MaxConns
    /\ conns' = conns + 1
    /\ pipe' = conns + 1
    /\ held' = held \cup {conns + 1}
    /\ served' = served \cup {conns + 1}
    /\ Go(t, "idle")
    /\ told' = told \cup {Current(t)}
    /\ UNCHANGED <<up, stream, length, count, ingested, failed, cut, raced, retry>>

\* CreateFileW succeeds: pipe_ is overwritten, whatever it holds.
Open(t) ==
    /\ at[t] = "open"
    /\ up
    /\ conns < MaxConns
    /\ conns' = conns + 1
    /\ pipe' = conns + 1
    /\ held' = held \cup {conns + 1}
    /\ served' = served \cup {conns + 1}
    /\ retry' = retry \cup {t}
    /\ Go(t, "length")
    /\ UNCHANGED <<up, stream, length, count, ingested, told, failed, cut, raced>>

\* Fifteen attempts to connect, 200 ms apart, have failed.
OpenFails(t) ==
    /\ at[t] = "open"
    /\ ~up
    /\ Go(t, "idle")
    /\ failed' = failed \cup {Current(t)}
    /\ UNCHANGED <<up, pipe, conns, held, served, stream, length, retry, count,
                   ingested, told, cut, raced>>

-----------------------------------------------------------------------------
(* PipeIngestServer::handle_client *)

Close(c) ==
    /\ served' = served \ {c}
    /\ length' = length \ {c}
    /\ stream' = [stream EXCEPT ![c] = <<>>]

\* A length is followed by its payload; anything else is too long a length,
\* and the handler closes the connection.
ReadLength(c) ==
    /\ c \in served \ length
    /\ stream[c] # <<>>
    /\ IF Head(stream[c])[1] = "length"
       THEN /\ length' = length \cup {c}
            /\ stream' = [stream EXCEPT ![c] = Tail(@)]
            /\ UNCHANGED served
       ELSE Close(c)
    /\ UNCHANGED <<up, conns, held, ingested, cut, clientVars>>

\* A read of a byte pipe returns what has come, up to what it asks for.  Less
\* than the payload ends the connection.
ReadPayload(c) ==
    /\ c \in served \cap length
    /\ stream[c] # <<>>
    /\ IF Len(stream[c]) >= 2
       THEN /\ length' = length \ {c}
            /\ stream' = [stream EXCEPT ![c] = SubSeq(@, 3, Len(@))]
            /\ ingested' = Append(ingested, <<stream[c][1], stream[c][2]>>)
            /\ UNCHANGED served
       ELSE Close(c) /\ UNCHANGED ingested
    /\ UNCHANGED <<up, conns, held, cut, clientVars>>

\* A read fails: the pipe is empty and the client has closed it.
ReadFails(c) ==
    /\ c \in served \ held
    /\ stream[c] = <<>>
    /\ Close(c)
    /\ UNCHANGED <<up, conns, held, ingested, cut, clientVars>>

-----------------------------------------------------------------------------
(* The service process *)

InPipes == {e \in Event : \E c \in served, h \in {"front", "back"} :
                             \E i \in DOMAIN stream[c] : stream[c][i] = Half(e, h)}

ServiceDies ==
    /\ up
    /\ up' = FALSE
    /\ served' = {}
    /\ length' = {}
    /\ stream' = [c \in Conn |-> <<>>]
    /\ cut' = cut \cup InPipes
    /\ UNCHANGED <<conns, held, ingested, clientVars>>

ServiceStarts ==
    /\ ~up
    /\ up' = TRUE
    /\ UNCHANGED <<conns, held, served, stream, length, ingested, cut, clientVars>>

Next ==
    \/ \E t \in Threads : \/ Begin(t)
                          \/ WriteLength(t)
                          \/ WriteBody(t)
                          \/ Reset(t)
                          \/ Open(t)
                          \/ OpenFails(t)
    \/ \E c \in Conn : ReadLength(c) \/ ReadPayload(c) \/ ReadFails(c)
    \/ ServiceDies
    \/ ServiceStarts

Spec == Init /\ [][Next]_vars

-----------------------------------------------------------------------------
(* Properties *)

\* The event a frame is, if it is one: both halves of one JSON, in order.
Whole(frame) == \E e \in Event : frame = Body(e)

Received == {e \in Event : \E i \in DOMAIN ingested : ingested[i] = Body(e)}

\* As long as no two threads are in write() at once, the service gets whole
\* events, none of them twice and those of a thread in its order, through
\* failed writes, new connections and restarts.
WholeInOrder ==
    ~raced =>
        \A i \in DOMAIN ingested :
            /\ Whole(ingested[i])
            /\ \A j \in 1 .. i - 1 :
                 LET e == ingested[i][1][2]
                     f == ingested[j][1][2]
                 IN  e # f /\ (e[1] = f[1] => f[2] < e[2])

\* Then also write() tells the truth: once the pipes are empty, an event it
\* returned true for was received or was in a pipe when the service died, and
\* one it returned false for never arrives.
WriteTellsTheTruth ==
    ~raced =>
        /\ (\A c \in Conn : stream[c] = <<>>) => told \ cut \subseteq Received
        /\ failed \cap Received = {}

\* Even with threads that overwrite each other's connection and tear each
\* other's frames apart, no event is ever received twice.
NeverTwice ==
    \A i, j \in DOMAIN ingested :
        i # j /\ Whole(ingested[i]) => ingested[i] # ingested[j]

=============================================================================
