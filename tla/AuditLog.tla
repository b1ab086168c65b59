------------------------------ MODULE AuditLog ------------------------------
(***************************************************************************)
(* The local audit log of the service: HashChain seals each event into a   *)
(* chain of HMACs, whose head is kept in chain.state, and                  *)
(* EncryptedLogWriter appends the sealed line to the day's current part.   *)
(* One call of write() runs under the writer's mutex, so a single program  *)
(* counter stands for whichever collector thread holds it.  It takes the   *)
(* steps                                                                   *)
(*                                                                         *)
(*    idle --Seal--> save --SaveOpen--> flush --SaveContent--> append      *)
(*                                                                         *)
(* and ends by storing the line or by returning false.  The service can be *)
(* killed between any two of them.                                         *)
(*                                                                         *)
(* A line's HMAC covers its predecessor's HMAC and its own body, and every *)
(* body carries a fresh id, so HMACs are modelled by the number of the     *)
(* seal that computed them; 0 is the word "genesis".                       *)
(***************************************************************************)
EXTENDS Naturals, Sequences, FiniteSets

CONSTANTS MaxPart,    \* lines a part holds before the next write rotates it:
                      \* 0 when max_log_mb_per_day is 0
          Days,       \* the dates the system clock can show
          MaxSeals,   \* bound: events handed to the writer
          MaxStarts   \* bound: starts of the service

ASSUME AuditLogAssumption ==
    /\ MaxPart \in Nat
    /\ Days # {}
    /\ MaxSeals \in Nat
    /\ MaxStarts \in Nat

VARIABLES
    up,           \* the writer is ready_
    pc,           \* where the thread that holds mutex_ is in write()
    seq,          \* HashChain::seq_
    prev_hmac,    \* HashChain::prev_hmac_
    line,         \* the sealed line write() carries to the file
    chain_state,  \* content of the file chain.state
    stream,       \* stream_, open_date_ and part_index_
    log,          \* the physical lines of all parts, in the order written
    torn,         \* parts that end in a fragment without a line feed
    today,        \* the date of the system clock
    \* history
    seals,        \* seals computed so far
    starts,       \* starts of the service so far
    opens,        \* how often a line of a day found its log not open
    blind,        \* how often its size could not be read, the part being full
    dropped,      \* sealed lines whose write returned false or was cut short
    faults        \* what has happened to chain.state

memVars   == <<up, pc, seq, prev_hmac, line>>
diskVars  == <<chain_state, stream, log, torn, today>>
histVars  == <<seals, starts, opens, blind, dropped, faults>>
vars      == <<memVars, diskVars, histVars>>

Genesis == 0
Fresh   == [seq |-> 0, prev_hmac |-> Genesis]
NoLine  == [seq |-> 0, prev_hmac |-> Genesis, hmac |-> 0]
\* open_date_ and part_index_ are assigned before a closed stream's are read.
Closed  == [state |-> "closed", date |-> CHOOSE d \in Days : TRUE, part |-> 0]

ChainState == [seq : Nat, prev_hmac : Nat]
Line       == [seq : Nat, prev_hmac : Nat, hmac : Nat]
Stream     == [state : {"closed", "good", "bad"}, date : Days, part : Nat]
Entry      == [line : Line, date : Days, part : Nat, readable : BOOLEAN]
Fault      == {"save",   \* chain.state could not be written
               "tear",   \* the service died after truncating chain.state
               "load"}   \* chain.state could not be opened at start

TypeOK ==
    /\ up \in BOOLEAN
    /\ pc \in {"idle", "save", "flush", "append"}
    /\ seq \in Nat
    /\ prev_hmac \in Nat
    /\ line \in Line
    /\ chain_state \in ChainState
    /\ stream \in Stream
    /\ log \in Seq(Entry)
    /\ torn \subseteq Days \X Nat
    /\ today \in Days
    /\ seals \in Nat
    /\ starts \in Nat
    /\ opens \in [Days -> Nat]
    /\ blind \in [Days -> Nat]
    /\ dropped \subseteq Line
    /\ faults \subseteq Fault

Init ==
    /\ up = FALSE
    /\ pc = "idle"
    /\ seq = 0
    /\ prev_hmac = Genesis
    /\ line = NoLine
    /\ chain_state = Fresh
    /\ stream = Closed
    /\ log = <<>>
    /\ torn = {}
    /\ today \in Days
    /\ seals = 0
    /\ starts = 0
    /\ opens = [d \in Days |-> 0]
    /\ blind = [d \in Days |-> 0]
    /\ dropped = {}
    /\ faults = {}

-----------------------------------------------------------------------------
(* HashChain *)

\* initialize() with load_state: a chain.state that is missing, empty or cannot
\* be opened reads as the fresh state.  Without its keys the writer is not
\* ready_, and the next write() tries again.
Start ==
    /\ ~up
    /\ starts < MaxStarts
    /\ \E loaded \in {chain_state, Fresh} :
         /\ seq' = loaded.seq
         /\ prev_hmac' = loaded.prev_hmac
         /\ faults' = IF loaded = chain_state THEN faults ELSE faults \cup {"load"}
    /\ up' = TRUE
    /\ starts' = starts + 1
    /\ UNCHANGED <<pc, line, diskVars, seals, opens, blind, dropped>>

\* What would go wrong: a seal that forgets to advance seq_.
SealSameNumber ==
    /\ up
    /\ pc = "idle"
    /\ seals < MaxSeals
    /\ seals' = seals + 1
    /\ seq' = seq
    /\ line' = [seq |-> seq, prev_hmac |-> prev_hmac, hmac |-> seals + 1]
    /\ prev_hmac' = seals + 1
    /\ pc' = "save"
    /\ UNCHANGED <<up, diskVars, starts, opens, blind, dropped, faults>>

\* seal_json_line up to save_state: memory is ahead of the disk from here on.
\* A body that is no JSON object, or a failing HMAC, changes nothing.
Seal ==
    /\ up
    /\ pc = "idle"
    /\ seals < MaxSeals
    /\ seals' = seals + 1
    /\ seq' = seq + 1
    /\ line' = [seq |-> seq + 1, prev_hmac |-> prev_hmac, hmac |-> seals + 1]
    /\ prev_hmac' = seals + 1
    /\ pc' = "save"
    /\ UNCHANGED <<up, diskVars, starts, opens, blind, dropped, faults>>

\* What would go wrong: chain.state is opened without std::ios::trunc.
SaveOpenKeeps ==
    /\ pc = "save"
    /\ pc' = "flush"
    /\ UNCHANGED <<up, seq, prev_hmac, line, diskVars, histVars>>

\* save_state opens chain.state with std::ios::trunc ...
SaveOpen ==
    /\ pc = "save"
    /\ chain_state' = Fresh
    /\ pc' = "flush"
    /\ UNCHANGED <<up, seq, prev_hmac, line, stream, log, torn, today, histVars>>

\* What would go wrong: the head before the line is saved, not the one after.
SaveStaleHead ==
    /\ pc = "flush"
    /\ chain_state' = [seq |-> seq, prev_hmac |-> line.prev_hmac]
    /\ pc' = "append"
    /\ UNCHANGED <<up, seq, prev_hmac, line, stream, log, torn, today, histVars>>

\* What would go wrong: the number of the next line is saved, which the seal
\* after a restart increments once more.
SaveNextNumber ==
    /\ pc = "flush"
    /\ chain_state' = [seq |-> seq + 1, prev_hmac |-> prev_hmac]
    /\ pc' = "append"
    /\ UNCHANGED <<up, seq, prev_hmac, line, stream, log, torn, today, histVars>>

\* ... and its content reaches the file when the stream is destroyed.
SaveContent ==
    /\ pc = "flush"
    /\ chain_state' = [seq |-> seq, prev_hmac |-> prev_hmac]
    /\ pc' = "append"
    /\ UNCHANGED <<up, seq, prev_hmac, line, stream, log, torn, today, histVars>>

\* Either step of save_state can fail; seal_json_line ignores the result.
SaveFails ==
    /\ pc \in {"save", "flush"}
    /\ pc' = "append"
    /\ faults' = faults \cup {"save"}
    /\ UNCHANGED <<up, seq, prev_hmac, line, diskVars, seals, starts, opens, blind, dropped>>

-----------------------------------------------------------------------------
(* EncryptedLogWriter *)

At(d, p)    == {i \in DOMAIN log : log[i].date = d /\ log[i].part = p}
Size(d, p)  == Cardinality(At(d, p))

NextPart(s) == [state |-> "good", date |-> s.date, part |-> s.part + 1]

\* What would go wrong: a part one line over its limit is not rotated yet.
RotateLate(s, sized) ==
    IF sized /\ s.state # "closed" /\ Size(s.date, s.part) > MaxPart
    THEN NextPart(s)
    ELSE s

\* Lines a part takes when every look at its size succeeds.
Limit == IF MaxPart = 0 THEN 1 ELSE MaxPart

Full(s) == s.state # "closed" /\ Size(s.date, s.part) >= MaxPart

\* rotate_if_needed, when the part it moves to can be opened: at most one part
\* further, however full that one is.  A part is kept when its size cannot be
\* read.
Rotate(s, sized) == IF sized /\ Full(s) THEN NextPart(s) ELSE s

Reopens == stream.state = "closed" \/ stream.date # today

\* What would go wrong: the part counter is decremented to restart it.
EnsureOpenBelowZero(sized) ==
    IF Reopens
    THEN [state |-> "good", date |-> today, part |-> 0 - 1]
    ELSE Rotate(stream, sized)

\* ensure_open_for_today: another day, or a closed stream, starts at part 0.
EnsureOpen(sized) ==
    IF Reopens
    THEN [state |-> "good", date |-> today, part |-> 0]
    ELSE Rotate(stream, sized)

\* write_encrypted_line looks at the size twice; either look can fail.
Looks == BOOLEAN \X BOOLEAN

\* The stream it writes to when every open succeeds.
Target(look) == Rotate(EnsureOpen(look[1]), look[2])
Place(s)     == <<s.date, s.part>>

\* What a write that stops half way can leave at the end of the part.
Fragment(to) == torn' \in IF to.state = "good" THEN {torn, torn \cup {Place(to)}} ELSE {torn}

\* The counts of a line that gets as far as the stream.
Count(look) ==
    /\ opens' = IF Reopens THEN [opens EXCEPT ![today] = @ + 1] ELSE opens
    /\ blind' = IF ~look[2] /\ Full(Target(look)) THEN [blind EXCEPT ![today] = @ + 1] ELSE blind

\* write() returns to its caller and releases mutex_.
Return ==
    /\ pc' = "idle"
    /\ line' = NoLine
    /\ UNCHANGED <<up, seq, prev_hmac, chain_state, today, seals, starts, faults>>

\* What would go wrong: a part is opened without std::ios::app.
StoreTruncates ==
    \E look \in Looks :
      LET to       == Target(look)
          entry    == [line |-> line, date |-> to.date, part |-> to.part, readable |-> TRUE]
          other(e) == <<e.date, e.part>> # Place(to)
      IN  /\ pc = "append"
          /\ to.state = "good"
          /\ stream' = to
          /\ log' = IF stream = to
                    THEN Append(log, entry)
                    ELSE Append(SelectSeq(log, other), entry)
          /\ torn' = torn \ {Place(to)}
          /\ Count(look)
          /\ UNCHANGED dropped
          /\ Return

\* The line goes to the file.  After a fragment it shares the fragment's
\* physical line, which no reader can decrypt.
Entered(to) == [line |-> line, date |-> to.date, part |-> to.part,
                readable |-> Place(to) \notin torn]

Store ==
    \E look \in Looks :
      LET to == Target(look)
      IN  /\ pc = "append"
          /\ to.state = "good"
          /\ stream' = to
          /\ log' = Append(log, Entered(to))
          /\ torn' = torn \ {Place(to)}
          /\ Count(look)
          /\ UNCHANGED dropped
          /\ Return

\* A line over kMaxPlainLogLineBytes, or one the cipher refuses, is dropped
\* after it was sealed and saved.
Reject ==
    /\ pc = "append"
    /\ dropped' = dropped \cup {line}
    /\ UNCHANGED <<stream, log, torn, opens, blind>>
    /\ Return

\* A file that has to be opened (new day, rotation, closed stream) cannot be.
OpenFails ==
    /\ pc = "append"
    /\ \E look \in Looks : stream # Target(look)
    /\ stream' = Closed
    /\ dropped' = dropped \cup {line}
    /\ UNCHANGED <<log, torn, opens, blind>>
    /\ Return

\* The write or the flush fails, after part of the line or none of it.  The
\* stream keeps its error state: writes fail until it is opened again.
WriteFails ==
    \E look \in Looks :
      LET to == Target(look)
      IN  /\ pc = "append"
          /\ stream' = [to EXCEPT !.state = "bad"]
          /\ Fragment(to)
          /\ dropped' = dropped \cup {line}
          /\ Count(look)
          /\ UNCHANGED log
          /\ Return

-----------------------------------------------------------------------------
(* Environment *)

\* The service is killed (or stops, when pc is idle).  Memory is lost, and a
\* line half way to its file leaves nothing or a fragment.
Crash ==
    /\ up
    /\ up' = FALSE
    /\ pc' = "idle"
    /\ seq' = 0
    /\ prev_hmac' = Genesis
    /\ line' = NoLine
    /\ stream' = Closed
    /\ \/ torn' = torn
       \/ pc = "append" /\ \E look \in Looks : Fragment(Target(look))
    /\ dropped' = IF pc = "append" THEN dropped \cup {line} ELSE dropped
    /\ faults' = IF pc = "flush" THEN faults \cup {"tear"} ELSE faults
    /\ UNCHANGED <<chain_state, log, today, seals, starts, opens, blind>>

\* Midnight, or a correction of the clock in either direction.
DayChanges ==
    /\ today' \in Days \ {today}
    /\ UNCHANGED <<memVars, chain_state, stream, log, torn, histVars>>

Next ==
    \/ Start
    \/ Seal
    \/ SaveOpen
    \/ SaveContent
    \/ SaveFails
    \/ Store
    \/ Reject
    \/ OpenFails
    \/ WriteFails
    \/ Crash
    \/ DayChanges

Spec == Init /\ [][Next]_vars

-----------------------------------------------------------------------------
(* Properties *)

Stored  == {log[i].line : i \in DOMAIN log}
Settled == Stored \cup dropped

\* An event that write() took and sealed, stored or dropped, never disappears
\* without a trace: the link of every later stored line reaches back no
\* further than to it, unless the chain visibly starts over at genesis.  It
\* holds because seal_json_line saves the chain's head before the line is
\* written, and only as long as save_state succeeds, which nobody checks.
LossLeavesTrace ==
    "save" \notin faults =>
        \A x \in Settled, y \in Stored :
            x.hmac < y.hmac => \/ y.prev_hmac >= x.hmac
                               \/ y.prev_hmac = Genesis

\* While chain.state is never lost, crashes and failed writes leave one chain:
\* links and sequence numbers of stored lines only move forward, and no number
\* is given out twice to events that were settled.
OneChain ==
    faults = {} =>
        \A x \in Settled, y \in Settled :
            x.hmac < y.hmac => x.seq < y.seq /\ x.hmac <= y.prev_hmac

\* While chain.state is never lost, each number missing from the stored lines
\* is that of an event the writer dropped: gaps in seq count the losses.
GapsAreDrops ==
    faults = {} =>
        \A y \in Settled : \A n \in 1 .. y.seq : \E x \in Settled : x.seq = n

\* rotate_if_needed moves one part at a time, a reopened day starts at part 0
\* again, and a part whose size cannot be read is kept, so a part can grow past
\* its limit: but by at most one line for each time the day's log was found
\* not open, and one for each time a full part's size could not be read.  A
\* limit of 0 lets one line into a part, as a limit of 1 does.
PartOverflowBounded ==
    \A i \in DOMAIN log :
        LET d == log[i].date IN Size(d, log[i].part) < Limit + opens[d] + blind[d]

\* The log implements the ledger: no step of the writer, no crash, no restart
\* and no rotation ever takes a settled event back, changes one, or settles an
\* event whose link skips an older one while the chain's head was kept.
Grade ==
    CASE faults = {} -> "chained"
      [] faults # {} /\ "save" \notin faults -> "restarted"
      [] "save" \in faults -> "forked"

Ledger == INSTANCE EventLedger
            WITH kept <- Stored, lost <- dropped, grade <- Grade

LedgerSpec == Ledger!Spec

=============================================================================
