----------------------------- MODULE LogReaders -----------------------------
(***************************************************************************)
(* Reading the encrypted log while the service writes it.  The decrypt     *)
(* tool and the administrator's import list the files of a day, sort them  *)
(* by name and read them one after another; the service appends, rotates,  *)
(* fails and starts again meanwhile, as AuditLog has it in more detail.    *)
(* The tool ends at the first line it cannot decrypt, the import leaves    *)
(* such a line out.  What a line says, and its seal, are data: a line is   *)
(* its number, the key it was encrypted with and whether its text is       *)
(* whole.                                                                  *)
(*                                                                         *)
(* One day is modelled, and fewer than ten parts.                          *)
(***************************************************************************)
EXTENDS KeyStore, Naturals, Sequences

CONSTANTS MaxLines,  \* bound: lines the service writes
          PartLines  \* lines at which a part is full

ASSUME ReaderAssumption == MaxLines \in 1 .. 9 /\ PartLines \in Nat \ {0}

Parts   == 0 .. MaxLines
Readers == Tools \cup Admins
Lines   == [n : 1 .. MaxLines, by : Keys, whole : BOOLEAN]

VARIABLES
    text,   \* what a part holds
    torn,   \* parts that end in the middle of a line
    part,   \* the part the service writes to
    stream, \* "closed", "good", "half" (inside a line) or "failed"
    lines,  \* lines begun
    left,   \* parts a reader has still to read
    shown,  \* lines it has shown
    \* history
    due,    \* lines it must not miss
    short   \* readers for which a read error passed for the end of a part

logVars    == <<text, torn, part, stream, lines>>
readerVars == <<left, shown, due, short>>
vars       == <<keyVars, logVars, readerVars>>

TypeOK ==
    /\ KeyTypeOK
    /\ text \in [Parts -> Seq(Lines)]
    /\ torn \subseteq Parts
    /\ part \in Parts
    /\ stream \in {"closed", "good", "half", "failed"}
    /\ lines \in 0 .. MaxLines
    /\ left \in [Readers -> SUBSET Parts]
    /\ shown \in [Readers -> SUBSET (1 .. MaxLines)]
    /\ due \in [Readers -> SUBSET (1 .. MaxLines)]
    /\ short \subseteq Tools

Init ==
    /\ KeyInit
    /\ text = [i \in Parts |-> <<>>]
    /\ torn = {}
    /\ part = 0
    /\ stream = "closed"
    /\ lines = 0
    /\ left = [r \in Readers |-> {}]
    /\ shown = [r \in Readers |-> {}]
    /\ due = [r \in Readers |-> {}]
    /\ short = {}

-----------------------------------------------------------------------------
(* The service *)

Full(i) == Len(text[i]) >= PartLines /\ i < MaxLines

\* rotate_if_needed, which leaves a full part alone when file_size fails.
Rotated(i, sized) == IF sized /\ Full(i) THEN i + 1 ELSE i

\* ensure_open_for_today reopens part 0 or rotates, and the line's own call
\* rotates once more.
Target(first, second) ==
    IF stream = "closed" THEN Rotated(0, second) ELSE Rotated(Rotated(part, first), second)

\* A line is begun.  Behind the fragment of another it only makes that longer.
\* A stream that failed takes it only when the part is another, for which the
\* stream was opened again.
BeginLine ==
    /\ stream # "half"
    /\ lines < MaxLines
    /\ Encrypt
    /\ lines' = lines + 1
    /\ \E first, second \in BOOLEAN :
         /\ part' = Target(first, second)
         /\ stream = "failed" => part' # part
    /\ LET line == [n |-> lines', by |-> key[Service], whole |-> FALSE]
           rest == text[part']
       IN  text' = [text EXCEPT ![part'] =
                      IF part' \in torn
                      THEN [rest EXCEPT ![Len(rest)] = line]
                      ELSE Append(rest, line)]
    /\ stream' = "half"
    /\ UNCHANGED <<torn, readerVars>>

\* The part of today, or the next, cannot be opened: the line is lost, and the
\* next one starts from part 0 again.
OpenFails ==
    /\ stream = "closed" \/ (stream # "half" /\ Full(part))
    /\ Encrypt
    /\ stream' = "closed"
    /\ UNCHANGED <<text, torn, part, lines, readerVars>>

\* The rest of it is there, and the end of the line.
EndLine ==
    /\ stream = "half"
    /\ stream' = "good"
    /\ text' = [text EXCEPT ![part][Len(text[part])].whole = part \notin torn]
    /\ torn' = torn \ {part}
    /\ UNCHANGED <<keyVars, part, lines, readerVars>>

\* The write fails half way: the stream is bad until it is opened again.
FailLine ==
    /\ stream = "half"
    /\ stream' = "failed"
    /\ torn' = torn \cup {part}
    /\ UNCHANGED <<keyVars, text, part, lines, readerVars>>

\* The service ends; a line it was writing remains a fragment.
ServiceQuits ==
    /\ Quit(Service)
    /\ stream' = "closed"
    /\ torn' = IF stream = "half" THEN torn \cup {part} ELSE torn
    /\ UNCHANGED <<text, part, lines, readerVars>>

-----------------------------------------------------------------------------
(* The readers *)

Range(s) == {s[i] : i \in DOMAIN s}

\* What AES-GCM promises: a line is opened by the key it was closed with.
Opens(k, line) == line.by = k

\* decrypt_log_line and TryDecryptLine succeed with the right key only, and
\* on the text of one whole line.
Readable(r, line) == line.whole /\ Opens(key[r], line)

Numbers(S) == {line.n : line \in S}

OnDisk == UNION {Range(text[i]) : i \in Parts}

Files == {i \in Parts : text[i] # <<>>}

\* The files that exist now are listed; what is in them is due.
List(r) ==
    /\ at[r] = "ready"
    /\ Goes(r, "reading")
    /\ left' = [left EXCEPT ![r] = Files]
    /\ UNCHANGED <<file, writer, key, drawn, used, refused, clashed, logVars, shown, short>>

\* collect_log_files; the tool ends when there is none.
ToolLists(r) ==
    /\ Files # {}
    /\ List(r)
    /\ due' = [due EXCEPT ![r] = Numbers(OnDisk)]

\* The import reads the key of this machine, as KeyStore has it, or a file
\* that was taken from it when it had some key.
ExternalDek(r) ==
    /\ at[r] = "off"
    /\ Goes(r, "ready")
    /\ \E k \in drawn : key' = [key EXCEPT ![r] = k]
    /\ UNCHANGED <<file, writer, drawn, used, refused, clashed, logVars, readerVars>>

\* The lines TryDecryptLine decrypts; what the service has sealed then parses.
Taken(r, S) == {l \in S : Readable(r, l)}

\* ImportDirectory
ImportLists(r) ==
    /\ List(r)
    /\ due' = [due EXCEPT ![r] = Numbers(Taken(r, OnDisk))]

\* Names are sorted as text: the first part, which has no number, comes last.
NextPart(r) ==
    CHOOSE i \in left[r] : \A j \in left[r] : i = j \/ j = 0 \/ (i # 0 /\ i < j)

\* What would go wrong: the tool skips what it cannot read.
ToolSkips(r) ==
    /\ at[r] = "reading"
    /\ left[r] # {}
    /\ left' = [left EXCEPT ![r] = @ \ {NextPart(r)}]
    /\ shown' = [shown EXCEPT ![r] =
                   @ \cup Numbers({l \in Range(text[NextPart(r)]) : Readable(r, l)})]
    /\ UNCHANGED <<keyVars, logVars, due, short>>

\* The tool reads a file.  A line it cannot decrypt ends it with code 1; a read
\* error ends the file, like the end of it.
ToolReads(r) ==
    LET s == text[NextPart(r)] IN
    /\ at[r] = "reading"
    /\ left[r] # {}
    /\ left' = [left EXCEPT ![r] = @ \ {NextPart(r)}]
    /\ \E end \in 0 .. Len(s) :
         /\ \A i \in 1 .. end : Readable(r, s[i])
         /\ shown' = [shown EXCEPT ![r] = @ \cup Numbers({s[i] : i \in 1 .. end})]
         /\ short' = IF end < Len(s) THEN short \cup {r} ELSE short
    /\ UNCHANGED <<keyVars, logVars, due>>

\* The import reads a file, and leaves out what it cannot decrypt.  A read
\* error is an exception, and ends it.
ImportReads(r) ==
    LET s == text[NextPart(r)] IN
    /\ at[r] = "reading"
    /\ left[r] # {}
    /\ left' = [left EXCEPT ![r] = @ \ {NextPart(r)}]
    /\ shown' = [shown EXCEPT ![r] = @ \cup Numbers(Taken(r, Range(s)))]
    /\ UNCHANGED <<keyVars, logVars, due, short>>

Complete(r) ==
    /\ at[r] = "reading"
    /\ left[r] = {}
    /\ Goes(r, "done")
    /\ UNCHANGED <<file, writer, key, drawn, used, refused, clashed, logVars, readerVars>>

\* It has come to the end of every file: code 0.  Code 2 is for a line whose seal is not its own
\* though it decrypts, which no failure here produces.
ToolEnds(r) == Complete(r)

\* The events replace those of an earlier import.
Imported(r) == Complete(r)

\* A reader ends: with code 1 where nothing else is left to it, or otherwise.
ReaderQuits(r) ==
    /\ Quit(r)
    /\ left' = [left EXCEPT ![r] = {}]
    /\ shown' = [shown EXCEPT ![r] = {}]
    /\ due' = [due EXCEPT ![r] = {}]
    /\ short' = short \ {r}
    /\ UNCHANGED logVars

Next ==
    \/ \E p \in Procs : KeyStep(p) /\ UNCHANGED <<logVars, readerVars>>
    \/ BeginLine
    \/ EndLine
    \/ OpenFails
    \/ FailLine
    \/ ServiceQuits
    \/ \E r \in Tools : ToolLists(r) \/ ToolReads(r) \/ ToolEnds(r)
    \/ \E r \in Admins : ExternalDek(r) \/ ImportLists(r) \/ ImportReads(r) \/ Imported(r)
    \/ \E r \in Readers : ReaderQuits(r)

Spec == Init /\ [][Next]_vars

-----------------------------------------------------------------------------
(* Properties *)

\* A decrypt run that ends with code 0 has shown every line that was in the
\* log when it listed the files, and none of them was damaged, unless a read
\* error cut one of its files short, which code 0 does not tell; an import has
\* every line that its key reads.  Rotation, fragments, other keys and a
\* service that restarts and goes back to the first part while they read do
\* not make them miss one.
ReadersMissNothing ==
    \A r \in Readers \ short : at[r] = "done" => due[r] \subseteq shown[r]

=============================================================================
