------------------------------ MODULE KeyStore ------------------------------
(***************************************************************************)
(* The wrapped master key.  Every process that needs it reads the same     *)
(* file: the service when it first writes, each run of the decrypt tool,   *)
(* and the administrator's program.  KeyManager, which the first two use,  *)
(* treats a key it could not read, for whatever reason, like one that does *)
(* not exist, and saves a new one over it; the administrator's program     *)
(* only reads.                                                             *)
(*                                                                         *)
(* The file is opened for reading with sharing for readers only, and for   *)
(* writing with none, so that a reader and a writer keep each other out.   *)
(*                                                                         *)
(* Keys are drawn at random: no key is drawn twice.  Nobody deletes the    *)
(* file.                                                                   *)
(***************************************************************************)
EXTENDS FiniteSets

CONSTANTS Keys,    \* keys that may be drawn; finitely many, as a bound
          Service, \* the service
          Tools,   \* runs of the decrypt tool, one after another
          Admins   \* administrator's programs

ASSUME KeyAssumption ==
    /\ "absent" \notin Keys
    /\ "broken" \notin Keys
    /\ Service \notin Tools \cup Admins
    /\ Tools \cap Admins = {}
    /\ "nobody" \notin {Service} \cup Tools \cup Admins

Procs   == {Service} \cup Tools \cup Admins
Content == Keys \cup {"absent", "broken"}

VARIABLES
    file,    \* what master.key.dpapi holds: a key, or nothing that unwraps
    writer,  \* who has it open for writing
    at,      \* where a process is
    key,     \* the key it has drawn or read
    drawn,   \* keys that have been drawn
    used,    \* keys the service has encrypted with
    \* history
    refused, \* a key that was there could not be read
    clashed  \* two processes set out to create the key at once

keyVars == <<file, writer, at, key, drawn, used, refused, clashed>>

\* "reading" and "done" are for the readers of the log.
Places == {"off", "open", "read", "create", "write", "ready", "reading", "done"}

KeyTypeOK ==
    /\ file \in Content
    /\ writer \in Procs \cup {"nobody"}
    /\ at \in [Procs -> Places]
    /\ key \in [Procs -> Content]
    /\ drawn \subseteq Keys
    /\ used \subseteq Keys
    /\ refused \in BOOLEAN
    /\ clashed \in BOOLEAN

KeyInit ==
    /\ file = "absent"
    /\ writer = "nobody"
    /\ at = [p \in Procs |-> "off"]
    /\ key = [p \in Procs |-> "absent"]
    /\ drawn = {}
    /\ used = {}
    /\ refused = FALSE
    /\ clashed = FALSE

Goes(p, place) == at' = [at EXCEPT ![p] = place]

Creating(p) == at[p] \in {"create", "write"}

\* load_or_create_keys after the stored key was not read; TryLoadDek gives up.
NotLoaded(p) ==
    IF p \in Admins
    THEN Goes(p, "off") /\ UNCHANGED clashed
    ELSE /\ Goes(p, "create")
         /\ clashed' = (clashed \/ \E q \in Procs \ {p} : Creating(q))

\* A process begins, or the service tries again at its next write: does the
\* file exist?
Look(p) ==
    /\ at[p] = "off"
    /\ IF file = "absent"
       THEN NotLoaded(p)
       ELSE Goes(p, "open") /\ UNCHANGED clashed
    /\ UNCHANGED <<file, writer, key, drawn, used, refused>>

\* unwrap_from_file opens the file, which fails while it is being written.
Open(p) ==
    /\ at[p] = "open"
    /\ IF writer = "nobody"
       THEN Goes(p, "read") /\ UNCHANGED clashed
       ELSE NotLoaded(p)
    /\ UNCHANGED <<file, writer, key, drawn, used, refused>>

\* What would go wrong: what unwraps to anything is taken for a key.
ReadUnchecked(p) ==
    /\ at[p] = "read"
    /\ key' = [key EXCEPT ![p] = file]
    /\ Goes(p, "ready")
    /\ UNCHANGED <<file, writer, drawn, used, refused, clashed>>

\* It is read and unwrapped; an empty or cut off file is no key.
Read(p) ==
    /\ at[p] = "read"
    /\ IF file \in Keys
       THEN /\ key' = [key EXCEPT ![p] = file]
            /\ Goes(p, "ready")
            /\ UNCHANGED clashed
       ELSE NotLoaded(p) /\ UNCHANGED key
    /\ UNCHANGED <<file, writer, drawn, used, refused>>

\* Windows refuses to open, to read or to unwrap it.
Refuse(p) ==
    /\ at[p] \in {"open", "read"}
    /\ NotLoaded(p)
    /\ refused' = TRUE
    /\ UNCHANGED <<file, writer, key, drawn, used>>

\* What would go wrong: the new key is used even when it cannot be stored.
CreateAnyway(p) ==
    /\ at[p] = "create"
    /\ \E k \in Keys \ drawn :
         /\ drawn' = drawn \cup {k}
         /\ key' = [key EXCEPT ![p] = k]
         /\ Goes(p, "ready")
    /\ UNCHANGED <<file, writer, used, refused, clashed>>

\* wrap_and_save draws a key and truncates the file, unless somebody has it
\* open: then, as when the disk refuses, it fails and no key is in use.
Create(p) ==
    /\ at[p] = "create"
    /\ \/ \E k \in Keys \ drawn :
            /\ writer = "nobody"
            /\ \A q \in Procs : at[q] # "read"
            /\ drawn' = drawn \cup {k}
            /\ key' = [key EXCEPT ![p] = k]
            /\ file' = "broken"
            /\ writer' = p
            /\ Goes(p, "write")
       \/ Goes(p, "off") /\ UNCHANGED <<drawn, key, file, writer>>
    /\ UNCHANGED <<used, refused, clashed>>

\* The key is written, or only a part of it.
Save(p) ==
    /\ at[p] = "write"
    /\ writer' = "nobody"
    /\ \/ file' = key[p] /\ Goes(p, "ready")
       \/ UNCHANGED file /\ Goes(p, "off")
    /\ UNCHANGED <<key, drawn, used, refused, clashed>>

\* The process ends, is killed or loses its machine.
Quit(p) ==
    /\ at[p] # "off"
    /\ Goes(p, "off")
    /\ writer' = IF writer = p THEN "nobody" ELSE writer
    /\ key' = [key EXCEPT ![p] = "absent"]
    /\ UNCHANGED <<file, drawn, used, refused, clashed>>

\* The service encrypts a line.
Encrypt ==
    /\ at[Service] = "ready"
    /\ used' = used \cup {key[Service]}
    /\ UNCHANGED <<file, writer, at, key, drawn, refused, clashed>>

KeyStep(p) ==
    \/ Look(p)
    \/ Open(p)
    \/ Read(p)
    \/ Refuse(p)
    \/ Create(p)
    \/ Save(p)

KeyNext ==
    \/ \E p \in Procs : KeyStep(p) \/ Quit(p)
    \/ Encrypt

KeySpec == KeyInit /\ [][KeyNext]_keyVars

-----------------------------------------------------------------------------
(* Properties *)

\* Whatever crashes, and however often the service and the tools start: what
\* the service has encrypted can be read with the key in the file, unless a
\* key that was there was refused once, or two processes found none at the
\* same time.  Only then is a key in use saved over.
KeysReadTheLog == ~refused /\ ~clashed => used \subseteq {file}

=============================================================================
