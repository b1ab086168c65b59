------------------------------- MODULE Upload -------------------------------
(***************************************************************************)
(* Uploading the log.  A thread of the service goes through the log's      *)
(* files now and then, sends each one it has not marked as a whole, and    *)
(* marks it by name.  The marks are kept in upload.state, which is         *)
(* truncated and rewritten at each of them, without a look at whether that *)
(* worked, and loaded when the service starts, without a look at whether   *)
(* that worked either.  Nor is the copy in the outbox looked at again once *)
(* it is handed to the stream.  The writer appends to the files meanwhile. *)
(*                                                                         *)
(* What a file holds is the number of its lines.  A copy at a destination  *)
(* is the number of lines it has, 0 if there is none or a part of one.     *)
(* The service is shipped with the upload disabled; the settings are those *)
(* found at its start; which of the two destinations they name does not    *)
(* change, and that the marks say nothing about it is not modelled.        *)
(***************************************************************************)
EXTENDS Naturals

CONSTANTS Files,   \* files of the log
          MaxLines \* bound: lines of each file

ASSUME UploadAssumption == MaxLines \in [Files -> Nat] /\ "none" \notin Files

Destinations == {"mock", "http"}  \* the outbox directory, the ingest server

VARIABLES
    size,   \* lines of a file
    final,  \* files that nothing is appended to any more: an earlier day's
    dest,   \* where the settings send them
    got,    \* lines of the copy of a file there
    list,   \* names in upload.state
    \* UploadClient
    mode,   \* "off" while the service is, then "disabled" or "on"
    step,   \* where the thread is
    todo,   \* files of its round it has not looked at
    marked, \* uploaded_
    cur,    \* the file it is sending, or "none"
    body,   \* the lines it has read of that
    \* history
    taken,  \* lines a file had when it was read and then marked
    unread, \* files that the list names and a start did not load, until they are
            \* marked again
    cut     \* files that were written without an error and of which the outbox has
            \* kept a part, until it is forgotten that they were sent

logFiles   == <<size, final, dest>>
client     == <<mode, step, todo, marked, cur, body>>
uploadVars == <<logFiles, got, list, client, taken, unread, cut>>

UploadTypeOK ==
    /\ size \in [Files -> Nat] /\ \A f \in Files : size[f] <= MaxLines[f]
    /\ final \subseteq Files
    /\ dest \in Destinations
    /\ got \in [Files -> Nat]
    /\ list \subseteq Files
    /\ mode \in {"off", "disabled", "on"}
    /\ step \in {"idle", "scan", "send", "copy", "mark", "save"}
    /\ todo \subseteq Files
    /\ marked \subseteq Files
    /\ cur \in Files \cup {"none"}
    /\ body \in Nat
    /\ taken \in [Files -> Nat]
    /\ unread \subseteq Files
    /\ cut \subseteq Files

\* No thread runs.
AtRest ==
    /\ step = "idle"
    /\ todo = {}
    /\ cur = "none"
    /\ body = 0

UploadInit ==
    /\ size = [f \in Files |-> 0]
    /\ final = {}
    /\ dest \in Destinations
    /\ got = [f \in Files |-> 0]
    /\ list = {}
    /\ mode = "off"
    /\ AtRest
    /\ marked = {}
    /\ taken = [f \in Files |-> 0]
    /\ unread = {}
    /\ cut = {}

-----------------------------------------------------------------------------
(* The log *)

\* The writer stores a line, in the part it has open.
Grow(f) ==
    /\ mode # "off"
    /\ f \notin final
    /\ size[f] < MaxLines[f]
    /\ size' = [size EXCEPT ![f] = @ + 1]
    /\ UNCHANGED <<final, dest, got, list, client, taken, unread, cut>>

\* The day of the file is over.
Finish(f) ==
    /\ size[f] > 0
    /\ f \notin final
    /\ final' = final \cup {f}
    /\ UNCHANGED <<size, dest, got, list, client, taken, unread, cut>>

-----------------------------------------------------------------------------
(* The service *)

\* parse_upload_settings and UploadStateStore::load: a list that cannot be
\* opened is an empty one, and one that cannot be read on ends there.
Start(m) ==
    /\ mode = "off"
    /\ mode' = m
    /\ marked' \in SUBSET list
    /\ unread' = unread \cup (list \ marked')
    /\ UNCHANGED <<logFiles, got, list, step, todo, cur, body, taken, cut>>

\* The service ends, in order after the thread's round, or at any other time.
Quit ==
    /\ mode # "off"
    /\ mode' = "off"
    /\ step' = "idle"
    /\ todo' = {}
    /\ marked' = {}
    /\ cur' = "none"
    /\ body' = 0
    /\ unread' = unread \cap list
    /\ cut' = cut \cap list
    /\ UNCHANGED <<logFiles, got, list, taken>>

-----------------------------------------------------------------------------
(* The thread *)

\* What would go wrong: only the files of the current day are looked at.
RoundOfToday ==
    /\ mode = "on"
    /\ step = "idle"
    /\ step' = "scan"
    /\ todo' = {f \in Files \ final : size[f] > 0}
    /\ UNCHANGED <<logFiles, got, list, mode, marked, cur, body, taken, unread, cut>>

\* upload_thread_main and run_once: a round begins with the files there are.
Round ==
    /\ mode = "on"
    /\ step = "idle"
    /\ step' = "scan"
    /\ todo' = {f \in Files : size[f] > 0}
    /\ UNCHANGED <<logFiles, got, list, mode, marked, cur, body, taken, unread, cut>>

\* A marked file is left out, or one that could not be read; nor could its
\* copy in the outbox be opened.
Skip(f) ==
    /\ step = "scan"
    /\ f \in todo
    /\ todo' = todo \ {f}
    /\ UNCHANGED <<logFiles, got, list, mode, step, marked, cur, body, taken, unread, cut>>

\* read_file_bytes
ReadFile(f) ==
    /\ step = "scan"
    /\ f \in todo \ marked
    /\ todo' = todo \ {f}
    /\ cur' = f
    /\ body' = size[f]
    /\ step' = "send"
    /\ UNCHANGED <<logFiles, got, list, mode, marked, taken, unread, cut>>

EndRound ==
    /\ step = "scan"
    /\ todo = {}
    /\ step' = "idle"
    /\ UNCHANGED <<logFiles, got, list, mode, todo, marked, cur, body, taken, unread, cut>>

\* upload_file goes back to run_once.
Drop ==
    /\ step' = "scan"
    /\ cur' = "none"
    /\ body' = 0
    /\ UNCHANGED <<logFiles, list, mode, todo, marked, taken, unread, cut>>

\* upload_mock truncates the copy in the outbox.
OpenCopy ==
    /\ step = "send"
    /\ dest = "mock"
    /\ step' = "copy"
    /\ got' = [got EXCEPT ![cur] = 0]
    /\ UNCHANGED <<logFiles, list, mode, todo, marked, cur, body, taken, unread, cut>>

\* ... and writes it, which succeeds when the stream has it.  What the stream
\* still holds is flushed when it is closed, and perhaps in vain.
Copy(f) ==
    /\ step = "copy"
    /\ cur = f
    /\ step' = "mark"
    /\ \/ got' = [got EXCEPT ![f] = body] /\ cut' = cut \ {f}
       \/ cut' = cut \cup {f} /\ UNCHANGED got
    /\ UNCHANGED <<logFiles, list, mode, todo, marked, cur, body, taken, unread>>

\* ... or the stream takes a part of it only.
CopyFails ==
    /\ step = "copy"
    /\ Drop
    /\ UNCHANGED got

\* What would go wrong: any answer of the server counts.
PostAnyAnswer(f) ==
    /\ step = "send"
    /\ dest = "http"
    /\ cur = f
    /\ step' = "mark"
    /\ \/ got' = [got EXCEPT ![f] = body]
       \/ UNCHANGED got
    /\ UNCHANGED <<logFiles, list, mode, todo, marked, cur, body, taken, unread, cut>>

\* upload_http: the server stores the file and answers with 2xx.
Post(f) ==
    /\ step = "send"
    /\ dest = "http"
    /\ cur = f
    /\ step' = "mark"
    /\ got' = [got EXCEPT ![f] = body]
    /\ UNCHANGED <<logFiles, list, mode, todo, marked, cur, body, taken, unread, cut>>

\* Any other answer or none, whether the server has stored it or not.
PostFails ==
    /\ step = "send"
    /\ dest = "http"
    /\ Drop
    /\ \/ UNCHANGED got
       \/ got' = [got EXCEPT ![cur] = body]

\* What would go wrong: the name is gone before it is marked.
MarkLater ==
    /\ step = "mark"
    /\ step' = "save"
    /\ marked' = marked \cup {"none"}
    /\ list' = {}
    /\ cur' = "none"
    /\ body' = 0
    /\ UNCHANGED <<logFiles, got, mode, todo, taken, unread, cut>>

\* mark_uploaded, and save truncates the list, if it can open it.
Mark ==
    /\ step = "mark"
    /\ marked' = marked \cup {cur}
    /\ taken' = [taken EXCEPT ![cur] = body]
    /\ cur' = "none"
    /\ body' = 0
    /\ \/ step' = "save" /\ list' = {}
       \/ step' = "scan" /\ UNCHANGED list
    /\ unread' = unread \ {cur}
    /\ UNCHANGED <<logFiles, got, mode, todo, cut>>

\* The names are written, or some of them.
Save ==
    /\ step = "save"
    /\ list' \in SUBSET marked
    /\ step' = "scan"
    /\ UNCHANGED <<logFiles, got, mode, todo, marked, cur, body, taken, unread, cut>>

UploadNext ==
    \/ \E f \in Files : \/ Grow(f)
                        \/ Finish(f)
                        \/ Skip(f)
                        \/ ReadFile(f)
                        \/ Copy(f)
                        \/ Post(f)
    \/ \E m \in {"disabled", "on"} : Start(m)
    \/ Quit
    \/ Round
    \/ EndRound
    \/ OpenCopy
    \/ CopyFails
    \/ PostFails
    \/ Mark
    \/ Save

UploadSpec == UploadInit /\ [][UploadNext]_uploadVars

\* The thread goes on.
UploadGo == Round \/ EndRound \/ OpenCopy \/ Mark \/ Save \/ \E f \in Files : Skip(f)

-----------------------------------------------------------------------------
(* Properties *)

\* A file that counts as uploaded is at the destination with everything it
\* held when it was read; what is missing there is what was appended later.
\* Two things only can destroy that: the outbox kept a part of a copy that was
\* written without an error; and a start did not load the name of the file, so
\* that it was sent again while the list still named it.
MarkedIsThere ==
    \A f \in (marked \cup list) \ (cut \cup unread) : got[f] >= taken[f]

\* Once the service stays up with an upload configured, each file that is
\* complete gets to the destination as a whole, unless the outbox keeps a part
\* of it, or its name was not loaded and then it was, or it was read while it
\* still grew: that one is marked, and what was appended later is never sent.
CompleteFileArrives ==
    <>[](mode = "on") =>
        <>[](\A f \in final \ (cut \cup unread) :
                 got[f] = size[f] \/ (f \in marked /\ taken[f] < size[f]))

=============================================================================
