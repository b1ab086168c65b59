---------------------------- MODULE EvidencePack ----------------------------
(***************************************************************************)
(* Building one evidence pack after another.  The worker of DeepCollector  *)
(* copies the history database of each user's browsers to a staging folder *)
(* of the pack's own, appends what a query finds to one output per         *)
(* browser and removes the copy; exports prefetch names and the registry's *)
(* USB devices; writes down what it has counted; and puts whatever is in   *)
(* the folder into an archive.  Most of these steps may fail, and a        *)
(* failure that is noticed is noticed for its own part only.               *)
(*                                                                         *)
(* An output is the number of whole rows in it.  All users may have a      *)
(* database of each browser; the limit of rows is one for each of them.    *)
(***************************************************************************)
EXTENDS Naturals

CONSTANTS Users,    \* folders in C:\Users
          Chromium, \* browsers collected by collect_chromium_profiles
          Firefox,  \* browsers with a moz_places
          Exports,  \* the lists of prefetch files and of USB devices
          MaxRows   \* max_browser_rows

Browsers == Chromium \cup Firefox
Outputs  == Browsers \cup Exports

ASSUME PackAssumption ==
    /\ MaxRows \in Nat \ {0}
    /\ Browsers \cap Exports = {}

VARIABLES
    build,    \* what build_evidence_pack is about to do, or "none"
    due,      \* databases it has not looked at, then exports
    source,   \* the database it has a copy of, or <<>>
    counted,  \* EvidencePackResult
    rows,     \* rows in the outputs of the staging folder
    copies,   \* browsers a copy of a database is there of
    manifest, \* what manifest.json says, or <<>>
    archive,  \* the file of the pack: "none", "part" or "whole"
    \* history
    lost,     \* a row that was counted was not stored
    hindered  \* a copy could not be written or removed, or its rows had nowhere to go

packVars == <<build, due, source, counted, rows, copies, manifest, archive, lost, hindered>>

Zeros == [o \in Outputs |-> 0]

PackTypeOK ==
    /\ build \in {"none", "browsers", "query", "exports", "open", "zip", "tell"}
    /\ due \subseteq (Users \X Browsers) \cup Exports
    /\ source \in (Users \X Browsers) \cup {<<>>}
    /\ counted \in [Outputs -> Nat]
    /\ rows \in [Outputs -> Nat]
    /\ copies \subseteq Browsers
    /\ manifest \in [Outputs -> Nat] \cup {<<>>}
    /\ archive \in {"none", "part", "whole"}
    /\ lost \in BOOLEAN
    /\ hindered \in BOOLEAN

PackInit ==
    /\ build = "none"
    /\ due = {}
    /\ source = <<>>
    /\ counted = Zeros
    /\ rows = Zeros
    /\ copies = {}
    /\ manifest = <<>>
    /\ archive = "none"
    /\ lost = FALSE
    /\ hindered = FALSE

-----------------------------------------------------------------------------
(* Browsers *)

\* What a pack starts from, and what the code knows of it in the end.
Cleared ==
    /\ source' = <<>>
    /\ counted' = Zeros
    /\ rows' = Zeros
    /\ copies' = {}
    /\ manifest' = <<>>
    /\ archive' = "none"
    /\ lost' = FALSE
    /\ hindered' = FALSE

\* The database of each user's default profile, which the user may not have.
Databases == Users \X Browsers

\* A new folder; there is nothing to query with when winsqlite3.dll is missing.
\* A browser that is not configured is one that nobody has.
BeginPack ==
    /\ build = "none"
    /\ build' = "browsers"
    /\ due' \in {Databases, {}}
    /\ Cleared

\* copy_locked_file: the user has no such database or it cannot be read, or the
\* copy cannot be written as a whole and what there is of it stays; ...
NoCopy(d) ==
    /\ build = "browsers"
    /\ d \in due
    /\ due' = due \ {d}
    /\ \/ UNCHANGED <<copies, hindered>>
       \/ copies' = copies \cup {d[2]} /\ hindered' = TRUE
    /\ UNCHANGED <<build, source, counted, rows, manifest, archive, lost>>

\* ... or there is a copy, in the place of an earlier user's.
CopyHistory(d) ==
    /\ build = "browsers"
    /\ d \in due
    /\ due' = due \ {d}
    /\ source' = d
    /\ copies' = copies \cup {d[2]}
    /\ build' = "query"
    /\ UNCHANGED <<counted, rows, manifest, archive, lost, hindered>>

\* The rows a loaded SQLite may yield: none from a copy that it cannot open or a
\* statement that it cannot prepare, and as many as the limit in the best case.
Found == 0 .. MaxRows

\* Rows are appended to the output; they are counted while they are in its
\* buffer and stored when it is closed, or not.
Stored(o, before, n) ==
    \E m \in 0 .. n :
        /\ counted' = [counted EXCEPT ![o] = @ + n]
        /\ rows' = [rows EXCEPT ![o] = before + m]
        /\ lost' = (lost \/ m < n)

\* The copy is removed, or it stays and nobody looks.
Removed(b) ==
    \/ copies' = copies \ {b} /\ UNCHANGED hindered
    \/ UNCHANGED copies /\ hindered' = TRUE

\* What would go wrong: the output is truncated for each user.
RowsAnew(b) == \E n \in Found : Stored(b, 0, n)

\* What the query finds is appended to the browser's output.
Rows(b) == \E n \in Found : Stored(b, rows[b], n)

\* query_chromium_db, if the output can be opened; if not, the copy is left.
QueryChromium(b) ==
    /\ build = "query"
    /\ source[2] = b
    /\ build' = "browsers"
    /\ source' = <<>>
    /\ \/ Rows(b) /\ Removed(b)
       \/ UNCHANGED <<counted, rows, copies, lost>> /\ hindered' = TRUE
    /\ UNCHANGED <<due, manifest, archive>>

\* query_firefox_db; here the copy is removed in any case.
QueryFirefox(b) ==
    /\ build = "query"
    /\ source[2] = b
    /\ build' = "browsers"
    /\ source' = <<>>
    /\ Rows(b) \/ UNCHANGED <<counted, rows, lost>>
    /\ Removed(b)
    /\ UNCHANGED <<due, manifest, archive>>

BrowsersDone ==
    /\ build = "browsers"
    /\ due = {}
    /\ build' = "exports"
    /\ due' \in SUBSET Exports     \* what is configured
    /\ UNCHANGED <<source, counted, rows, copies, manifest, archive, lost, hindered>>

-----------------------------------------------------------------------------
(* The rest of the pack *)

\* What there is to list: keys and values of the registry down to a depth, or
\* files of a folder up to a number.  The bound is one.
Listed == 0 .. 1

\* collect_system_artifacts and export_usb_registry write to an output of their
\* own, if it can be opened.
Export(e) ==
    /\ build = "exports"
    /\ e \in due
    /\ due' = due \ {e}
    /\ \E n \in Listed : Stored(e, 0, n)
    /\ UNCHANGED <<build, source, copies, manifest, archive, hindered>>

\* The files of the pack itself, which may be missing from it.
WriteManifest ==
    /\ build = "exports"
    /\ due = {}
    /\ build' = "open"
    /\ manifest' \in {counted, <<>>}
    /\ UNCHANGED <<due, source, counted, rows, copies, archive, lost, hindered>>

\* create_zip_store, with every file of the folder, ...
OpenZip ==
    /\ build = "open"
    /\ \/ build' = "zip" /\ archive' = "part"
       \/ build' = "tell" /\ UNCHANGED archive
    /\ UNCHANGED <<due, source, counted, rows, copies, manifest, lost, hindered>>

\* ... one of which may be unreadable; what was written stays, with its name.
WriteZip ==
    /\ build = "zip"
    /\ build' = "tell"
    /\ archive' \in {"part", "whole"}
    /\ UNCHANGED <<due, source, counted, rows, copies, manifest, lost, hindered>>

\* The folder is removed and run_collection tells what was counted, whatever
\* became of the archive.
TellPack ==
    /\ build = "tell"
    /\ build' = "none"
    /\ Cleared
    /\ UNCHANGED due

\* The service dies: the folder stays, with the copies in it, for nothing ever
\* removes it.
DiePack ==
    /\ build # "none"
    /\ build' = "none"
    /\ due' = {}
    /\ Cleared

PackNext ==
    \/ BeginPack
    \/ \E d \in Databases : NoCopy(d) \/ CopyHistory(d)
    \/ \E b \in Chromium : QueryChromium(b)
    \/ \E b \in Firefox : QueryFirefox(b)
    \/ BrowsersDone
    \/ \E e \in Exports : Export(e)
    \/ WriteManifest
    \/ OpenZip
    \/ WriteZip
    \/ TellPack
    \/ DiePack

PackSpec == PackInit /\ [][PackNext]_packVars

-----------------------------------------------------------------------------
(* Properties *)

\* A whole archive holds the rows that its event and its manifest speak of, in
\* the outputs several users share too, unless a stream failed unnoticed; and
\* it holds no copy of a database unless one could not be written, read out or
\* removed.
PackIsWhatItSays ==
    build = "tell" /\ archive = "whole" =>
        /\ ~lost => rows = counted
        /\ manifest \in {counted, <<>>}
        /\ ~hindered => copies = {}

=============================================================================
