------------------------------- MODULE Media -------------------------------
(***************************************************************************)
(* What the service tells of removable media.  Three threads take part.    *)
(* UsbCollector waits for volume events of WMI and gives each insertion a  *)
(* correlation id, which CorrelationTracker keeps for the drive letter.    *)
(* FileCollector looks at the drives now and then and reports the paths it *)
(* has not known before, with the id it asked for when it came to the      *)
(* drive.  DeepCollector collects an evidence pack for each insertion; how *)
(* it does is in EvidencePack.                                             *)
(*                                                                         *)
(* There is one drive letter.  Insertions are numbered, and so are ids, in *)
(* the order in which they are given; 0 is none.  Every event is written   *)
(* to the log or refused by it, which makes no difference here.            *)
(*                                                                         *)
(* The configured local folders are scanned by the same code, with no id;  *)
(* their files differ from a drive's in that they need no insertion.       *)
(***************************************************************************)
EXTENDS Naturals, Sequences

CONSTANTS Sticks,        \* what can be put into the drive
          Paths,         \* names of files on it
          MaxInsertions  \* bound: insertions

ASSUME MediaAssumption ==
    /\ "none" \notin Sticks \cup Paths
    /\ MaxInsertions \in Nat

VARIABLES
    \* the drive
    stick,    \* what is in it, or "none"
    count,    \* insertions so far
    content,  \* files on each stick
    events,   \* volume events WMI has not delivered
    \* the service
    service,  \* "off", "on", "stopping"
    usb,      \* what wmi_thread_main is about to do
    corr,     \* drive_to_corr_ of the letter
    scan,     \* what poll_thread_main is about to do
    asked,    \* the id it has asked for
    left,     \* paths it has not looked at in this scan
    found,    \* the path it is about to report, or "none"
    known,    \* known_files_
    baseline, \* baseline_ready_
    queue,    \* triggers DeepCollector has not taken
    packing,  \* the trigger its worker builds a pack for, or none
    \* history
    made,     \* for each id the insertion whose stick was there when it was given
    heard,    \* the insertion whose arrival was handled last
    sure,     \* that insertion when the scan asked for its id
    told,     \* paths reported in this run
    packed    \* ids of pack events

drive     == <<stick, count, content>>
usbVars   == <<events, usb, corr, made, heard>>
fileVars  == <<scan, asked, left, found, known, baseline, sure, told>>
deepVars  == <<queue, packing, packed>>
mediaVars == <<drive, service, usbVars, fileVars, deepVars>>

Ids  == 1 .. MaxInsertions

MediaTypeOK ==
    /\ stick \in Sticks \cup {"none"}
    /\ count \in 0 .. MaxInsertions
    /\ content \in [Sticks -> SUBSET Paths]
    /\ events \in Seq({"arrival", "removal"} \X (1 .. MaxInsertions))
    /\ service \in {"off", "on", "stopping"}
    /\ usb \in {"off", "setup", "next"}
    /\ corr \in Ids \cup {0}
    /\ scan \in {"off", "rest", "look", "report"}
    /\ asked \in Ids \cup {0}
    /\ left \subseteq Paths
    /\ found \in Paths \cup {"none"}
    /\ known \subseteq Paths
    /\ baseline \in BOOLEAN
    /\ queue \in Seq(Ids \cup {0})
    /\ packing \in Seq(Ids \cup {0}) /\ Len(packing) <= 1
    /\ made \in Seq(1 .. MaxInsertions) /\ Len(made) <= MaxInsertions
    /\ heard \in 0 .. MaxInsertions
    /\ sure \in 0 .. MaxInsertions
    /\ told \subseteq Paths
    /\ packed \subseteq Ids

MediaInit ==
    /\ stick = "none"
    /\ count = 0
    /\ content = [s \in Sticks |-> {}]
    /\ service = "off"
    /\ usb = "off"
    /\ corr = 0
    /\ heard = 0
    /\ events = <<>>
    /\ scan = "off"
    /\ asked = 0
    /\ left = {}
    /\ found = "none"
    /\ known = {}
    /\ baseline = FALSE
    /\ sure = 0
    /\ told = {}
    /\ queue = <<>>
    /\ packing = <<>>
    /\ made = <<>>
    /\ packed = {}

-----------------------------------------------------------------------------
(* The drive *)

\* WMI keeps an event for a collector that has subscribed.
Announced(kind, n) ==
    events' = IF usb = "next" THEN Append(events, <<kind, n>>) ELSE events

Insert(s) ==
    /\ stick = "none"
    /\ count < MaxInsertions
    /\ stick' = s
    /\ count' = count + 1
    /\ Announced("arrival", count + 1)
    /\ UNCHANGED <<content, service, usb, corr, made, heard, fileVars, deepVars>>

Remove ==
    /\ stick # "none"
    /\ stick' = "none"
    /\ Announced("removal", count)
    /\ UNCHANGED <<count, content, service, usb, corr, made, heard, fileVars, deepVars>>

\* A file is written, here or on another machine.
Store(s, p) ==
    /\ p \notin content[s]
    /\ content' = [content EXCEPT ![s] = @ \cup {p}]
    /\ UNCHANGED <<stick, count, service, usbVars, fileVars, deepVars>>

-----------------------------------------------------------------------------
(* UsbCollector *)

\* The WMI thread connects and subscribes, or ends because it cannot.
Subscribe ==
    /\ usb = "setup"
    /\ usb' \in {"next", "off"}
    /\ UNCHANGED <<drive, service, events, corr, made, heard, fileVars, deepVars>>

\* A query that broke returns at once and without an event, which the loop
\* takes for a timeout: the thread goes on, and hears nothing any more.
Deafen ==
    /\ usb = "next"
    /\ usb' = "off"
    /\ events' = <<>>
    /\ UNCHANGED <<drive, service, corr, made, heard, fileVars, deepVars>>

\* What would go wrong: the drive's entry is inserted, not assigned.
InsertFirst(id) == IF corr = 0 THEN id ELSE corr

\* on_usb_insert: the drive's entry becomes the new id.
OnUsbInsert(id) == id

\* trigger_usb, with a configuration that has DeepCollector and its trigger on.
TriggerUsb(id) == queue' = Append(queue, id)

\* Whatever the letter stands for by now, it must be a removable drive, or
\* the event is dropped: the removal of a stick that is gone always is.  The
\* pack is triggered before the event itself is written.
Arrival ==
    /\ usb = "next"
    /\ events # <<>>
    /\ Head(events)[1] = "arrival"
    /\ events' = Tail(events)
    /\ IF stick = "none"
       THEN UNCHANGED <<corr, made, heard, queue>>
       ELSE LET id == Len(made) + 1 IN
            /\ made' = Append(made, count)
            /\ corr' = OnUsbInsert(id)
            /\ TriggerUsb(id)   \* by the observer
            /\ heard' = Head(events)[2]
    /\ UNCHANGED <<drive, service, usb, fileVars, packing, packed>>

Removal ==
    /\ usb = "next"
    /\ events # <<>>
    /\ Head(events)[1] = "removal"
    /\ events' = Tail(events)
    /\ corr' = IF stick = "none" THEN corr ELSE 0   \* on_usb_remove
    /\ UNCHANGED <<drive, service, usb, made, heard, fileVars, deepVars>>

-----------------------------------------------------------------------------
(* FileCollector *)

Here == IF stick = "none" THEN {} ELSE content[stick]

\* A round asks for the id of the drive and then goes through it.
Ask ==
    /\ scan = "rest"
    /\ service = "on"
    /\ stick # "none"
    /\ scan' = "look"
    /\ asked' = corr
    /\ sure' = heard
    /\ left' = Paths
    /\ UNCHANGED <<drive, service, usbVars, found, known, baseline, told, deepVars>>


\* A path is new once, on whatever stick; in the first scan it is not told.
\* Folders are opened by their path, so a stick that was exchanged during the
\* scan is looked at with the id of the one before.
Look(p) ==
    /\ scan = "look"
    /\ p \in left \cap Here
    /\ left' = left \ {p}
    /\ known' = known \cup {p}
    /\ IF baseline /\ p \notin known
       THEN scan' = "report" /\ found' = p
       ELSE UNCHANGED <<scan, found>>
    /\ UNCHANGED <<drive, service, usbVars, asked, sure, baseline, told, deepVars>>

\* emit_file_create reports a file that is still there.
Report ==
    /\ scan = "report"
    /\ scan' = "look"
    /\ found' = "none"
    /\ told' = IF found \in Here THEN told \cup {found} ELSE told
    /\ UNCHANGED <<drive, service, usbVars, asked, sure, left, known, baseline, deepVars>>

\* The round ends, with the drive or without one.
Rest ==
    /\ \/ scan = "look" /\ left \cap Here = {}
       \/ scan = "rest" /\ stick = "none" /\ service = "on" /\ ~baseline
    /\ scan' = "rest"
    /\ baseline' = TRUE
    /\ asked' = 0
    /\ sure' = 0
    /\ left' = {}
    /\ UNCHANGED <<drive, service, usbVars, found, known, told, deepVars>>

-----------------------------------------------------------------------------
(* DeepCollector *)

\* schedule_due: the worker asks for a pack without an id itself.
Schedule ==
    /\ service = "on"
    /\ packing = <<>>
    /\ \A i \in DOMAIN queue : queue[i] # 0
    /\ queue' = Append(queue, 0)
    /\ UNCHANGED <<drive, service, usbVars, fileVars, packing, packed>>

\* The stop flag is looked at first: triggers that wait are dropped then.
Take ==
    /\ service = "on"
    /\ packing = <<>>
    /\ queue # <<>>
    /\ packing' = <<Head(queue)>>
    /\ queue' = Tail(queue)
    /\ UNCHANGED <<drive, service, usbVars, fileVars, packed>>

\* The name of the archive is set before it is created, and one that could not
\* be written keeps it: the event is pack_created in any case, and pack_failed
\* is never reached.
Collect ==
    /\ packing # <<>>
    /\ packing' = <<>>
    /\ packed' = packed \cup ({packing[1]} \ {0})
    /\ UNCHANGED <<drive, service, usbVars, fileVars, queue>>

-----------------------------------------------------------------------------
(* The service *)

StartMedia ==
    /\ service = "off"
    /\ service' = "on"
    /\ usb' = "setup"
    /\ scan' = "rest"
    /\ UNCHANGED <<drive, events, corr, made, heard,
                   asked, left, found, known, baseline, sure, told, deepVars>>

StopMedia ==
    /\ service = "on"
    /\ service' = "stopping"
    /\ UNCHANGED <<drive, usbVars, fileVars, deepVars>>

Gone ==
    /\ service' = "off"
    /\ usb' = "off"
    /\ corr' = 0
    /\ heard' = 0
    /\ events' = <<>>
    /\ scan' = "off"
    /\ asked' = 0
    /\ left' = {}
    /\ found' = "none"
    /\ known' = {}
    /\ baseline' = FALSE
    /\ sure' = 0
    /\ told' = {}
    /\ queue' = <<>>
    /\ packing' = <<>>
    /\ UNCHANGED <<drive, made, packed>>

\* The threads are joined where they end: between two events, after the scan
\* of the drive, after the pack.
Joined ==
    /\ service = "stopping"
    /\ scan = "rest"
    /\ packing = <<>>
    /\ Gone

DieMedia ==
    /\ service # "off"
    /\ Gone

MediaNext ==
    \/ \E s \in Sticks : Insert(s) \/ \E p \in Paths : Store(s, p)
    \/ Remove
    \/ Subscribe
    \/ Deafen
    \/ Arrival
    \/ Removal
    \/ Ask
    \/ \E p \in Paths : Look(p)
    \/ Report
    \/ Rest
    \/ Schedule
    \/ Take
    \/ Collect
    \/ StartMedia
    \/ StopMedia
    \/ Joined
    \/ DieMedia

MediaSpec == MediaInit /\ [][MediaNext]_mediaVars

\* The scan and the worker go on.
MediaScan == Ask \/ Report \/ Rest \/ \E p \in Paths : Look(p)
MediaPack == Take \/ Collect

-----------------------------------------------------------------------------
(* Properties *)

\* A file event carries the id of the insertion its file came with, whenever
\* that insertion's arrival had been handled when the scan asked and no other
\* stick has come since: the removal of the stick before it need not have been
\* noticed, and never is once the drive is empty.
FileNamesItsStick ==
    scan = "report" /\ sure = count => asked # 0 /\ made[asked] = count

\* Each insertion that triggers a pack gets one, unless the service ends
\* before; and a file that appears on a stick that stays is told of, unless
\* its path was known from another stick or seen by the first scan.
TriggerIsAnswered ==
    \A id \in Ids :
        (\E i \in DOMAIN queue : queue[i] = id) ~> id \in packed \/ service # "on"

NewFileIsTold ==
    \A p \in Paths :
        service = "on" /\ baseline /\ p \in Here \ known
            ~> p \in told \/ service # "on" \/ stick = "none"


=============================================================================
