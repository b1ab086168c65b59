----------------------- MODULE ServiceThreads_proofs -----------------------
(***************************************************************************)
(* Proofs about the threads of ServiceThreads, for any files, sticks,      *)
(* users, process ids and bounds: the upload's marks, the rows of an       *)
(* evidence pack, the pairs of process events and the ids of file events.  *)
(* Each thread has an inductive invariant of its own, which the steps of   *)
(* the others leave alone.                                                 *)
(***************************************************************************)
EXTENDS ServiceThreads, TLAPS

-----------------------------------------------------------------------------
(* Upload *)

Sending == {"send", "copy", "mark"}

\* The thread has a file in hand while it sends one, which is not marked.
InHand ==
    /\ step # "idle" => mode = "on"
    /\ mode = "off" => marked = {}
    /\ step \in Sending => cur \in Files \ marked
    /\ step = "mark" => cur \in cut \/ got[cur] = body

\* Names in the list are marked or unread, so that no other file in it is sent.
Kept ==
    /\ mode # "off" => list \subseteq marked \cup unread
    /\ \A f \in (marked \cup list) \ (cut \cup unread) : got[f] >= taken[f]

UploadInv == UploadTypeOK /\ InHand /\ Kept

LEMMA UploadInitInv == UploadInit => UploadInv
<1>. SUFFICES ASSUME UploadInit PROVE UploadInv
  OBVIOUS
<1>1. UploadTypeOK
  <2>1. size \in [Files -> Nat] /\ got \in [Files -> Nat] /\ taken \in [Files -> Nat]
    BY DEF UploadInit
  <2>2. ASSUME NEW f \in Files PROVE size[f] <= MaxLines[f]
    <3>1. size[f] = 0 /\ MaxLines[f] \in Nat
      BY UploadAssumption DEF UploadInit
    <3>. QED
      BY <3>1
  <2>3. /\ final \subseteq Files /\ list \subseteq Files /\ todo \subseteq Files /\ marked \subseteq Files
        /\ mode = "off" /\ step = "idle" /\ cur = "none" /\ body \in Nat
        /\ dest \in Destinations
    BY DEF UploadInit, AtRest
  <2>4. unread \subseteq Files /\ cut \subseteq Files
    BY DEF UploadInit
  <2>. QED
    BY <2>1, <2>2, <2>3, <2>4 DEF UploadTypeOK
<1>2. InHand /\ Kept
  BY DEF UploadInit, AtRest, InHand, Kept, Sending
<1>. QED
  BY <1>1, <1>2 DEF UploadInv

\* The files of the log, and a start and an end of the service.
LEMMA UploadOutsideInv ==
    ASSUME UploadInv,
           \/ \E f \in Files : Grow(f) \/ Finish(f)
           \/ \E m \in {"disabled", "on"} : Start(m)
           \/ Quit
    PROVE  UploadInv'
<1>. USE DEF UploadInv
<1>1. ASSUME NEW f \in Files, Grow(f) PROVE UploadInv'
  <2>1. size' = [size EXCEPT ![f] = size[f] + 1] /\ size[f] < MaxLines[f]
    BY <1>1 DEF Grow
  <2>2. size' \in [Files -> Nat]
    BY <2>1 DEF UploadTypeOK
  <2>3. ASSUME NEW g \in Files PROVE size'[g] <= MaxLines[g]
    <3>1. size[g] \in Nat /\ size[g] <= MaxLines[g] /\ MaxLines[g] \in Nat
      BY UploadAssumption DEF UploadTypeOK
    <3>. QED
      BY <2>1, <3>1 DEF UploadTypeOK
  <2>4. UploadTypeOK'
    BY <1>1, <2>2, <2>3 DEF Grow, client, UploadTypeOK
  <2>. QED
    BY <1>1, <2>4 DEF Grow, client, InHand, Kept, Sending
<1>2. ASSUME NEW f \in Files, Finish(f) PROVE UploadInv'
  BY <1>2 DEF Finish, client, UploadTypeOK, InHand, Kept, Sending
<1>3. ASSUME NEW m \in {"disabled", "on"}, Start(m) PROVE UploadInv'
  <2>1. UploadTypeOK'
    BY <1>3 DEF Start, logFiles, UploadTypeOK
  <2>2. InHand'
    BY <1>3 DEF Start, InHand, Sending
  <2>3. Kept'
    BY <1>3 DEF Start, InHand, Kept
  <2>. QED
    BY <2>1, <2>2, <2>3
<1>4. CASE Quit
  <2>1. UploadTypeOK'
    BY <1>4 DEF Quit, logFiles, UploadTypeOK
  <2>2. InHand' /\ Kept'
    BY <1>4 DEF Quit, InHand, Kept, Sending
  <2>. QED
    BY <2>1, <2>2
<1>. QED
  BY <1>1, <1>2, <1>3, <1>4

\* A round, without what it does to a file.
LEMMA UploadRoundInv ==
    ASSUME UploadInv,
           Round \/ EndRound \/ OpenCopy \/ \E f \in Files : Skip(f) \/ ReadFile(f)
    PROVE  UploadInv'
<1>. USE DEF UploadInv
<1>1. CASE Round \/ EndRound \/ \E f \in Files : Skip(f)
  BY <1>1 DEF Round, EndRound, Skip, logFiles, UploadTypeOK, InHand, Kept, Sending
<1>2. CASE OpenCopy
  <2>1. UploadTypeOK'
    BY <1>2 DEF OpenCopy, logFiles, UploadTypeOK, InHand, Sending
  <2>2. InHand' /\ Kept'
    BY <1>2 DEF OpenCopy, UploadTypeOK, InHand, Kept, Sending
  <2>. QED
    BY <2>1, <2>2
<1>3. ASSUME NEW f \in Files, ReadFile(f) PROVE UploadInv'
  <2>1. UploadTypeOK'
    BY <1>3 DEF ReadFile, logFiles, UploadTypeOK
  <2>2. InHand' /\ Kept'
    BY <1>3 DEF ReadFile, UploadTypeOK, InHand, Kept, Sending
  <2>. QED
    BY <2>1, <2>2
<1>. QED
  BY <1>1, <1>2, <1>3

\* The file in hand is sent, and marked or not.
LEMMA UploadSendInv ==
    ASSUME UploadInv,
           CopyFails \/ PostFails \/ Mark \/ Save \/ \E f \in Files : Copy(f) \/ Post(f)
    PROVE  UploadInv'
<1>. USE DEF UploadInv
<1>1. ASSUME NEW f \in Files, Copy(f) \/ Post(f) PROVE UploadInv'
  <2>1. UploadTypeOK'
    BY <1>1 DEF Copy, Post, logFiles, UploadTypeOK
  <2>2. InHand' /\ Kept'
    BY <1>1 DEF Copy, Post, UploadTypeOK, InHand, Kept, Sending
  <2>. QED
    BY <2>1, <2>2
<1>2. CASE CopyFails \/ PostFails
  <2>1. UploadTypeOK'
    BY <1>2 DEF CopyFails, PostFails, Drop, logFiles, UploadTypeOK, InHand, Sending
  <2>2. InHand' /\ Kept'
    BY <1>2 DEF CopyFails, PostFails, Drop, UploadTypeOK, InHand, Kept, Sending
  <2>. QED
    BY <2>1, <2>2
<1>3. CASE Mark
  <2>1. UploadTypeOK'
    BY <1>3 DEF Mark, logFiles, UploadTypeOK, InHand, Sending
  <2>2. InHand'
    BY <1>3 DEF Mark, InHand, Sending
  <2>3. Kept'
    BY <1>3 DEF Mark, UploadTypeOK, InHand, Kept, Sending
  <2>. QED
    BY <2>1, <2>2, <2>3
<1>4. CASE Save
  BY <1>4 DEF Save, logFiles, UploadTypeOK, InHand, Kept, Sending
<1>. QED
  BY <1>1, <1>2, <1>3, <1>4

LEMMA UploadNextInv == UploadInv /\ [UploadNext]_uploadVars => UploadInv'
<1>1. UploadInv /\ UNCHANGED uploadVars => UploadInv'
  BY DEF UploadInv, UploadTypeOK, InHand, Kept, uploadVars, logFiles, client
<1>. QED
  BY <1>1, UploadOutsideInv, UploadRoundInv, UploadSendInv DEF UploadNext

-----------------------------------------------------------------------------
(* EvidencePack *)

\* What is stored is what was counted; an export that is still due has
\* nothing; and the copy that is there is the one being queried.
Accounted ==
    /\ ~lost => rows = counted
    /\ \A e \in Exports :
          build \in {"none", "browsers", "query"} \/ (build = "exports" /\ e \in due)
              => counted[e] = 0
    /\ build \notin {"open", "zip", "tell"} => manifest = <<>>
    /\ manifest \in {counted, <<>>}
    /\ build = "query" => source \in Databases
    /\ ~hindered => copies = IF build = "query" THEN {source[2]} ELSE {}

PackInv == PackTypeOK /\ Accounted

LEMMA PackInitInv == PackInit => PackInv
<1>. SUFFICES ASSUME PackInit PROVE PackInv
  OBVIOUS
<1>1. counted \in [Outputs -> Nat] /\ rows \in [Outputs -> Nat]
  BY DEF PackInit, Zeros
<1>2. lost \in BOOLEAN /\ hindered \in BOOLEAN
  BY DEF PackInit
<1>3. PackTypeOK
  BY <1>1, <1>2 DEF PackInit, PackTypeOK
<1>4. /\ rows = counted /\ build = "none" /\ manifest = <<>> /\ copies = {}
      /\ \A e \in Exports : counted[e] = 0
  BY DEF PackInit, Zeros, Outputs
<1>5. Accounted
  BY <1>4 DEF Accounted
<1>. QED
  BY <1>3, <1>5 DEF PackInv

\* Every pack starts from nothing.
LEMMA ClearedInv ==
    ASSUME PackTypeOK, Cleared, build' \in {"none", "browsers"},
           due' \subseteq (Users \X Browsers) \cup Exports
    PROVE  PackInv'
<1>1. counted' \in [Outputs -> Nat] /\ rows' \in [Outputs -> Nat] /\ rows' = counted'
  BY DEF Cleared, Zeros
<1>2. lost' \in BOOLEAN /\ hindered' \in BOOLEAN
  BY DEF Cleared
<1>3. PackTypeOK'
  BY <1>1, <1>2 DEF Cleared, PackTypeOK
<1>4. manifest' = <<>> /\ copies' = {} /\ \A e \in Exports : counted'[e] = 0
  BY DEF Cleared, Zeros, Outputs
<1>5. Accounted'
  BY <1>1, <1>4 DEF Accounted
<1>. QED
  BY <1>3, <1>5 DEF PackInv

\* Rows are added to an output of known size.
LEMMA StoredTyped ==
    ASSUME PackTypeOK, NEW o \in Outputs, NEW before \in Nat, NEW n \in Nat, Stored(o, before, n)
    PROVE  /\ counted' \in [Outputs -> Nat] /\ rows' \in [Outputs -> Nat] /\ lost' \in BOOLEAN
           /\ \A p \in Outputs \ {o} : counted'[p] = counted[p]
           /\ before = rows[o] /\ (~lost => rows = counted) => (~lost' => rows' = counted')
<1>1. PICK m \in 0 .. n : /\ counted' = [counted EXCEPT ![o] = @ + n]
                          /\ rows' = [rows EXCEPT ![o] = before + m]
                          /\ lost' = (lost \/ m < n)
  BY DEF Stored
<1>2. /\ counted' \in [Outputs -> Nat] /\ rows' \in [Outputs -> Nat]
      /\ \A p \in Outputs \ {o} : counted'[p] = counted[p]
  BY <1>1 DEF PackTypeOK
<1>3. lost' \in BOOLEAN
  BY <1>1
<1>4. ASSUME before = rows[o], ~lost => rows = counted, ~lost' PROVE rows' = counted'
  <2>1. ~lost /\ ~(m < n)
    BY <1>1, <1>4
  <2>2. m = n
    BY <2>1
  <2>. QED
    BY <1>1, <1>4, <2>1, <2>2 DEF PackTypeOK
<1>. QED
  BY <1>2, <1>3, <1>4

LEMMA QueryInv ==
    ASSUME PackInv, NEW b \in Browsers, QueryChromium(b) \/ QueryFirefox(b)
    PROVE  PackInv'
<1>. USE DEF PackInv
<1>1. b \in Outputs /\ b \notin Exports
  BY PackAssumption DEF Outputs
<1>2. /\ build = "query" /\ build' = "browsers" /\ source' = <<>> /\ source[2] = b
      /\ UNCHANGED <<due, manifest, archive>>
      /\ Rows(b) \/ UNCHANGED <<counted, rows, lost>>
      /\ Removed(b) \/ (UNCHANGED copies /\ hindered' = TRUE)
  BY DEF QueryChromium, QueryFirefox
<1>3. /\ counted' \in [Outputs -> Nat] /\ rows' \in [Outputs -> Nat] /\ lost' \in BOOLEAN
      /\ \A p \in Outputs \ {b} : counted'[p] = counted[p]
      /\ ~lost' => rows' = counted'
  <2>1. CASE Rows(b)
    <3>1. PICK n \in Found : Stored(b, rows[b], n)
      BY <2>1 DEF Rows
    <3>2. n \in Nat /\ rows[b] \in Nat
      BY <1>1, <3>1, PackAssumption DEF Found, PackTypeOK
    <3>. QED
      BY <1>1, <3>1, <3>2, StoredTyped DEF Accounted
  <2>2. CASE UNCHANGED <<counted, rows, lost>>
    BY <2>2 DEF PackTypeOK, Accounted
  <2>. QED
    BY <1>2, <2>1, <2>2
<1>4. copies' \subseteq Browsers /\ hindered' \in BOOLEAN
  BY <1>2 DEF Removed, PackTypeOK
<1>5. ~hindered' => copies' = {}
  BY <1>2 DEF Removed, Accounted
<1>6. PackTypeOK'
  BY <1>2, <1>3, <1>4 DEF PackTypeOK
<1>7. \A e \in Exports : counted'[e] = 0
  BY <1>1, <1>2, <1>3 DEF Accounted, Outputs
<1>8. manifest' = <<>>
  BY <1>2 DEF Accounted
<1>. QED
  BY <1>2, <1>3, <1>5, <1>6, <1>7, <1>8 DEF Accounted

LEMMA ExportInv ==
    ASSUME PackInv, NEW e \in Exports, Export(e)
    PROVE  PackInv'
<1>. USE DEF PackInv
<1>1. PICK n \in Listed : Stored(e, 0, n)
  BY DEF Export
<1>2. e \in Outputs /\ n \in Nat /\ counted[e] = 0 /\ build = "exports" /\ e \in due
  BY <1>1 DEF Listed, Outputs, Export, Accounted
<1>3. ~lost => rows[e] = 0
  BY <1>2 DEF Accounted
<1>4. /\ counted' \in [Outputs -> Nat] /\ rows' \in [Outputs -> Nat] /\ lost' \in BOOLEAN
      /\ \A p \in Outputs \ {e} : counted'[p] = counted[p]
  BY <1>1, <1>2, StoredTyped
<1>5. ~lost' => rows' = counted'
  <2>. SUFFICES ASSUME ~lost' PROVE rows' = counted'
    OBVIOUS
  <2>1. ~lost
    BY <1>1 DEF Stored
  <2>. QED
    BY <1>1, <1>2, <1>3, <2>1, StoredTyped DEF Accounted
<1>6. /\ build' = build /\ due' = due \ {e} /\ manifest = <<>>
      /\ UNCHANGED <<source, copies, manifest, archive, hindered>>
  BY <1>2 DEF Export, Accounted
<1>7. PackTypeOK'
  BY <1>4, <1>6 DEF PackTypeOK
<1>8. \A x \in Exports : x \in due' => counted'[x] = 0
  BY <1>2, <1>4, <1>6 DEF Accounted, Outputs
<1>. QED
  BY <1>2, <1>5, <1>6, <1>7, <1>8 DEF Accounted

LEMMA PackNextInv == PackInv /\ [PackNext]_packVars => PackInv'
<1>. SUFFICES ASSUME PackInv, [PackNext]_packVars PROVE PackInv'
  OBVIOUS
<1>. USE DEF PackInv
<1>1. CASE BeginPack \/ DiePack \/ TellPack
  BY <1>1, ClearedInv DEF BeginPack, DiePack, TellPack, PackTypeOK, Databases
<1>2. ASSUME NEW d \in Databases, NoCopy(d) \/ CopyHistory(d) PROVE PackInv'
  <2>1. d[2] \in Browsers
    BY DEF Databases
  <2>2. PackTypeOK'
    BY <1>2, <2>1 DEF NoCopy, CopyHistory, PackTypeOK, Databases
  <2>3. Accounted'
    BY <1>2, <2>1 DEF NoCopy, CopyHistory, Accounted
  <2>. QED
    BY <2>2, <2>3
<1>3. ASSUME NEW b \in Browsers, QueryChromium(b) \/ QueryFirefox(b) PROVE PackInv'
  BY <1>3, QueryInv
<1>4. ASSUME NEW e \in Exports, Export(e) PROVE PackInv'
  BY <1>4, ExportInv
<1>5. CASE BrowsersDone \/ WriteManifest
  <2>1. PackTypeOK'
    BY <1>5 DEF BrowsersDone, WriteManifest, PackTypeOK
  <2>2. Accounted'
    BY <1>5 DEF BrowsersDone, WriteManifest, Accounted
  <2>. QED
    BY <2>1, <2>2
<1>6. CASE OpenZip \/ WriteZip \/ UNCHANGED packVars
  BY <1>6 DEF OpenZip, WriteZip, packVars, PackTypeOK, Accounted
<1>. QED
  BY <1>1, <1>2, <1>3, <1>4, <1>5, <1>6 DEF PackNext, Browsers

-----------------------------------------------------------------------------
(* Processes *)

\* Record k, which is after record j, is the first stop of a process with id i
\* there, or before that.
InReach(j, i, k) == \A m \in (j + 1) .. (k - 1) : records[m].pid = i => ~Ends(records[m])

\* What the session holds of id i after record j: records of process n up to its
\* stop, or only these, and then n still runs.
Upcoming(j, i, n) ==
    /\ \A k \in (j + 1) .. Len(records) :
          records[k].pid = i /\ InReach(j, i, k) => records[k].of = n
    /\ InReach(j, i, Len(records) + 1) => running[i] = n

\* Each start that the session holds, and each that was told, has its own stop
\* ahead, unless its id is astray.
Ahead ==
    /\ \A j \in 1 .. Len(records) :
          records[j].act = "start" => Upcoming(j, records[j].pid, records[j].of)
    /\ \A i \in active \ astray : open[i] # 0 /\ Upcoming(0, i, open[i])
    /\ trace # "read" => records = <<>> /\ active = {}

ProcessInv == ProcessTypeOK /\ Ahead /\ PairsAreOne

\* What lies ahead stays ahead when another record is held ...
LEMMA UpcomingAppend ==
    ASSUME records \in Seq(Record), NEW j \in Nat, j <= Len(records), NEW i \in Pids, NEW n,
           Upcoming(j, i, n), NEW r \in Record, records' = Append(records, r),
           r.pid = i /\ running[i] = n => r.of = n,
           (r.pid = i /\ Ends(r)) \/ running'[i] = running[i] \/ running[i] # n
    PROVE  Upcoming(j, i, n)'
<1>1. /\ Len(records') = Len(records) + 1
      /\ \A k \in 1 .. Len(records) : records'[k] = records[k]
      /\ records'[Len(records) + 1] = r
  OBVIOUS
<1>2. Len(records) \in Nat
  OBVIOUS
<1>3. ASSUME NEW k \in (j + 1) .. (Len(records) + 1), InReach(j, i, k)' PROVE InReach(j, i, k)
  BY <1>1, <1>2, <1>3 DEF InReach, Ends
<1>4. ASSUME NEW k \in (j + 1) .. Len(records'), records'[k].pid = i, InReach(j, i, k)'
      PROVE  records'[k].of = n
  <2>1. CASE k <= Len(records)
    <3>1. k \in (j + 1) .. Len(records) /\ records'[k] = records[k]
      BY <1>1, <1>2, <2>1
    <3>. QED
      BY <1>3, <1>4, <3>1 DEF Upcoming
  <2>2. CASE k = Len(records) + 1
    <3>1. running[i] = n
      BY <1>2, <1>3, <1>4, <2>2 DEF Upcoming
    <3>. QED
      BY <1>1, <1>4, <2>2, <3>1
  <2>. QED
    BY <1>1, <1>2, <2>1, <2>2
<1>5. ASSUME InReach(j, i, Len(records) + 1)' PROVE running'[i] = n
  <2>1. ~(r.pid = i /\ Ends(r))
    BY <1>1, <1>2, <1>5 DEF InReach, Ends
  <2>2. \A m \in (j + 1) .. Len(records) : records[m].pid = i => ~Ends(records[m])
    BY <1>1, <1>2, <1>5 DEF InReach, Ends
  <2>3. running[i] = n
    BY <1>2, <2>2 DEF InReach, Upcoming
  <2>. QED
    BY <2>1, <2>3
<1>. QED
  BY <1>4, <1>5 DEF Upcoming

\* ... and when the first one is taken, if it is not the stop that was ahead.
LEMMA UpcomingTail ==
    ASSUME records \in Seq(Record), records # <<>>, NEW j \in 0 .. (Len(records) - 1),
           NEW i \in Pids, NEW n, running' = running, records' = Tail(records),
           Upcoming(j + 1, i, n)
    PROVE  Upcoming(j, i, n)'
<1>1. /\ Len(records) \in Nat /\ Len(records') = Len(records) - 1
      /\ \A k \in 1 .. Len(records') : records'[k] = records[k + 1]
  OBVIOUS
<1>2. ASSUME NEW k \in (j + 1) .. (Len(records') + 1), InReach(j, i, k)'
      PROVE  InReach(j + 1, i, k + 1)
  <2>1. ASSUME NEW m \in (j + 2) .. k, records[m].pid = i PROVE ~Ends(records[m])
    <3>1. m - 1 \in (j + 1) .. (k - 1) /\ m - 1 \in 1 .. Len(records') /\ (m - 1) + 1 = m
      BY <1>1
    <3>. QED
      BY <1>1, <1>2, <2>1, <3>1 DEF InReach, Ends
  <2>. QED
    BY <2>1 DEF InReach
<1>3. ASSUME NEW k \in (j + 1) .. Len(records'), records'[k].pid = i, InReach(j, i, k)'
      PROVE  records'[k].of = n
  <2>1. /\ k + 1 \in ((j + 1) + 1) .. Len(records) /\ records[k + 1].pid = i
        /\ records'[k] = records[k + 1] /\ k \in (j + 1) .. (Len(records') + 1)
    BY <1>1, <1>3
  <2>2. InReach(j + 1, i, k + 1)
    BY <1>2, <1>3, <2>1
  <2>. QED
    BY <2>1, <2>2 DEF Upcoming
<1>4. ASSUME InReach(j, i, Len(records) + 1)' PROVE running'[i] = n
  <2>1. Len(records') + 1 \in (j + 1) .. (Len(records') + 1) /\ (Len(records') + 1) + 1 = Len(records) + 1
    BY <1>1
  <2>2. InReach(j + 1, i, Len(records) + 1)
    <3>1. PICK k \in (j + 1) .. (Len(records') + 1) : k = Len(records') + 1
      BY <2>1
    <3>2. InReach(j, i, k)'
      BY <1>4, <3>1
    <3>3. InReach(j + 1, i, k + 1)
      BY <1>2, <3>2
    <3>. QED
      BY <2>1, <3>1, <3>3
  <2>. QED
    BY <2>2 DEF Upcoming
<1>. QED
  BY <1>3, <1>4 DEF Upcoming

LEMMA UpcomingSkip ==
    ASSUME records \in Seq(Record), records # <<>>, NEW i \in Pids, NEW n,
           Upcoming(0, i, n), Head(records).pid = i => ~Ends(Head(records))
    PROVE  Upcoming(1, i, n)
<1>1. Len(records) \in Nat \ {0} /\ (records[1].pid = i => ~Ends(records[1]))
  BY DEF Ends
<1>2. ASSUME NEW k \in 2 .. (Len(records) + 1), InReach(1, i, k) PROVE InReach(0, i, k)
  BY <1>1, <1>2 DEF InReach
<1>3. ASSUME NEW k \in (1 + 1) .. Len(records), records[k].pid = i, InReach(1, i, k)
      PROVE  records[k].of = n
  <2>1. InReach(0, i, k) /\ k \in (0 + 1) .. Len(records)
    BY <1>1, <1>2, <1>3
  <2>. QED
    BY <1>3, <2>1 DEF Upcoming
<1>4. ASSUME InReach(1, i, Len(records) + 1) PROVE running[i] = n
  <2>1. InReach(0, i, Len(records) + 1)
    BY <1>1, <1>2, <1>4
  <2>. QED
    BY <2>1 DEF Upcoming
<1>. QED
  BY <1>3, <1>4 DEF Upcoming

\* A process is born or dies, or a thread of one.
LEMMA TracedInv ==
    ASSUME ProcessInv, NEW i \in Pids, NEW h \in Pids, NEW act \in {"start", "stop"},
           Spawn(i, h) \/ Exit(i) \/ Thread(act, i, h)
    PROVE  ProcessInv'
<1>. USE DEF ProcessInv
<1>1. PICK r, n :
         /\ n = IF running[i] = 0 THEN born + 1 ELSE running[i]
         /\ r \in [act : {"start", "stop"}, pid : {i}, of : {n}, by : Pids, thread : BOOLEAN]
         /\ UNCHANGED <<trace, active, open, astray, pair>>
         /\ running' = [running EXCEPT ![i] = IF Ends(r) THEN 0 ELSE n]
         /\ records' = IF trace = "read" THEN Append(records, r) ELSE records
         /\ born' = IF running[i] = 0 THEN born + 1 ELSE born
         /\ running[i] = 0 => born < MaxProcesses /\ ~Ends(r)
  <2>1. CASE Spawn(i, h)
    <3>1. PICK r : r = [act |-> "start", pid |-> i, of |-> born + 1, by |-> h, thread |-> FALSE]
      OBVIOUS
    <3>2. r \in [act : {"start", "stop"}, pid : {i}, of : {born + 1}, by : Pids, thread : BOOLEAN]
      BY <3>1
    <3>3. ~Ends(r)
      BY <3>1 DEF Ends
    <3>. QED
      BY <2>1, <3>1, <3>2, <3>3 DEF Spawn, Traced
  <2>2. CASE Exit(i)
    <3>1. PICK r : r = [act |-> "stop", pid |-> i, of |-> running[i], by |-> i, thread |-> FALSE]
      OBVIOUS
    <3>. QED
      BY <2>2, <3>1 DEF Exit, Traced, Ends
  <2>3. CASE Thread(act, i, h)
    <3>1. PICK r : r = [act |-> act, pid |-> i, of |-> running[i], by |-> h, thread |-> TRUE]
      OBVIOUS
    <3>2. running' = [running EXCEPT ![i] = running[i]]
      BY <2>3 DEF Thread, ProcessTypeOK
    <3>. QED
      BY <2>3, <3>1, <3>2 DEF Thread, Traced, Ends
  <2>. QED
    BY <2>1, <2>2, <2>3
<1>2. n \in Numbers /\ r \in Record /\ n # 0 /\ born' \in 0 .. MaxProcesses
  BY <1>1, ProcessAssumption DEF ProcessTypeOK, Numbers, Record
<1>3. running'[i] = IF Ends(r) THEN 0 ELSE n
  BY <1>1 DEF ProcessTypeOK
<1>4. \A x \in Pids \ {i} : running'[x] = running[x]
  BY <1>1 DEF ProcessTypeOK
<1>5. ProcessTypeOK'
  <2>1. running' \in [Pids -> Numbers \cup {0}]
    BY <1>1, <1>2 DEF ProcessTypeOK
  <2>2. records' \in Seq(Record)
    BY <1>1, <1>2 DEF ProcessTypeOK
  <2>. QED
    BY <1>1, <1>2, <2>1, <2>2 DEF ProcessTypeOK
<1>6. Ahead'
  <2>1. CASE trace # "read"
    <3>1. records' = <<>> /\ active' = {}
      BY <1>1, <2>1 DEF Ahead
    <3>. QED
      BY <3>1 DEF Ahead
  <2>2. CASE trace = "read"
    <3>1. records' = Append(records, r) /\ records \in Seq(Record) /\ trace' = "read"
      BY <1>1, <2>2 DEF ProcessTypeOK
    <3>2. ASSUME NEW j \in 0 .. Len(records), NEW x \in Pids, NEW m \in Numbers, Upcoming(j, x, m)
          PROVE  Upcoming(j, x, m)'
      <4>1. r.pid = x /\ running[x] = m => r.of = m
        BY <1>1, <3>2 DEF Numbers
      <4>2. (r.pid = x /\ Ends(r)) \/ running'[x] = running[x] \/ running[x] # m
        <5>1. CASE x = i
          BY <1>1, <1>3, <3>2, <5>1 DEF Numbers
        <5>2. CASE x # i
          BY <1>4, <5>2
        <5>. QED
          BY <5>1, <5>2
      <4>3. j \in Nat /\ j <= Len(records)
        BY <3>1
      <4>. QED
        BY <1>2, <3>1, <3>2, <4>1, <4>2, <4>3, UpcomingAppend
    <3>3. ASSUME NEW j \in 1 .. Len(records'), records'[j].act = "start"
          PROVE  Upcoming(j, records[j].pid, records[j].of)'
      <4>1. CASE j <= Len(records)
        <5>1. j \in 1 .. Len(records) /\ records'[j] = records[j] /\ records[j] \in Record
          BY <3>1, <4>1
        <5>2. Upcoming(j, records[j].pid, records[j].of)
          BY <3>3, <5>1 DEF Ahead
        <5>3. records[j].pid \in Pids /\ records[j].of \in Numbers
          BY <5>1 DEF Record
        <5>4. j \in 0 .. Len(records)
          BY <5>1
        <5>5. PICK x \in Pids, m \in Numbers : x = records[j].pid /\ m = records[j].of
          BY <5>3
        <5>6. Upcoming(j, x, m)
          BY <5>2, <5>5
        <5>7. Upcoming(j, x, m)'
          BY <3>2, <5>4, <5>6
        <5>8. x = records'[j].pid /\ m = records'[j].of
          BY <5>1, <5>5
        <5>. QED
          BY <5>7, <5>8
      <4>2. CASE j = Len(records) + 1
        <5>1. records'[j] = r /\ Len(records') = j
          BY <3>1, <4>2
        <5>2. ~Ends(r)
          BY <3>3, <5>1 DEF Ends
        <5>3. running'[i] = n /\ records'[j].pid = i /\ records'[j].of = n
          BY <1>1, <1>3, <5>1, <5>2
        <5>. QED
          BY <5>1, <5>3 DEF Upcoming
      <4>. QED
        BY <3>1, <4>1, <4>2
    <3>4. ASSUME NEW x \in active' \ astray' PROVE (open[x] # 0 /\ Upcoming(0, x, open[x]))'
      <4>1. x \in Pids /\ open[x] # 0 /\ Upcoming(0, x, open[x]) /\ open[x] \in Numbers
        BY <1>1 DEF Ahead, ProcessTypeOK
      <4>2. 0 \in 0 .. Len(records)
        BY <3>1
      <4>3. PICK m \in Numbers : m = open[x]
        BY <4>1
      <4>4. Upcoming(0, x, m)'
        BY <3>2, <4>1, <4>2, <4>3
      <4>5. open'[x] = m
        BY <1>1, <4>3
      <4>. QED
        BY <4>1, <4>3, <4>4, <4>5
    <3>. QED
      BY <3>1, <3>3, <3>4 DEF Ahead
  <2>. QED
    BY <2>1, <2>2
<1>7. PairsAreOne'
  BY <1>1 DEF PairsAreOne
<1>. QED
  BY <1>5, <1>6, <1>7

\* The first record is taken, to be told or to be lost.
LEMMA TailInv ==
    ASSUME ProcessInv, Miss \/ TellStart \/ TellStop
    PROVE  ProcessInv'
<1>. USE DEF ProcessInv
<1>0. PICK r : r = Head(records)
  OBVIOUS
<1>1. /\ records \in Seq(Record) /\ records # <<>> /\ r \in Record /\ r = records[1]
      /\ records' = Tail(records) /\ UNCHANGED <<running, born, trace>>
      /\ Len(records) \in Nat \ {0}
  BY <1>0 DEF Miss, TellStart, TellStop, ProcessTypeOK
<1>2. r.act \in {"start", "stop"} /\ r.pid \in Pids /\ r.of \in Numbers /\ r.by \in Pids
  BY <1>1 DEF Record
<1>3. trace = "read"
  BY <1>1 DEF Ahead
<1>4. ProcessTypeOK'
  <2>1. records' \in Seq(Record)
    BY <1>1
  <2>2. CASE Miss
    BY <1>0, <1>1, <1>2, <2>1, <2>2 DEF Miss, ProcessTypeOK
  <2>3. CASE TellStart
    <3>1. PICK id \in {r.pid, r.by} :
             /\ active' = active \cup {id}
             /\ open' = open \/ open' = [open EXCEPT ![id] = r.of]
             /\ astray' = astray \/ astray' = astray \cup {id}
      BY <1>0, <2>3 DEF TellStart
    <3>2. id \in Pids /\ active' \subseteq Pids /\ astray' \subseteq active'
      BY <1>2, <3>1 DEF ProcessTypeOK
    <3>3. open' \in [Pids -> Numbers \cup {0}]
      BY <1>2, <3>1, <3>2 DEF ProcessTypeOK
    <3>. QED
      BY <1>1, <1>2, <2>1, <2>3, <3>2, <3>3 DEF ProcessTypeOK, TellStart
  <2>4. CASE TellStop
    <3>1. active' \subseteq Pids /\ astray' \subseteq active' /\ open' = [open EXCEPT ![r.pid] = 0]
      BY <1>0, <2>4 DEF TellStop, ProcessTypeOK
    <3>2. open' \in [Pids -> Numbers \cup {0}]
      BY <1>2, <3>1 DEF ProcessTypeOK
    <3>3. pair' = pair \/ pair' = <<open[r.pid], r.of, r.pid \in astray>>
      BY <1>0, <2>4 DEF TellStop, Tell
    <3>4. PICK b \in BOOLEAN : b <=> (r.pid \in astray)
      OBVIOUS
    <3>5. pair' \in ((Numbers \cup {0}) \X Numbers \X BOOLEAN) \cup {<<>>}
      <4>1. pair' = pair \/ pair' = <<open[r.pid], r.of, b>>
        BY <3>3, <3>4
      <4>2. open[r.pid] \in Numbers \cup {0}
        BY <1>2 DEF ProcessTypeOK
      <4>. QED
        BY <1>2, <4>1, <4>2 DEF ProcessTypeOK
    <3>. QED
      BY <1>1, <2>1, <3>1, <3>2, <3>5 DEF ProcessTypeOK
  <2>. QED
    BY <2>2, <2>3, <2>4
<1>5. ASSUME NEW j \in 0 .. (Len(records) - 1), NEW i \in Pids, NEW n \in Numbers, Upcoming(j + 1, i, n)
      PROVE  Upcoming(j, i, n)'
  BY <1>1, <1>5, UpcomingTail
<1>6. ASSUME NEW i \in Pids, NEW n \in Numbers, Upcoming(0, i, n), r.pid = i => ~Ends(r)
      PROVE  Upcoming(0, i, n)'
  <2>1. Upcoming(1, i, n)
    BY <1>0, <1>1, <1>6, UpcomingSkip
  <2>2. 0 \in 0 .. (Len(records) - 1) /\ 0 + 1 = 1
    BY <1>1
  <2>. QED
    BY <1>5, <2>1, <2>2
<1>7. ASSUME NEW j \in 1 .. Len(records'), records'[j].act = "start"
      PROVE  Upcoming(j, records[j].pid, records[j].of)'
  <2>1. /\ j + 1 \in 1 .. Len(records) /\ records'[j] = records[j + 1] /\ records[j + 1] \in Record
        /\ j \in 0 .. (Len(records) - 1)
    BY <1>1
  <2>2. Upcoming(j + 1, records[j + 1].pid, records[j + 1].of)
    BY <1>7, <2>1 DEF Ahead
  <2>3. PICK i \in Pids, n \in Numbers : i = records[j + 1].pid /\ n = records[j + 1].of
    BY <2>1 DEF Record
  <2>4. Upcoming(j, i, n)'
    BY <1>5, <2>1, <2>2, <2>3
  <2>5. i = records'[j].pid /\ n = records'[j].of
    BY <2>1, <2>3
  <2>. QED
    BY <2>4, <2>5
<1>8. ASSUME r.act = "start" PROVE Upcoming(0, r.pid, r.of)'
  <2>1. Upcoming(1, r.pid, r.of)
    BY <1>1, <1>8 DEF Ahead
  <2>2. 0 \in 0 .. (Len(records) - 1) /\ 0 + 1 = 1
    BY <1>1
  <2>. QED
    BY <1>2, <1>5, <2>1, <2>2
<1>9. ASSUME NEW i \in active' \ astray' PROVE (open[i] # 0 /\ Upcoming(0, i, open[i]))'
  <2>0. i \in Pids
    BY <1>4 DEF ProcessTypeOK
  <2>1. CASE Miss
    <3>1. i \in active \ astray /\ open' = open
      BY <2>1 DEF Miss
    <3>2. PICK n \in Numbers : n = open[i] /\ Upcoming(0, i, n)
      BY <2>0, <3>1 DEF Ahead, ProcessTypeOK
    <3>3. r.pid = i => ~Ends(r)
      BY <1>0, <2>1, <3>1 DEF Miss
    <3>4. Upcoming(0, i, n)'
      BY <1>6, <2>0, <3>2, <3>3
    <3>5. open'[i] = n /\ n # 0
      BY <3>1, <3>2 DEF Ahead
    <3>. QED
      BY <3>4, <3>5
  <2>2. CASE TellStart /\ i \notin active
    <3>1. r.act = "start" /\ i = r.pid /\ open' = [open EXCEPT ![i] = r.of]
      BY <1>0, <2>2 DEF TellStart
    <3>2. open'[i] = r.of /\ r.of # 0
      BY <1>2, <2>0, <3>1 DEF ProcessTypeOK, Numbers
    <3>3. Upcoming(0, i, r.of)'
      BY <1>8, <3>1
    <3>. QED
      BY <3>2, <3>3
  <2>3. CASE (TellStart /\ i \in active) \/ TellStop
    <3>1. i \in active \ astray
      BY <2>3 DEF TellStart, TellStop
    <3>2. PICK n \in Numbers : n = open[i] /\ Upcoming(0, i, n)
      BY <2>0, <3>1 DEF Ahead, ProcessTypeOK
    <3>3. r.pid = i => ~Ends(r)
      BY <1>0, <2>3 DEF TellStart, TellStop, Ends
    <3>4. Upcoming(0, i, n)'
      BY <1>6, <2>0, <3>2, <3>3
    <3>5. open'[i] = open[i]
      BY <1>0, <1>2, <2>0, <2>3, <3>1 DEF TellStart, TellStop, ProcessTypeOK
    <3>6. n # 0
      BY <3>1, <3>2 DEF Ahead
    <3>. QED
      BY <3>2, <3>4, <3>5, <3>6
  <2>. QED
    BY <2>1, <2>2, <2>3
<1>10. Ahead'
  BY <1>1, <1>3, <1>7, <1>9 DEF Ahead
<1>11. PairsAreOne'
  <2>1. CASE pair' = pair
    BY <2>1 DEF PairsAreOne
  <2>2. CASE pair' # pair
    <3>1. pair' = <<open[r.pid], r.of, r.pid \in astray>> /\ r.pid \in active
      BY <1>0, <2>2 DEF Miss, TellStart, TellStop, Tell
    <3>2. ASSUME r.pid \notin astray PROVE open[r.pid] = r.of
      <4>1. Upcoming(0, r.pid, open[r.pid])
        BY <3>1, <3>2 DEF Ahead
      <4>2. InReach(0, r.pid, 1)
        BY DEF InReach
      <4>3. 1 \in (0 + 1) .. Len(records)
        BY <1>1
      <4>. QED
        BY <1>1, <4>1, <4>2, <4>3 DEF Upcoming
    <3>3. pair'[1] = open[r.pid] /\ pair'[2] = r.of /\ (pair'[3] <=> r.pid \in astray)
      BY <3>1
    <3>. QED
      BY <3>2, <3>3 DEF PairsAreOne
  <2>. QED
    BY <2>1, <2>2
<1>. QED
  BY <1>4, <1>10, <1>11

LEMMA ProcessInitInv == ProcessInit => ProcessInv
BY ProcessAssumption
   DEF ProcessInit, ProcessInv, ProcessTypeOK, Ahead, PairsAreOne

LEMMA ProcessNextInv == ProcessInv /\ [ProcessNext]_processVars => ProcessInv'
<1>. SUFFICES ASSUME ProcessInv, [ProcessNext]_processVars PROVE ProcessInv'
  OBVIOUS
<1>1. CASE \E i, h \in Pids : \E act \in {"start", "stop"} :
                Spawn(i, h) \/ Exit(i) \/ Thread(act, i, h)
  BY <1>1, TracedInv
<1>2. CASE Miss \/ TellStart \/ TellStop
  BY <1>2, TailInv
<1>3. CASE StartTrace \/ OpenTrace
  <2>1. ProcessTypeOK'
    BY <1>3 DEF StartTrace, OpenTrace, ProcessInv, ProcessTypeOK
  <2>2. records' = <<>> /\ active' = {}
    BY <1>3 DEF StartTrace, OpenTrace, ProcessInv, Ahead
  <2>3. PairsAreOne'
    BY <1>3 DEF StartTrace, OpenTrace, ProcessInv, PairsAreOne
  <2>. QED
    BY <2>1, <2>2, <2>3 DEF ProcessInv, Ahead
<1>4. CASE EndTrace
  <2>1. ProcessTypeOK'
    BY <1>4 DEF EndTrace, ProcessInv, ProcessTypeOK
  <2>2. records' = <<>> /\ active' = {} /\ pair' = <<>>
    BY <1>4 DEF EndTrace
  <2>. QED
    BY <2>1, <2>2 DEF ProcessInv, Ahead, PairsAreOne
<1>5. CASE UNCHANGED processVars
  <2>1. ProcessTypeOK'
    BY <1>5 DEF processVars, ProcessInv, ProcessTypeOK
  <2>2. Ahead' /\ PairsAreOne'
    BY <1>5 DEF processVars, ProcessInv, Ahead, Upcoming, InReach, Ends, PairsAreOne
  <2>. QED
    BY <2>1, <2>2 DEF ProcessInv
<1>. QED
  BY <1>1, <1>2, <1>3, <1>4, <1>5 DEF ProcessNext

-----------------------------------------------------------------------------
(* Media *)

MediaShape ==
    /\ stick \in Sticks \cup {"none"}
    /\ count \in Nat
    /\ events \in Seq({"arrival", "removal"} \X Nat)
    /\ corr \in Nat
    /\ heard \in Nat
    /\ made \in Seq(Nat)
    /\ asked \in Nat
    /\ sure \in Nat

\* Volume events come in their order; that the last stick was removed is still
\* to be heard only while there is none.
InOrder ==
    /\ heard <= count
    /\ sure <= count
    /\ stick # "none" => count > 0
    /\ \A k \in 1 .. Len(events) : heard <= events[k][2] /\ events[k][2] <= count
    /\ \A j, k \in 1 .. Len(events) : j < k => events[j][2] <= events[k][2]
    /\ \A k \in 1 .. Len(events) :
          events[k][1] = "removal" /\ events[k][2] = count => stick = "none"

\* The tracker's id is the last insertion's once its arrival was handled, and
\* so is the id that the scan asked for after that.
NamesIt ==
    /\ heard = count /\ count > 0 => corr \in 1 .. Len(made) /\ made[corr] = count
    /\ scan \in {"look", "report"} /\ sure = count => asked \in 1 .. Len(made) /\ made[asked] = count

MediaInv == MediaShape /\ InOrder /\ NamesIt

LEMMA MediaInitInv == MediaInit => MediaInv
BY DEF MediaInit, MediaInv, MediaShape, InOrder, NamesIt

\* An event that is kept for the collector is the last of all.
LEMMA AnnouncedInOrder ==
    ASSUME MediaShape, NEW kind \in {"arrival", "removal"}, NEW n \in Nat, Announced(kind, n),
           \A k \in 1 .. Len(events) : events[k][2] <= n,
           \A j, k \in 1 .. Len(events) : j < k => events[j][2] <= events[k][2]
    PROVE  /\ events' \in Seq({"arrival", "removal"} \X Nat)
           /\ \A k \in 1 .. Len(events') :
                 \/ k \in 1 .. Len(events) /\ events'[k] = events[k]
                 \/ k = Len(events) + 1 /\ events'[k] = <<kind, n>>
           /\ \A j, k \in 1 .. Len(events') : j < k => events'[j][2] <= events'[k][2]
<1>1. events \in Seq({"arrival", "removal"} \X Nat) /\ Len(events) \in Nat
  BY DEF MediaShape
<1>2. CASE usb = "next"
  <2>1. events' = Append(events, <<kind, n>>)
    BY <1>2 DEF Announced
  <2>2. <<kind, n>> \in {"arrival", "removal"} \X Nat
    OBVIOUS
  <2>3. /\ events' \in Seq({"arrival", "removal"} \X Nat)
        /\ Len(events') = Len(events) + 1
        /\ \A k \in 1 .. Len(events) : events'[k] = events[k]
        /\ events'[Len(events) + 1] = <<kind, n>>
    BY <1>1, <2>1, <2>2
  <2>4. \A k \in 1 .. Len(events') :
           \/ k \in 1 .. Len(events) /\ events'[k] = events[k]
           \/ k = Len(events) + 1 /\ events'[k] = <<kind, n>>
    BY <1>1, <2>3
  <2>5. ASSUME NEW j \in 1 .. Len(events'), NEW k \in 1 .. Len(events'), j < k
        PROVE  events'[j][2] <= events'[k][2]
    <3>1. j \in 1 .. Len(events) /\ events'[j] = events[j]
      BY <1>1, <2>3, <2>5
    <3>2. CASE k \in 1 .. Len(events)
      BY <2>3, <2>5, <3>1, <3>2
    <3>3. CASE k = Len(events) + 1
      BY <2>3, <3>1, <3>3
    <3>. QED
      BY <2>4, <3>2, <3>3
  <2>. QED
    BY <2>3, <2>4, <2>5
<1>3. CASE usb # "next"
  BY <1>1, <1>3 DEF Announced
<1>. QED
  BY <1>2, <1>3

LEMMA InsertInv == ASSUME MediaInv, NEW s \in Sticks, Insert(s) PROVE MediaInv'
<1>. USE DEF MediaInv
<1>1. /\ count' = count + 1 /\ stick' = s /\ Announced("arrival", count + 1)
      /\ UNCHANGED <<corr, made, heard, asked, sure, scan>>
  BY DEF Insert, fileVars
<1>2. count \in Nat /\ count + 1 \in Nat /\ heard \in Nat /\ sure \in Nat
  BY DEF MediaShape
<1>3. \A k \in 1 .. Len(events) : /\ events[k][2] \in Nat /\ events[k][2] <= count
                                  /\ events[k][2] <= count + 1
                                  /\ heard <= events[k][2]
  BY <1>2 DEF MediaShape, InOrder
<1>4. /\ events' \in Seq({"arrival", "removal"} \X Nat)
      /\ \A k \in 1 .. Len(events') :
            \/ k \in 1 .. Len(events) /\ events'[k] = events[k]
            \/ k = Len(events) + 1 /\ events'[k] = <<"arrival", count + 1>>
      /\ \A j, k \in 1 .. Len(events') : j < k => events'[j][2] <= events'[k][2]
  BY <1>1, <1>2, <1>3, AnnouncedInOrder DEF InOrder
<1>5. MediaShape'
  BY <1>1, <1>2, <1>4 DEF MediaShape
<1>6. heard < count' /\ sure < count' /\ count' > 0
  BY <1>1, <1>2 DEF InOrder
<1>7. ASSUME NEW k \in 1 .. Len(events')
      PROVE  /\ heard' <= events'[k][2] /\ events'[k][2] <= count'
             /\ events'[k][1] = "removal" => events'[k][2] # count'
  <2>1. CASE k \in 1 .. Len(events) /\ events'[k] = events[k]
    BY <1>1, <1>2, <1>3, <2>1
  <2>2. CASE events'[k] = <<"arrival", count + 1>>
    BY <1>1, <1>2, <1>6, <2>2
  <2>. QED
    BY <1>4, <2>1, <2>2
<1>8. InOrder'
  BY <1>1, <1>2, <1>4, <1>6, <1>7 DEF InOrder
<1>9. NamesIt'
  BY <1>1, <1>2, <1>6 DEF NamesIt
<1>. QED
  BY <1>5, <1>8, <1>9

LEMMA RemoveInv == ASSUME MediaInv, Remove PROVE MediaInv'
<1>. USE DEF MediaInv
<1>1. /\ stick' = "none" /\ Announced("removal", count)
      /\ UNCHANGED <<count, corr, made, heard, asked, sure, scan>>
  BY DEF Remove, fileVars
<1>2. /\ events' \in Seq({"arrival", "removal"} \X Nat)
      /\ \A k \in 1 .. Len(events') :
            \/ k \in 1 .. Len(events) /\ events'[k] = events[k]
            \/ k = Len(events) + 1 /\ events'[k] = <<"removal", count>>
      /\ \A j, k \in 1 .. Len(events') : j < k => events'[j][2] <= events'[k][2]
  <2>1. count \in Nat
    BY DEF MediaShape
  <2>. QED
    BY <1>1, <2>1, AnnouncedInOrder DEF InOrder
<1>3. MediaShape'
  BY <1>1, <1>2 DEF MediaShape
<1>4. ASSUME NEW k \in 1 .. Len(events') PROVE heard' <= events'[k][2] /\ events'[k][2] <= count'
  <2>1. CASE k \in 1 .. Len(events) /\ events'[k] = events[k]
    BY <1>1, <2>1 DEF InOrder
  <2>2. CASE events'[k] = <<"removal", count>>
    BY <1>1, <2>2 DEF InOrder, MediaShape
  <2>. QED
    BY <1>2, <2>1, <2>2
<1>5. InOrder'
  BY <1>1, <1>2, <1>4 DEF InOrder
<1>6. NamesIt'
  BY <1>1 DEF NamesIt
<1>. QED
  BY <1>3, <1>5, <1>6

\* A handled event leaves the later ones, which are in order.
LEMMA TakenInOrder ==
    ASSUME MediaShape, InOrder, events # <<>>, events' = Tail(events)
    PROVE  /\ events' \in Seq({"arrival", "removal"} \X Nat)
           /\ Head(events) = events[1] /\ 1 \in 1 .. Len(events)
           /\ Head(events)[2] \in Nat /\ heard <= Head(events)[2] /\ Head(events)[2] <= count
           /\ \A k \in 1 .. Len(events') : /\ k + 1 \in 1 .. Len(events) /\ events'[k] = events[k + 1]
                                           /\ Head(events)[2] <= events'[k][2]
           /\ \A j, k \in 1 .. Len(events') : j < k => events'[j][2] <= events'[k][2]
<1>1. /\ events \in Seq({"arrival", "removal"} \X Nat) /\ Len(events) \in Nat \ {0}
      /\ Head(events) = events[1] /\ 1 \in 1 .. Len(events)
      /\ events' \in Seq({"arrival", "removal"} \X Nat)
      /\ Len(events') = Len(events) - 1
      /\ \A k \in 1 .. Len(events') : events'[k] = events[k + 1]
  BY DEF MediaShape
<1>2. events[1] \in {"arrival", "removal"} \X Nat
  BY <1>1
<1>3. \A k \in 1 .. Len(events') : k + 1 \in 1 .. Len(events) /\ 1 < k + 1
  BY <1>1
<1>4. \A k \in 1 .. Len(events') : Head(events)[2] <= events'[k][2]
  BY <1>1, <1>3 DEF InOrder
<1>5. ASSUME NEW j \in 1 .. Len(events'), NEW k \in 1 .. Len(events'), j < k
      PROVE  events'[j][2] <= events'[k][2]
  <2>1. j + 1 < k + 1
    BY <1>1, <1>5
  <2>. QED
    BY <1>1, <1>3, <2>1 DEF InOrder
<1>. QED
  BY <1>1, <1>2, <1>3, <1>4, <1>5 DEF InOrder

LEMMA ArrivalInv == ASSUME MediaInv, Arrival PROVE MediaInv'
<1>. USE DEF MediaInv
<1>1. /\ events # <<>> /\ events' = Tail(events)
      /\ UNCHANGED <<stick, count, asked, sure, scan>>
  BY DEF Arrival, drive, fileVars
<1>2. CASE stick = "none"
  <2>1. UNCHANGED <<corr, made, heard>>
    BY <1>2 DEF Arrival
  <2>2. MediaShape'
    BY <1>1, <2>1, TakenInOrder DEF MediaShape
  <2>3. \A k \in 1 .. Len(events') : heard' <= events'[k][2] /\ events'[k][2] <= count'
    BY <1>1, <2>1, TakenInOrder DEF InOrder
  <2>4. InOrder'
    BY <1>1, <1>2, <2>1, <2>3, TakenInOrder DEF InOrder
  <2>5. NamesIt'
    BY <1>1, <2>1 DEF NamesIt
  <2>. QED
    BY <2>2, <2>4, <2>5
<1>3. CASE stick # "none"
  <2>1. /\ made' = Append(made, count) /\ corr' = Len(made) + 1 /\ heard' = Head(events)[2]
        /\ made \in Seq(Nat) /\ Len(made) \in Nat /\ count \in Nat
    BY <1>3 DEF Arrival, OnUsbInsert, MediaShape
  <2>2. /\ made' \in Seq(Nat) /\ Len(made') = Len(made) + 1 /\ made'[Len(made) + 1] = count
        /\ \A k \in 1 .. Len(made) : made'[k] = made[k]
    BY <2>1
  <2>3. MediaShape'
    BY <1>1, <2>1, <2>2, TakenInOrder DEF MediaShape
  <2>4. \A k \in 1 .. Len(events') : heard' <= events'[k][2] /\ events'[k][2] <= count'
    BY <1>1, <2>1, TakenInOrder DEF InOrder
  <2>5. heard' <= count' /\ sure' <= count' /\ count' > 0
    BY <1>1, <1>3, <2>1, TakenInOrder DEF InOrder
  <2>6. InOrder'
    BY <1>1, <2>4, <2>5, TakenInOrder DEF InOrder
  <2>7. corr' \in 1 .. Len(made') /\ made'[corr'] = count'
    BY <1>1, <2>1, <2>2
  <2>8. asked \in 1 .. Len(made) => asked \in 1 .. Len(made') /\ made'[asked] = made[asked]
    BY <2>1, <2>2
  <2>9. NamesIt'
    BY <1>1, <2>7, <2>8 DEF NamesIt
  <2>. QED
    BY <2>3, <2>6, <2>9
<1>. QED
  BY <1>2, <1>3

\* A removal that clears the entry is one before the last stick's.
LEMMA RemovalInv == ASSUME MediaInv, Removal PROVE MediaInv'
<1>. USE DEF MediaInv
<1>1. /\ events # <<>> /\ events' = Tail(events) /\ Head(events)[1] = "removal"
      /\ corr' = IF stick = "none" THEN corr ELSE 0
      /\ UNCHANGED <<stick, count, made, heard, asked, sure, scan>>
  BY DEF Removal, drive, fileVars
<1>2. MediaShape'
  BY <1>1, TakenInOrder DEF MediaShape
<1>3. \A k \in 1 .. Len(events') : heard' <= events'[k][2] /\ events'[k][2] <= count'
  BY <1>1, TakenInOrder DEF InOrder
<1>4. InOrder'
  BY <1>1, <1>3, TakenInOrder DEF InOrder
<1>5. stick # "none" => heard # count
  <2>1. stick # "none" => Head(events)[2] # count
    BY <1>1, TakenInOrder DEF InOrder
  <2>. QED
    BY <2>1, <1>1, TakenInOrder DEF MediaShape
<1>6. NamesIt'
  BY <1>1, <1>5 DEF NamesIt
<1>. QED
  BY <1>2, <1>4, <1>6

\* The scan.
LEMMA ScanInv ==
    ASSUME MediaInv, Ask \/ Report \/ Rest \/ \E p \in Paths : Look(p)
    PROVE  MediaInv'
<1>. USE DEF MediaInv
<1>1. UNCHANGED <<stick, count, events, corr, heard, made>>
  BY DEF Ask, Report, Rest, Look, drive, usbVars
<1>2. \/ asked' = corr /\ sure' = heard /\ stick # "none"
      \/ asked' = asked /\ sure' = sure /\ scan \in {"look", "report"}
      \/ asked' = 0 /\ sure' = 0 /\ scan' = "rest"
  BY DEF Ask, Report, Rest, Look
<1>3. MediaShape'
  <2>1. asked' \in Nat /\ sure' \in Nat
    BY <1>2 DEF MediaShape
  <2>. QED
    BY <1>1, <2>1 DEF MediaShape
<1>4. sure' <= count
  BY <1>2 DEF MediaShape, InOrder
<1>5. InOrder'
  BY <1>1, <1>4 DEF InOrder
<1>6. NamesIt'
  <2>1. CASE asked' = corr /\ sure' = heard /\ stick # "none"
    BY <1>1, <2>1 DEF NamesIt, InOrder
  <2>2. CASE asked' = asked /\ sure' = sure /\ scan \in {"look", "report"}
    BY <1>1, <2>2 DEF NamesIt
  <2>3. CASE scan' = "rest"
    BY <1>1, <2>3 DEF NamesIt
  <2>. QED
    BY <1>2, <2>1, <2>2, <2>3
<1>. QED
  BY <1>3, <1>5, <1>6

LEMMA MediaNextInv == MediaInv /\ [MediaNext]_mediaVars => MediaInv'
<1>. SUFFICES ASSUME MediaInv, [MediaNext]_mediaVars PROVE MediaInv'
  OBVIOUS
<1>1. CASE \E s \in Sticks : Insert(s)
  BY <1>1, InsertInv
<1>2. CASE Remove \/ Arrival \/ Removal
  BY <1>2, RemoveInv, ArrivalInv, RemovalInv
<1>3. CASE Ask \/ Report \/ Rest \/ \E p \in Paths : Look(p)
  BY <1>3, ScanInv
<1>4. CASE \/ \E s \in Sticks, p \in Paths : Store(s, p)
           \/ Subscribe \/ Schedule \/ Take \/ Collect \/ StopMedia \/ UNCHANGED mediaVars
  <2>1. UNCHANGED <<stick, count, events, corr, heard, made, asked, sure, scan>>
    BY <1>4 DEF Store, Subscribe, Schedule, Take, Collect, StopMedia,
                mediaVars, drive, usbVars, fileVars, deepVars
  <2>. QED
    BY <2>1 DEF MediaInv, MediaShape, InOrder, NamesIt
<1>5. CASE Deafen
  <2>1. events' = <<>> /\ UNCHANGED <<stick, count, corr, heard, made, asked, sure, scan>>
    BY <1>5 DEF Deafen, drive, fileVars
  <2>. QED
    BY <2>1 DEF MediaInv, MediaShape, InOrder, NamesIt
<1>6. CASE StartMedia
  <2>1. scan' = "rest" /\ UNCHANGED <<stick, count, events, corr, heard, made, asked, sure>>
    BY <1>6 DEF StartMedia, drive
  <2>. QED
    BY <2>1 DEF MediaInv, MediaShape, InOrder, NamesIt
<1>7. CASE Joined \/ DieMedia
  <2>1. /\ corr' = 0 /\ heard' = 0 /\ events' = <<>> /\ scan' = "off" /\ asked' = 0 /\ sure' = 0
        /\ UNCHANGED <<stick, count, made>>
    BY <1>7 DEF Joined, DieMedia, Gone, drive
  <2>2. MediaShape'
    BY <2>1 DEF MediaInv, MediaShape
  <2>3. InOrder'
    BY <2>1 DEF MediaInv, MediaShape, InOrder
  <2>4. NamesIt'
    BY <2>1 DEF MediaInv, MediaShape, NamesIt
  <2>. QED
    BY <2>2, <2>3, <2>4 DEF MediaInv
<1>. QED
  BY <1>1, <1>2, <1>3, <1>4, <1>5, <1>6, <1>7 DEF MediaNext

LEMMA MediaInvNames == MediaInv => FileNamesItsStick
BY DEF MediaInv, MediaShape, NamesIt, FileNamesItsStick

\* Insertions are announced once, in their order, and no more ids are given
\* than there were arrivals.
Numbered ==
    /\ Len(made) <= count
    /\ \A k \in 1 .. Len(events) : events[k][1] = "arrival" => Len(made) < events[k][2]
    /\ \A j, k \in 1 .. Len(events) :
          j < k /\ events[j][1] = "arrival" /\ events[k][1] = "arrival" => events[j][2] < events[k][2]

MediaTyped == MediaTypeOK /\ Numbered

LEMMA MediaInitTyped == MediaInit => MediaTyped
<1>. SUFFICES ASSUME MediaInit PROVE MediaTyped
  OBVIOUS
<1>1. /\ content \in [Sticks -> SUBSET Paths] /\ baseline \in BOOLEAN
      /\ events = <<>> /\ queue = <<>> /\ packing = <<>> /\ made = <<>>
  BY DEF MediaInit
<1>. QED
  BY <1>1, MediaAssumption DEF MediaInit, MediaTyped, MediaTypeOK, Numbered

\* An insertion or a removal adds an event at most.
LEMMA AnnouncedTyped ==
    ASSUME MediaInv, MediaTyped, NEW kind \in {"arrival", "removal"}, NEW n \in 1 .. MaxInsertions,
           Announced(kind, n), count <= n, kind = "arrival" => count < n
    PROVE  /\ events' \in Seq({"arrival", "removal"} \X (1 .. MaxInsertions))
           /\ \A k \in 1 .. Len(events') : events'[k][1] = "arrival" => Len(made) < events'[k][2]
           /\ \A j, k \in 1 .. Len(events') :
                 j < k /\ events'[j][1] = "arrival" /\ events'[k][1] = "arrival" =>
                     events'[j][2] < events'[k][2]
<1>1. PICK L : L = Len(events)
  OBVIOUS
<1>2. /\ events \in Seq({"arrival", "removal"} \X (1 .. MaxInsertions)) /\ L \in Nat
      /\ Len(made) \in Nat /\ count \in Nat /\ Len(made) <= count /\ MaxInsertions \in Nat
      /\ \A k \in 1 .. L : events[k] \in {"arrival", "removal"} \X (1 .. MaxInsertions)
  BY <1>1, MediaAssumption DEF MediaTyped, MediaTypeOK, Numbered
<1>3. CASE usb = "next"
  <2>1. PICK e : e = <<kind, n>>
    OBVIOUS
  <2>2. e \in {"arrival", "removal"} \X (1 .. MaxInsertions) /\ e[1] = kind /\ e[2] = n
    BY <2>1
  <2>3. events' = Append(events, e)
    BY <1>3, <2>1 DEF Announced
  <2>4. /\ events' \in Seq({"arrival", "removal"} \X (1 .. MaxInsertions))
        /\ Len(events') = L + 1 /\ events'[L + 1] = e
        /\ \A k \in 1 .. L : events'[k] = events[k]
        /\ \A k \in 1 .. L + 1 : k \in 1 .. L \/ k = L + 1
    BY <1>1, <1>2, <2>2, <2>3
  <2>5. \A k \in 1 .. L : events[k][2] \in Nat /\ events[k][2] <= count
    BY <1>1, <1>2 DEF MediaInv, InOrder
  <2>6. ASSUME NEW k \in 1 .. L + 1, events'[k][1] = "arrival" PROVE Len(made) < events'[k][2]
    <3>1. CASE k \in 1 .. L
      BY <1>1, <2>4, <2>6, <3>1 DEF MediaTyped, Numbered
    <3>2. CASE k = L + 1
      BY <1>2, <2>2, <2>4, <2>6, <3>2
    <3>. QED
      BY <2>4, <3>1, <3>2
  <2>7. ASSUME NEW j \in 1 .. L + 1, NEW k \in 1 .. L + 1, j < k,
               events'[j][1] = "arrival", events'[k][1] = "arrival"
        PROVE  events'[j][2] < events'[k][2]
    <3>1. j \in 1 .. L
      BY <1>2, <2>7
    <3>2. CASE k \in 1 .. L
      BY <1>1, <2>4, <2>7, <3>1, <3>2 DEF MediaTyped, Numbered
    <3>3. CASE k = L + 1
      <4>1. events[j][2] \in Nat /\ events[j][2] <= count /\ count < n
        BY <2>2, <2>4, <2>5, <2>7, <3>1, <3>3
      <4>. QED
        BY <1>2, <2>2, <2>4, <3>1, <3>3, <4>1
    <3>. QED
      BY <2>4, <3>2, <3>3
  <2>. QED
    BY <2>4, <2>6, <2>7
<1>4. CASE usb # "next"
  BY <1>4 DEF Announced, MediaTyped, MediaTypeOK, Numbered
<1>. QED
  BY <1>3, <1>4

LEMMA DriveTyped ==
    ASSUME MediaInv, MediaTyped,
           Remove \/ \E s \in Sticks : Insert(s) \/ \E p \in Paths : Store(s, p)
    PROVE  MediaTyped'
<1>. USE DEF MediaTyped
<1>1. ASSUME NEW s \in Sticks, Insert(s) PROVE MediaTyped'
  <2>1. /\ count' = count + 1 /\ count < MaxInsertions /\ stick' = s /\ Announced("arrival", count + 1)
        /\ UNCHANGED <<content, service, usb, corr, made, heard, fileVars, deepVars>>
    BY <1>1 DEF Insert
  <2>2. count + 1 \in 1 .. MaxInsertions /\ count < count + 1 /\ count <= count + 1 /\ count \in Nat
    BY <2>1, MediaAssumption DEF MediaTypeOK
  <2>3. MediaTypeOK'
    BY <2>1, <2>2, AnnouncedTyped DEF MediaTypeOK, fileVars, deepVars
  <2>4. Numbered'
    <3>1. Len(made) <= count + 1
      BY <2>2 DEF MediaTypeOK, Numbered
    <3>. QED
      BY <2>1, <2>2, <3>1, AnnouncedTyped DEF Numbered
  <2>. QED
    BY <2>3, <2>4
<1>2. CASE Remove
  <2>1. /\ stick' = "none" /\ Announced("removal", count) /\ stick # "none"
        /\ UNCHANGED <<count, content, service, usb, corr, made, heard, fileVars, deepVars>>
    BY <1>2 DEF Remove
  <2>2. count \in 1 .. MaxInsertions /\ count <= count
    BY <2>1 DEF MediaTypeOK, MediaInv, InOrder
  <2>3. MediaTypeOK'
    BY <2>1, <2>2, AnnouncedTyped DEF MediaTypeOK, fileVars, deepVars
  <2>4. Numbered'
    BY <2>1, <2>2, AnnouncedTyped DEF Numbered
  <2>. QED
    BY <2>3, <2>4
<1>3. ASSUME NEW s \in Sticks, NEW p \in Paths, Store(s, p) PROVE MediaTyped'
  <2>1. /\ content' \in [Sticks -> SUBSET Paths]
        /\ UNCHANGED <<stick, count, service, usbVars, fileVars, deepVars>>
    BY <1>3 DEF Store, MediaTypeOK
  <2>. QED
    BY <2>1 DEF MediaTypeOK, Numbered, usbVars, fileVars, deepVars
<1>. QED
  BY <1>1, <1>2, <1>3

\* A handled event is one arrival less to come, and one id more at most.
LEMMA EventTyped ==
    ASSUME MediaInv, MediaTyped, Arrival \/ Removal
    PROVE  MediaTyped'
<1>. USE DEF MediaTyped
<1>1. /\ events # <<>> /\ events' = Tail(events)
      /\ UNCHANGED <<stick, count, content, service, usb, fileVars, packing, packed>>
  BY DEF Arrival, Removal, drive, deepVars
<1>2. PICK L, h : L = Len(events) /\ h = events[1]
  OBVIOUS
<1>3. /\ events \in Seq({"arrival", "removal"} \X (1 .. MaxInsertions)) /\ L \in Nat \ {0}
      /\ h \in {"arrival", "removal"} \X (1 .. MaxInsertions) /\ h = Head(events)
      /\ events' \in Seq({"arrival", "removal"} \X (1 .. MaxInsertions))
      /\ Len(events') = L - 1 /\ \A k \in 1 .. L - 1 : events'[k] = events[k + 1]
  BY <1>1, <1>2 DEF MediaTypeOK
<1>4. /\ 1 \in 1 .. L /\ \A k \in 1 .. L - 1 : k + 1 \in 1 .. L /\ 1 < k + 1
      /\ \A j, k \in 1 .. L - 1 : j < k => j + 1 < k + 1
  BY <1>3
<1>5. /\ \A k \in 1 .. Len(events') : events'[k][1] = "arrival" =>
             Len(made) < events'[k][2] /\ (h[1] = "arrival" => h[2] < events'[k][2])
      /\ \A j, k \in 1 .. Len(events') :
            j < k /\ events'[j][1] = "arrival" /\ events'[k][1] = "arrival" => events'[j][2] < events'[k][2]
  <2>1. ASSUME NEW k \in 1 .. L - 1, events'[k][1] = "arrival"
        PROVE  Len(made) < events'[k][2] /\ (h[1] = "arrival" => h[2] < events'[k][2])
    <3>1. k + 1 \in 1 .. L /\ 1 < k + 1 /\ events'[k] = events[k + 1] /\ 1 \in 1 .. L
      BY <1>3, <1>4
    <3>2. PICK m : m = k + 1
      OBVIOUS
    <3>3. m \in 1 .. Len(events) /\ 1 \in 1 .. Len(events) /\ 1 < m /\ events'[k] = events[m]
      BY <1>2, <3>1, <3>2
    <3>. QED
      BY <1>2, <2>1, <3>3 DEF Numbered
  <2>2. ASSUME NEW j \in 1 .. L - 1, NEW k \in 1 .. L - 1, j < k,
               events'[j][1] = "arrival", events'[k][1] = "arrival"
        PROVE  events'[j][2] < events'[k][2]
    <3>1. PICK i, m : i = j + 1 /\ m = k + 1
      OBVIOUS
    <3>2. i \in 1 .. L /\ m \in 1 .. L /\ i < m
      BY <1>4, <2>2, <3>1
    <3>3. events'[j] = events[i] /\ events'[k] = events[m]
      BY <1>3, <3>1
    <3>. QED
      BY <1>2, <2>2, <3>2, <3>3 DEF Numbered
  <2>. QED
    BY <1>3, <2>1, <2>2
<1>6. h[2] <= count /\ h[2] \in Nat /\ count \in Nat /\ count <= MaxInsertions /\ Len(made) \in Nat
      /\ MaxInsertions \in Nat
  BY <1>2, <1>3, <1>4, MediaAssumption DEF MediaInv, InOrder, MediaTypeOK
<1>7. CASE UNCHANGED <<made, heard, queue>> /\ corr' \in {corr, 0}
  BY <1>1, <1>3, <1>5, <1>7 DEF MediaTypeOK, Numbered, fileVars
<1>8. CASE Arrival /\ stick # "none"
  <2>1. PICK id : id = Len(made) + 1
    OBVIOUS
  <2>2. /\ made' = Append(made, count) /\ corr' = id /\ queue' = Append(queue, id) /\ heard' = h[2]
        /\ h[1] = "arrival"
    BY <1>3, <1>8, <2>1 DEF Arrival, OnUsbInsert, TriggerUsb
  <2>3. Len(made) < h[2]
    BY <1>2, <1>4, <2>2 DEF Numbered
  <2>4. id \in Ids /\ id <= h[2] /\ id <= count /\ id <= MaxInsertions
    BY <1>6, <2>1, <2>3 DEF Ids
  <2>5. /\ made' \in Seq(1 .. MaxInsertions) /\ Len(made') = id
        /\ queue' \in Seq(Ids \cup {0})
    <3>1. count \in 1 .. MaxInsertions
      BY <1>8 DEF MediaInv, InOrder, MediaTypeOK
    <3>. QED
      BY <2>1, <2>2, <2>4, <3>1 DEF MediaTypeOK
  <2>6. heard' \in 0 .. MaxInsertions
    BY <1>6, <2>2
  <2>7. MediaTypeOK'
    BY <1>1, <1>3, <2>2, <2>4, <2>5, <2>6 DEF MediaTypeOK, fileVars
  <2>8. Numbered'
    <3>1. ASSUME NEW k \in 1 .. Len(events'), events'[k][1] = "arrival" PROVE id < events'[k][2]
      <4>1. h[2] < events'[k][2]
        BY <1>5, <2>2, <3>1
      <4>3. PICK m : m = MaxInsertions
        OBVIOUS
      <4>4. events' \in Seq({"arrival", "removal"} \X (1 .. m)) /\ m \in Nat
        BY <1>3, <1>6, <4>3
      <4>5. events'[k] \in {"arrival", "removal"} \X (1 .. m)
        BY <3>1, <4>4
      <4>6. events'[k][2] \in Nat
        BY <4>4, <4>5
      <4>2. id \in Nat
        BY <2>4, <1>6, <2>1
      <4>. QED
        BY <1>6, <2>4, <4>1, <4>2, <4>6
    <3>. QED
      BY <1>1, <1>5, <2>4, <2>5, <3>1 DEF Numbered
  <2>. QED
    BY <2>7, <2>8
<1>. QED
  BY <1>7, <1>8 DEF Arrival, Removal, deepVars

LEMMA MediaNextTyped == MediaInv /\ MediaTyped /\ [MediaNext]_mediaVars => MediaTyped'
<1>. SUFFICES ASSUME MediaInv, MediaTyped, [MediaNext]_mediaVars PROVE MediaTyped'
  OBVIOUS
<1>. USE DEF MediaTyped
<1>1. ASSUME UNCHANGED <<count, made>>, UNCHANGED events \/ events' = <<>> PROVE Numbered'
  BY <1>1 DEF Numbered
<1>2. CASE Subscribe \/ Deafen \/ StartMedia \/ StopMedia \/ UNCHANGED mediaVars
  <2>1. MediaTypeOK'
    <3>. USE DEF drive, usbVars, fileVars, deepVars
    <3>1. CASE Subscribe
      BY <3>1 DEF Subscribe, MediaTypeOK
    <3>2. CASE Deafen
      <4>1. events' = <<>> /\ <<>> \in Seq({"arrival", "removal"} \X (1 .. MaxInsertions))
        BY <3>2 DEF Deafen
      <4>. QED
        BY <3>2, <4>1 DEF Deafen, MediaTypeOK
    <3>3. CASE StartMedia
      BY <3>3 DEF StartMedia, MediaTypeOK
    <3>4. CASE StopMedia
      BY <3>4 DEF StopMedia, MediaTypeOK
    <3>5. CASE UNCHANGED mediaVars
      BY <3>5 DEF mediaVars, MediaTypeOK
    <3>. QED
      BY <1>2, <3>1, <3>2, <3>3, <3>4, <3>5
  <2>2. Numbered'
    BY <1>1, <1>2 DEF Subscribe, Deafen, StartMedia, StopMedia, mediaVars, drive, usbVars
  <2>. QED
    BY <2>1, <2>2
<1>3. CASE Ask \/ Report \/ Rest \/ \E p \in Paths : Look(p)
  <2>1. UNCHANGED <<drive, service, usbVars, deepVars>>
    BY <1>3 DEF Ask, Report, Rest, Look
  <2>2. MediaTypeOK'
    <3>. USE DEF drive, usbVars, deepVars
    <3>1. CASE Ask
      BY <2>1, <3>1 DEF Ask, MediaTypeOK
    <3>2. CASE Report
      <4>1. told' \subseteq Paths
        BY <3>2 DEF Report, Here, MediaTypeOK, MediaInv
      <4>. QED
        BY <2>1, <3>2, <4>1 DEF Report, MediaTypeOK
    <3>3. CASE Rest
      <4>1. /\ scan' = "rest" /\ baseline' = TRUE /\ asked' = 0 /\ sure' = 0 /\ left' = {}
            /\ UNCHANGED <<found, known, told>>
        BY <3>3 DEF Rest
      <4>2. sure' \in 0 .. MaxInsertions
        BY <4>1, MediaAssumption
      <4>. QED
        BY <2>1, <4>1, <4>2 DEF MediaTypeOK
    <3>4. ASSUME NEW p \in Paths, Look(p) PROVE MediaTypeOK'
      BY <2>1, <3>4 DEF Look, MediaTypeOK
    <3>. QED
      BY <1>3, <3>1, <3>2, <3>3, <3>4
  <2>. QED
    BY <1>1, <2>1, <2>2 DEF drive, usbVars
<1>4. CASE Schedule \/ Take \/ Collect
  <2>1. UNCHANGED <<drive, service, usbVars, fileVars>>
    BY <1>4 DEF Schedule, Take, Collect
  <2>2. /\ queue' \in Seq(Ids \cup {0}) /\ packing' \in Seq(Ids \cup {0}) /\ Len(packing') <= 1
        /\ packed' \subseteq Ids
    <3>1. CASE Schedule
      BY <3>1 DEF Schedule, MediaTypeOK
    <3>2. CASE Take
      <4>1. Head(queue) \in Ids \cup {0} /\ Tail(queue) \in Seq(Ids \cup {0})
        BY <3>2 DEF Take, MediaTypeOK
      <4>. QED
        BY <3>2, <4>1 DEF Take, MediaTypeOK
    <3>3. CASE Collect
      <4>1. packing[1] \in Ids \cup {0}
        BY <3>3 DEF Collect, MediaTypeOK
      <4>. QED
        BY <3>3, <4>1 DEF Collect, MediaTypeOK
    <3>. QED
      BY <1>4, <3>1, <3>2, <3>3
  <2>3. MediaTypeOK'
    BY <2>1, <2>2 DEF drive, usbVars, fileVars, MediaTypeOK
  <2>. QED
    BY <1>1, <2>1, <2>3 DEF drive, usbVars
<1>5. CASE Joined \/ DieMedia
  <2>1. Gone
    BY <1>5 DEF Joined, DieMedia
  <2>2. /\ events' = <<>> /\ queue' = <<>> /\ packing' = <<>>
        /\ UNCHANGED <<stick, count, content, made, packed>>
        /\ service' = "off" /\ usb' = "off" /\ scan' = "off" /\ found' = "none" /\ baseline' = FALSE
        /\ corr' = 0 /\ heard' = 0 /\ asked' = 0 /\ sure' = 0
        /\ left' = {} /\ known' = {} /\ told' = {}
    BY <2>1 DEF Gone, drive
  <2>3. <<>> \in Seq({"arrival", "removal"} \X (1 .. MaxInsertions)) /\ <<>> \in Seq(Ids \cup {0})
        /\ Len(<<>>) <= 1
    OBVIOUS
  <2>4. 0 \in 0 .. MaxInsertions /\ {} \subseteq Paths
    BY MediaAssumption
  <2>5. MediaTypeOK'
    BY <2>2, <2>3, <2>4 DEF MediaTypeOK
  <2>. QED
    BY <1>1, <2>2, <2>5
<1>. QED
  BY <1>2, <1>3, <1>4, <1>5, DriveTyped, EventTyped DEF MediaNext

-----------------------------------------------------------------------------
(* Pollers *)

\* What is parsed of a text is a configuration.
LEMMA ParsedType == ASSUME NEW t \in Text PROVE Parsed(t) \in Config
<1>0. Ram \in Profiles
  BY PollerAssumption
<1>1. ProfileOf(t.profile) \in Profiles
  BY <1>0 DEF ProfileOf, Profiles
<1>2. PICK c \in Config : c = [t EXCEPT !.profile = ProfileOf(t.profile)]
  BY <1>1 DEF Text, Config
<1>3. Applied(c) \in Config
  BY DEF Applied, Config, Profiles
<1>. QED
  BY <1>2, <1>3 DEF Parsed

\* The byte that takes the place of the lower one leaves a port a port.
LEMMA PortType ==
    ASSUME NEW p \in Word \ {0}, NEW above \in 0 .. 255
    PROVE  ExtractPort(p, above) \in Word
<1>1. PICK q : q = p \div 256
  OBVIOUS
<1>2. p \in Nat /\ p <= 256 * 256 - 1
  BY DEF Word
<1>3. q \in Nat /\ q <= 255
  BY <1>1, <1>2, Z3
<1>4. above \in Nat /\ above <= 255
  OBVIOUS
<1>5. PICK r : r = q * 256 + above
  OBVIOUS
<1>6. r \in Nat /\ r <= 256 * 256 - 1
  BY <1>3, <1>4, <1>5
<1>7. r \in Word
  <2>1. \A top \in Nat : r <= top => r \in 0 .. top
    BY <1>6
  <2>2. 256 * 256 - 1 \in Nat
    OBVIOUS
  <2>3. r \in 0 .. 256 * 256 - 1
    BY <1>6, <2>1, <2>2, Zenon
  <2>. QED
    BY <2>3, Zenon DEF Word
<1>8. ExtractPort(p, above) = r
  BY <1>1, <1>5 DEF ExtractPort
<1>. QED
  BY <1>7, <1>8

LEMMA TextTypes == /\ Missing \in Text /\ Default \in Config
                   /\ \A t \in Text : Beginning(t) \in Text
BY DEF Missing, Default, Beginning, Text, Config, Profiles

LEMMA StartType ==
    ASSUME NEW c \in Config
    PROVE  AtStart(c) \in [process : BOOLEAN, network : BOOLEAN, mb : Nat]
BY DEF AtStart, Config

LEMMA PollerInitTyped == PollerInit => PollerTypeOK
<1>. SUFFICES ASSUME PollerInit PROVE PollerTypeOK
  OBVIOUS
<1>1. text \in Text
  BY TextTypes, PollerAssumption DEF PollerInit
<1>2. /\ config \in Config
      /\ begun \in [process : BOOLEAN, network : BOOLEAN, mb : Nat]
  BY TextTypes, StartType DEF PollerInit
<1>. QED
  BY <1>1, <1>2 DEF PollerInit, PollerTypeOK

LEMMA PollerNextTyped == PollerTypeOK /\ [PollerNext]_pollerVars => PollerTypeOK'
<1>. SUFFICES ASSUME PollerTypeOK, [PollerNext]_pollerVars PROVE PollerTypeOK'
  OBVIOUS
<1>. USE DEF PollerTypeOK, configVars, aclVars, valueVars, portVars
<1>1. CASE Truncate \/ CheckTime \/ Restart
  BY <1>1, TextTypes DEF Truncate, CheckTime, Restart
<1>2. ASSUME NEW t \in Texts, WriteText(t) PROVE PollerTypeOK'
  <2>1. text' \in Text /\ whole' \in BOOLEAN
    BY <1>2, TextTypes, PollerAssumption DEF WriteText
  <2>. QED
    BY <1>2, <2>1 DEF WriteText
<1>3. CASE ReadText \/ ReadNothing
  <2>1. config' \in Config /\ reading' \in {"no"}
    BY <1>3, ParsedType DEF ReadText, ReadNothing, Loaded
  <2>2. begun' \in [process : BOOLEAN, network : BOOLEAN, mb : Nat]
    <3>1. begun' = begun \/ begun' = AtStart(config')
      BY <1>3 DEF ReadText, ReadNothing, Loaded
    <3>2. AtStart(config') \in [process : BOOLEAN, network : BOOLEAN, mb : Nat]
      BY <2>1, StartType
    <3>. QED
      BY <3>1, <3>2
  <2>. QED
    BY <1>3, <2>1, <2>2 DEF ReadText, ReadNothing
<1>4. CASE GuardNext
  <2>1. kept' \subseteq Places /\ reported' \in BOOLEAN /\ UNCHANGED <<configVars, valueVars, portVars>>
    BY <1>4 DEF GuardNext, Verify, Apply, Tamper
  <2>. QED
    BY <2>1
<1>5. CASE ValueNext
  BY <1>5 DEF ValueNext, Sample, Change, Differs
<1>6. CASE PortNext
  <2>1. port' \in Ports \cup {0} /\ UNCHANGED <<configVars, aclVars, valueVars>>
    BY <1>6 DEF PortNext, Connect, Snapshot
  <2>2. ASSUME NEW above \in Junk, Snapshot(above)
        PROVE  shown' \in Ports \X Word
    <3>1. port \in Ports /\ port \in Word \ {0} /\ above \in 0 .. 255
      BY <2>2, PollerAssumption DEF Snapshot
    <3>. QED
      BY <2>2, <3>1, PortType DEF Snapshot
  <2>3. shown' = shown \/ shown' \in Ports \X Word
    BY <1>6, <2>2 DEF PortNext, Connect
  <2>. QED
    BY <2>1, <2>3
<1>7. CASE UNCHANGED pollerVars
  BY <1>7 DEF pollerVars
<1>. QED
  BY <1>1, <1>2, <1>3, <1>4, <1>5, <1>6, <1>7 DEF PollerNext, ConfigNext

-----------------------------------------------------------------------------
(* SessionNotices *)

\* What is the last lock or unlock in the window is the last there was; when
\* there is none in it, an event was written for that.
Owed ==
    /\ \A i \in 1 .. Len(inbox) :
          inbox[i] \in Locks /\ (\A j \in 1 .. Len(inbox) : i < j => inbox[j] \notin Locks)
              => inbox[i] = announced
    /\ (\A i \in 1 .. Len(inbox) : inbox[i] \notin Locks) => noticed = announced

\* A thread that waits for what is new has left nothing old.
Awake == notifier = "wait" /\ ~fresh => inbox = <<>>

NoticeInv == NoticeTypeOK /\ Owed /\ Awake

\* A window that has no messages yet.
LEMMA EmptyWindow ==
    ASSUME inbox' = <<>>, fresh' = FALSE, announced' = "none", noticed' = "none",
           notifier' = "register"
    PROVE  NoticeInv'
<1>1. inbox' \in Seq(Notices) /\ Len(inbox') = 0
  OBVIOUS
<1>2. fresh' \in BOOLEAN
  OBVIOUS
<1>3. NoticeTypeOK'
  BY <1>1, <1>2, NoticeAssumption DEF NoticeTypeOK
<1>. QED
  BY <1>1, <1>3 DEF NoticeInv, Owed, Awake

LEMMA NoticeInitInv == NoticeInit => NoticeInv
<1>. SUFFICES ASSUME NoticeInit PROVE NoticeInv
  OBVIOUS
<1>1. inbox \in Seq(Notices) /\ Len(inbox) = 0
  BY DEF NoticeInit
<1>2. fresh \in BOOLEAN
  BY DEF NoticeInit
<1>3. NoticeTypeOK
  BY <1>1, <1>2, NoticeAssumption DEF NoticeInit, NoticeTypeOK
<1>. QED
  BY <1>1, <1>3 DEF NoticeInit, NoticeInv, Owed, Awake

LEMMA PostInv ==
    ASSUME NoticeInv, NEW m \in Notices, PostNotice(m)
    PROVE  NoticeInv'
<1>. USE DEF NoticeInv
<1>1. PICK L : L = Len(inbox)
  OBVIOUS
<1>2. /\ inbox' = Append(inbox, m) /\ fresh' = TRUE /\ L < MaxNotices
      /\ announced' = IF m \in Locks THEN m ELSE announced
      /\ UNCHANGED <<notifier, noticed>>
  BY <1>1 DEF PostNotice
<1>3. /\ inbox \in Seq(Notices) /\ L \in Nat
      /\ inbox' \in Seq(Notices) /\ Len(inbox') = L + 1 /\ inbox'[L + 1] = m
      /\ \A i \in 1 .. L : inbox'[i] = inbox[i]
  BY <1>1, <1>2 DEF NoticeTypeOK
<1>4. NoticeTypeOK'
  BY <1>2, <1>3, NoticeAssumption DEF NoticeTypeOK
<1>5. Owed'
  <2>1. CASE m \in Locks
    BY <1>2, <1>3, <2>1 DEF Owed
  <2>2. CASE m \notin Locks
    <3>1. announced' = announced /\ noticed' = noticed
      BY <1>2, <2>2
    <3>2. ASSUME NEW i \in 1 .. L + 1, inbox'[i] \in Locks,
                 \A j \in 1 .. L + 1 : i < j => inbox'[j] \notin Locks
          PROVE  inbox'[i] = announced
      <4>1. i \in 1 .. L
        BY <1>3, <2>2, <3>2
      <4>2. \A j \in 1 .. L : i < j => inbox[j] \notin Locks
        BY <1>3, <3>2
      <4>. QED
        BY <1>1, <1>3, <3>2, <4>1, <4>2 DEF Owed
    <3>3. (\A i \in 1 .. L + 1 : inbox'[i] \notin Locks) => noticed = announced
      BY <1>1, <1>3 DEF Owed
    <3>. QED
      BY <1>3, <3>1, <3>2, <3>3 DEF Owed
  <2>. QED
    BY <2>1, <2>2
<1>. QED
  BY <1>2, <1>4, <1>5 DEF Awake

LEMMA DispatchInv == ASSUME NoticeInv, Dispatch PROVE NoticeInv'
<1>. USE DEF NoticeInv
<1>1. PICK L, h : L = Len(inbox) /\ h = inbox[1]
  OBVIOUS
<1>2. /\ inbox # <<>> /\ inbox' = Tail(inbox) /\ fresh' = FALSE /\ notifier = "peek"
      /\ UNCHANGED <<notifier, announced>> /\ OnWtsSessionChange(Head(inbox))
  BY DEF Dispatch
<1>3. /\ inbox \in Seq(Notices) /\ L \in Nat \ {0} /\ h \in Notices /\ h = Head(inbox)
      /\ inbox' \in Seq(Notices) /\ Len(inbox') = L - 1
      /\ \A i \in 1 .. L - 1 : inbox'[i] = inbox[i + 1]
  BY <1>1, <1>2 DEF NoticeTypeOK
<1>4. noticed' = IF h \in Locks THEN h ELSE noticed
  BY <1>2, <1>3 DEF OnWtsSessionChange, EmitSessionEvent
<1>5. NoticeTypeOK'
  <2>1. fresh' \in BOOLEAN
    BY <1>2
  <2>2. L - 1 <= MaxNotices
    BY <1>1, <1>3, NoticeAssumption DEF NoticeTypeOK
  <2>3. noticed' \in Locks \cup {"none"}
    BY <1>4 DEF NoticeTypeOK
  <2>. QED
    BY <1>2, <1>3, <2>1, <2>2, <2>3 DEF NoticeTypeOK
<1>6. ASSUME NEW i \in 1 .. L - 1, inbox'[i] \in Locks,
             \A j \in 1 .. L - 1 : i < j => inbox'[j] \notin Locks
      PROVE  inbox'[i] = announced
  <2>1. PICK k : k = i + 1
    OBVIOUS
  <2>2. k \in 1 .. L /\ inbox[k] = inbox'[i]
    BY <1>3, <2>1
  <2>3. ASSUME NEW j \in 1 .. L, k < j PROVE inbox[j] \notin Locks
    <3>1. PICK g : g = j - 1
      OBVIOUS
    <3>2. g \in 1 .. L - 1 /\ i < g /\ j = g + 1
      BY <1>3, <2>1, <2>3, <3>1
    <3>. QED
      BY <1>3, <1>6, <3>2
  <2>. QED
    BY <1>1, <1>6, <2>2, <2>3 DEF Owed
<1>7. ASSUME \A i \in 1 .. L - 1 : inbox'[i] \notin Locks PROVE noticed' = announced
  <2>1. ASSUME NEW j \in 1 .. L, 1 < j PROVE inbox[j] \notin Locks
    <3>1. PICK g : g = j - 1
      OBVIOUS
    <3>2. g \in 1 .. L - 1 /\ j = g + 1
      BY <1>3, <2>1, <3>1
    <3>. QED
      BY <1>3, <1>7, <3>2
  <2>2. 1 \in 1 .. L /\ \A j \in 1 .. L : j = 1 \/ 1 < j
    BY <1>3
  <2>3. CASE h \in Locks
    BY <1>1, <1>4, <2>1, <2>2, <2>3 DEF Owed
  <2>4. CASE h \notin Locks
    BY <1>1, <1>4, <2>1, <2>2, <2>4 DEF Owed
  <2>. QED
    BY <2>3, <2>4
<1>8. Owed'
  BY <1>2, <1>3, <1>6, <1>7 DEF Owed
<1>. QED
  BY <1>2, <1>5, <1>8 DEF Awake

LEMMA NoticeNextInv == NoticeInv /\ [NoticeNext]_noticeVars => NoticeInv'
<1>. SUFFICES ASSUME NoticeInv, [NoticeNext]_noticeVars PROVE NoticeInv'
  OBVIOUS
<1>. USE DEF NoticeInv
<1>1. CASE Register \/ Drained \/ Wake \/ UNCHANGED noticeVars
  BY <1>1 DEF Register, Drained, Wake, noticeVars, NoticeTypeOK, Owed, Awake
<1>2. CASE Relaunch
  BY <1>2, EmptyWindow DEF Relaunch
<1>. QED
  BY <1>1, <1>2, PostInv, DispatchInv DEF NoticeNext

-----------------------------------------------------------------------------
(* Theorems *)

\* A file that counts as uploaded, in memory or in upload.state, is at the
\* destination with all it held when it was read, unless the outbox has kept a
\* part of a copy written without an error, or the file was sent again because
\* a start did not load its name.
THEOREM MarksHold == UploadSpec => []MarkedIsThere
<1>1. UploadInv => MarkedIsThere
  BY DEF UploadInv, UploadTypeOK, InHand, Kept, MarkedIsThere
<1>. QED
  BY <1>1, UploadInitInv, UploadNextInv, PTL DEF UploadSpec

\* A file event carries the id of the insertion its file came with, when the
\* arrival had been handled before the scan asked and no stick came since.
THEOREM NamesHold == MediaSpec => []FileNamesItsStick
BY MediaInitInv, MediaNextInv, MediaInvNames, PTL DEF MediaSpec

\* A whole archive holds the rows that are told of, unless a stream failed
\* unnoticed, and no copy of a database, unless one was not written, read out
\* or removed.
THEOREM PacksHold == PackSpec => []PackIsWhatItSays
<1>1. PackInv => PackIsWhatItSays
  BY DEF PackInv, Accounted, PackIsWhatItSays
<1>. QED
  BY <1>1, PackInitInv, PackNextInv, PTL DEF PackSpec

\* A stop event is of the process whose start event went before it, unless the
\* stop of a process with its id was lost, or its id, as the creator's, was
\* taken for the start of another process.
THEOREM PairsHold == ProcessSpec => []PairsAreOne
<1>1. ProcessInv => PairsAreOne
  BY DEF ProcessInv
<1>. QED
  BY <1>1, ProcessInitInv, ProcessNextInv, PTL DEF ProcessSpec

\* Side by side, each thread does what it does alone: a step of one leaves
\* the variables of the others as they are.
THEOREM EachThreadRuns ==
    ThreadsSpec => UploadSpec /\ MediaSpec /\ PackSpec /\ ProcessSpec /\ PollerSpec /\ NoticeSpec
<1>1. ThreadsInit => UploadInit /\ MediaInit /\ PackInit /\ ProcessInit /\ PollerInit /\ NoticeInit
  BY DEF ThreadsInit
<1>2. [ThreadsNext]_threadVars =>
         /\ [UploadNext]_uploadVars
         /\ [MediaNext]_mediaVars
         /\ [PackNext]_packVars
         /\ [ProcessNext]_processVars
         /\ [PollerNext]_pollerVars
         /\ [NoticeNext]_noticeVars
  BY DEF ThreadsNext, Uploading, Handling, Packing, Tracing, Polling, Noticing, PollerNext,
         threadVars
<1>. QED
  BY <1>1, <1>2, PTL DEF ThreadsSpec, UploadSpec, MediaSpec, PackSpec, ProcessSpec, PollerSpec,
                         NoticeSpec

\* What holds for each of them alone holds for the service, with the same
\* exceptions.
THEOREM ServiceHolds ==
    ThreadsSpec => [](MarkedIsThere /\ FileNamesItsStick /\ PackIsWhatItSays /\ PairsAreOne)
BY EachThreadRuns, MarksHold, NamesHold, PacksHold, PairsHold, PTL

\* The window's thread blocks only when the last lock or unlock has its event.
THEOREM NoticesHold == ThreadsSpec => []SleepsOnlyWhenTold
<1>1. NoticeInv => SleepsOnlyWhenTold
  BY DEF NoticeInv, Owed, Awake, SleepsOnlyWhenTold
<1>2. NoticeSpec => []NoticeInv
  BY NoticeInitInv, NoticeNextInv, PTL DEF NoticeSpec
<1>. QED
  BY <1>1, <1>2, EachThreadRuns, PTL

\* The variables of every thread have their types: no more ids are given to
\* insertions than there are, and what a text says is always a configuration.
THEOREM ThreadsTyped == ThreadsSpec => []ThreadsTypeOK
<1>1. UploadSpec => []UploadTypeOK
  BY UploadInitInv, UploadNextInv, PTL DEF UploadSpec, UploadInv
<1>2. MediaSpec => []MediaTypeOK
  <2>1. MediaTyped => MediaTypeOK
    BY DEF MediaTyped
  <2>. QED
    BY <2>1, MediaInitInv, MediaNextInv, MediaInitTyped, MediaNextTyped, PTL DEF MediaSpec
<1>3. PackSpec => []PackTypeOK
  BY PackInitInv, PackNextInv, PTL DEF PackSpec, PackInv
<1>4. ProcessSpec => []ProcessTypeOK
  BY ProcessInitInv, ProcessNextInv, PTL DEF ProcessSpec, ProcessInv
<1>5. PollerSpec => []PollerTypeOK
  BY PollerInitTyped, PollerNextTyped, PTL DEF PollerSpec
<1>6. NoticeSpec => []NoticeTypeOK
  BY NoticeInitInv, NoticeNextInv, PTL DEF NoticeSpec, NoticeInv
<1>7. UploadTypeOK /\ MediaTypeOK /\ PackTypeOK /\ ProcessTypeOK /\ PollerTypeOK /\ NoticeTypeOK
      => ThreadsTypeOK
  BY DEF ThreadsTypeOK
<1>. QED
  BY <1>1, <1>2, <1>3, <1>4, <1>5, <1>6, <1>7, EachThreadRuns, PTL

=============================================================================
