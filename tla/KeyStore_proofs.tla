--------------------------- MODULE KeyStore_proofs ---------------------------
(***************************************************************************)
(* Proofs about KeyStore, for any set of keys and of processes: its types, *)
(* and that what the service has encrypted can be read with the key in the *)
(* file.  They are carried over to LogReaders, where readers go on from a  *)
(* key to the log.                                                         *)
(***************************************************************************)
EXTENDS LogReaders, TLAPS

KeyUsers == {"ready", "reading", "done"}

-----------------------------------------------------------------------------
(* The inductive invariant *)

\* Who writes the file has a key for it, and has left nothing in it that
\* unwraps; who is past loading has a key; administrators create none.
Roles ==
    \A p \in Procs :
        /\ writer = p <=> at[p] = "write"
        /\ at[p] = "write" => key[p] \in Keys /\ file = "broken"
        /\ at[p] \in KeyUsers => key[p] \in Keys
        /\ p \in Admins => ~Creating(p)

\* Unless a key was refused or two processes set out to create one, a process
\* that creates a key is alone, there is no key, and nothing is encrypted; and
\* whoever uses a key has the one in the file.
OneKey ==
    ~refused /\ ~clashed =>
        /\ used \subseteq {file}
        /\ \A p \in Procs \ Admins : at[p] \in KeyUsers => key[p] = file
        /\ \A p \in Procs : Creating(p) =>
              /\ file \notin Keys
              /\ \A q \in Procs \ {p} : ~Creating(q)

KeyInv == KeyTypeOK /\ Roles /\ OneKey

LEMMA KeyInitInv == KeyInit => KeyInv
BY KeyAssumption DEF KeyInit, KeyInv, KeyTypeOK, Roles, OneKey, Creating, KeyUsers,
                     Content, Places, Procs

\* Giving up leaves the types and the roles; whoever goes on to create a key
\* finds that nobody else does, or has noted it.
LEMMA NotLoadedEffect ==
    ASSUME KeyInv, NEW p \in Procs, NotLoaded(p), at[p] # "write",
           UNCHANGED <<file, writer, key, drawn, used>>
    PROVE  /\ at' \in [Procs -> Places] /\ clashed' \in BOOLEAN
           /\ Roles'
           /\ ~clashed' => ~clashed
           /\ at' = [at EXCEPT ![p] = IF p \in Admins THEN "off" ELSE "create"]
           /\ p \notin Admins /\ ~clashed' => \A q \in Procs \ {p} : ~Creating(q)
<1>. USE DEF KeyInv, KeyTypeOK, NotLoaded, Goes, Creating, Places
<1>1. at' = [at EXCEPT ![p] = IF p \in Admins THEN "off" ELSE "create"]
  OBVIOUS
<1>2. Roles'
  BY <1>1 DEF Roles, KeyUsers
<1>. QED
  BY <1>1, <1>2

LEMMA GiveUpKeepsOneKey ==
    ASSUME KeyInv, NEW p \in Procs, NotLoaded(p), at[p] # "write",
           file \notin Keys \/ \E q \in Procs \ {p} : Creating(q), refused' = refused,
           UNCHANGED <<file, writer, key, drawn, used>>
    PROVE  KeyInv'
<1>1. KeyTypeOK' /\ Roles'
  BY NotLoadedEffect DEF KeyInv, KeyTypeOK
<1>2. OneKey'
  BY NotLoadedEffect DEF KeyInv, OneKey, Creating, KeyUsers, KeyTypeOK, Places
<1>. QED
  BY <1>1, <1>2 DEF KeyInv

LEMMA KeyStepInv ==
    ASSUME KeyInv, NEW p \in Procs, KeyStep(p)
    PROVE  KeyInv'
<1>. USE DEF KeyInv
<1>1. CASE Look(p)
  <2>1. CASE file = "absent"
    <3>1. file \notin Keys
      BY <2>1, KeyAssumption
    <3>. QED
      BY <1>1, <2>1, <3>1, GiveUpKeepsOneKey DEF Look
  <2>2. CASE file # "absent"
    BY <1>1, <2>2 DEF Look, Goes, KeyTypeOK, Roles, OneKey, Creating, KeyUsers, Places
  <2>. QED
    BY <2>1, <2>2
<1>2. CASE Open(p)
  <2>1. CASE writer = "nobody"
    BY <1>2, <2>1 DEF Open, Goes, KeyTypeOK, Roles, OneKey, Creating, KeyUsers, Places
  <2>2. CASE writer # "nobody"
    <3>1. PICK q \in Procs : q = writer
      BY <2>2 DEF KeyTypeOK
    <3>2. q # p /\ Creating(q)
      BY <1>2, <3>1 DEF Open, Roles, Creating
    <3>. QED
      BY <1>2, <2>2, <3>2, GiveUpKeepsOneKey DEF Open
  <2>. QED
    BY <2>1, <2>2
<1>3. CASE Read(p)
  <2>1. CASE file \in Keys
    BY <1>3, <2>1 DEF Read, Goes, KeyTypeOK, Roles, OneKey, Creating, KeyUsers, Places, Content
  <2>2. CASE file \notin Keys
    BY <1>3, <2>2, GiveUpKeepsOneKey DEF Read
  <2>. QED
    BY <2>1, <2>2
<1>4. CASE Refuse(p)
  <2>1. KeyTypeOK' /\ Roles'
    BY <1>4, NotLoadedEffect DEF Refuse, KeyTypeOK
  <2>. QED
    BY <1>4, <2>1 DEF Refuse, OneKey
<1>5. CASE Create(p)
  <2>1. CASE at' = [at EXCEPT ![p] = "off"] /\ UNCHANGED <<drawn, key, file, writer>>
    BY <1>5, <2>1 DEF Create, KeyTypeOK, Roles, OneKey, Creating, KeyUsers, Places
  <2>2. ASSUME NEW k \in Keys \ drawn, writer = "nobody", drawn' = drawn \cup {k},
               key' = [key EXCEPT ![p] = k], file' = "broken", writer' = p,
               at' = [at EXCEPT ![p] = "write"]
        PROVE  KeyInv'
    <3>1. KeyTypeOK'
      BY <1>5, <2>2 DEF Create, KeyTypeOK, Places, Content
    <3>2. Roles'
      BY <1>5, <2>2, KeyAssumption
         DEF Create, KeyTypeOK, Roles, Creating, KeyUsers, Places, Content, Procs
    <3>3. OneKey'
      <4>. SUFFICES ASSUME ~refused, ~clashed PROVE OneKey'
        BY <1>5 DEF Create, OneKey
      <4>1. /\ used = {} /\ \A q \in Procs \ Admins : at[q] \notin KeyUsers
            /\ \A q \in Procs \ {p} : ~Creating(q)
        BY <1>5 DEF Create, OneKey, Creating, Roles, KeyTypeOK
      <4>2. \A q \in Procs \ Admins : at'[q] \notin KeyUsers
        BY <2>2, <4>1 DEF KeyTypeOK, KeyUsers
      <4>3. \A q \in Procs \ {p} : ~Creating(q)'
        BY <2>2, <4>1 DEF KeyTypeOK, Creating
      <4>. QED
        BY <1>5, <2>2, <4>1, <4>2, <4>3, KeyAssumption DEF Create, OneKey
    <3>. QED
      BY <3>1, <3>2, <3>3
  <2>. QED
    BY <1>5, <2>1, <2>2 DEF Create, Goes
<1>6. CASE Save(p)
  <2>1. KeyTypeOK'
    BY <1>6 DEF Save, Goes, KeyTypeOK, Places, Content
  <2>2. \A q \in Procs : at[q] = "write" <=> q = p
    BY <1>6 DEF Save, Roles
  <2>3. Roles'
    BY <1>6, <2>2, KeyAssumption
       DEF Save, Goes, KeyTypeOK, Roles, Creating, KeyUsers, Places, Content, Procs
  <2>4. OneKey'
    <3>. SUFFICES ASSUME ~refused, ~clashed PROVE OneKey'
      BY <1>6 DEF Save, OneKey
    <3>1. /\ used = {} /\ \A q \in Procs \ Admins : at[q] \notin KeyUsers
          /\ \A q \in Procs \ {p} : ~Creating(q)
      BY <1>6 DEF Save, OneKey, Creating, Roles, KeyTypeOK
    <3>2. \A q \in Procs : ~Creating(q)'
      BY <1>6, <3>1 DEF Save, Goes, KeyTypeOK, Creating
    <3>3. CASE file' = key[p] /\ Goes(p, "ready")
      BY <1>6, <3>1, <3>2, <3>3 DEF Save, Goes, KeyTypeOK, OneKey, KeyUsers
    <3>4. CASE UNCHANGED file /\ Goes(p, "off")
      BY <1>6, <3>1, <3>2, <3>4 DEF Save, Goes, KeyTypeOK, OneKey, KeyUsers
    <3>. QED
      BY <1>6, <3>3, <3>4 DEF Save
  <2>. QED
    BY <2>1, <2>3, <2>4
<1>. QED
  BY <1>1, <1>2, <1>3, <1>4, <1>5, <1>6 DEF KeyStep

LEMMA QuitInv ==
    ASSUME KeyInv, NEW p \in Procs, Quit(p)
    PROVE  KeyInv'
<1>1. KeyTypeOK'
  BY DEF Quit, Goes, KeyInv, KeyTypeOK, Places, Content
<1>2. Roles'
  BY KeyAssumption DEF Quit, Goes, KeyInv, KeyTypeOK, Roles, Creating, KeyUsers, Places, Procs
<1>3. OneKey'
  BY DEF Quit, Goes, KeyInv, KeyTypeOK, OneKey, Creating, KeyUsers, Places
<1>. QED
  BY <1>1, <1>2, <1>3 DEF KeyInv

LEMMA EncryptInv ==
    ASSUME KeyInv, Encrypt
    PROVE  KeyInv'
<1>1. Service \in Procs \ Admins
  BY KeyAssumption DEF Procs
<1>. QED
  BY <1>1 DEF Encrypt, KeyInv, KeyTypeOK, Roles, OneKey, Creating, KeyUsers

\* A process that has a key goes on with it.
LEMMA ReadOnInv ==
    ASSUME KeyInv, NEW p \in Procs, at[p] \in KeyUsers, NEW to \in KeyUsers, Goes(p, to),
           UNCHANGED <<file, writer, key, drawn, used, refused, clashed>>
    PROVE  KeyInv'
BY DEF Goes, KeyInv, KeyTypeOK, Roles, OneKey, Creating, KeyUsers, Places

LEMMA KeyStutter ==
    ASSUME KeyInv, UNCHANGED keyVars
    PROVE  KeyInv'
BY DEF KeyInv, KeyTypeOK, Roles, OneKey, Creating, keyVars

LEMMA KeyNextInv == KeyInv /\ [KeyNext]_keyVars => KeyInv'
BY KeyStepInv, QuitInv, EncryptInv, KeyStutter DEF KeyNext

-----------------------------------------------------------------------------
(* Theorems *)

\* The service and the tools alone: the variables keep their types.
THEOREM KeysTyped == KeySpec => []KeyTypeOK
<1>1. KeyInv => KeyTypeOK
  BY DEF KeyInv
<1>. QED
  BY <1>1, KeyInitInv, KeyNextInv, PTL DEF KeySpec

\* However often processes look for the key, create it, die and are refused
\* elsewhere, the key in the file reads what was encrypted.
THEOREM KeysReadIt == KeySpec => []KeysReadTheLog
<1>1. KeyInv => KeysReadTheLog
  BY DEF KeyInv, OneKey, KeysReadTheLog
<1>. QED
  BY <1>1, KeyInitInv, KeyNextInv, PTL DEF KeySpec

\* An import may have any key that was ever drawn: it creates none.
LEMMA ExternalDekInv ==
    ASSUME KeyInv, NEW r \in Admins, ExternalDek(r)
    PROVE  KeyInv'
BY DEF ExternalDek, Goes, KeyInv, KeyTypeOK, Roles, OneKey, Creating, KeyUsers, Places,
       Procs, Content

LEMMA ReadersNextInv == KeyInv /\ [Next]_vars => KeyInv'
<1>. SUFFICES ASSUME KeyInv, [Next]_vars PROVE KeyInv'
  OBVIOUS
<1>1. ASSUME NEW p \in Procs, KeyStep(p) PROVE KeyInv'
  BY <1>1, KeyStepInv
<1>2. CASE BeginLine
  BY <1>2, EncryptInv DEF BeginLine
<1>3. CASE EndLine \/ FailLine \/ UNCHANGED vars
  BY <1>3, KeyStutter DEF EndLine, FailLine, vars
<1>8. CASE OpenFails
  BY <1>8, EncryptInv DEF OpenFails
<1>4. CASE ServiceQuits
  BY <1>4, QuitInv DEF ServiceQuits, Procs
<1>5. ASSUME NEW r \in Readers, ReaderQuits(r) PROVE KeyInv'
  BY <1>5, QuitInv DEF ReaderQuits, Readers, Procs
<1>6. ASSUME NEW r \in Tools, ToolLists(r) \/ ToolReads(r) \/ ToolEnds(r) PROVE KeyInv'
  BY <1>6, ReadOnInv, KeyStutter
     DEF ToolLists, List, ToolReads, ToolEnds, Complete, Procs, KeyUsers
<1>7. ASSUME NEW r \in Admins, ExternalDek(r) \/ ImportLists(r) \/ ImportReads(r) \/ Imported(r)
      PROVE  KeyInv'
  BY <1>7, ReadOnInv, KeyStutter, ExternalDekInv
     DEF ImportLists, List, ImportReads, Imported, Complete, Procs, KeyUsers
<1>. QED
  BY <1>1, <1>2, <1>3, <1>4, <1>5, <1>6, <1>7, <1>8 DEF Next

\* The same beside readers of the log, whose keys may be older ones.
THEOREM ReadersKeepKeys == Spec => []KeysReadTheLog
<1>1. Init => KeyInv
  BY KeyInitInv DEF Init
<1>2. KeyInv => KeysReadTheLog
  BY DEF KeyInv, OneKey, KeysReadTheLog
<1>. QED
  BY <1>1, <1>2, ReadersNextInv, PTL DEF Spec

-----------------------------------------------------------------------------
(* What the readers show *)

AnyLine == [n : Nat, by : Content, whole : BOOLEAN]

\* A fragment is the last line of a torn part, and so is the line in flight of
\* the part that is written to.
LogShape ==
    /\ text \in [Parts -> Seq(AnyLine)]
    /\ torn \subseteq Parts
    /\ part \in Parts
    /\ lines \in Nat
    /\ stream \in {"closed", "good", "half", "failed"}
    /\ left \in [Readers -> SUBSET Parts]
    /\ DOMAIN shown = Readers /\ DOMAIN due = Readers /\ short \subseteq Tools
    /\ \A i \in torn : text[i] # <<>> /\ ~text[i][Len(text[i])].whole
    /\ stream = "half" => text[part] # <<>> /\ ~text[part][Len(text[part])].whole

\* A part with a line that will never be whole, which no decrypt run gets past.
Damaged(i) ==
    \E j \in DOMAIN text[i] :
        /\ ~text[i][j].whole
        /\ ~(stream = "half" /\ i = part /\ i \notin torn /\ j = Len(text[i]))

\* What was due is shown, or still to be read, by a tool perhaps in vain; or a
\* read error has cut a part short.
Covered(r) ==
    r \notin short =>
      /\ at[r] = "reading" =>
            \A m \in due[r] :
               \/ m \in shown[r]
               \/ \E i \in left[r] : \E j \in DOMAIN text[i] :
                     text[i][j].n = m /\ (r \in Admins => Readable(r, text[i][j]))
               \/ r \in Tools /\ \E i \in left[r] : Damaged(i)
      /\ at[r] = "done" => due[r] \subseteq shown[r]

ReaderInv == KeyInv /\ LogShape /\ \A r \in Readers : Covered(r)

\* What a step of the writer does for the readers: whole lines stay, and so
\* does damage; the number of a line stays unless its part is damaged.
Kept ==
    \A i \in Parts :
        /\ Damaged(i) => Damaged(i)'
        /\ \A j \in DOMAIN text[i] :
              /\ text[i][j].whole => j \in DOMAIN text'[i] /\ text'[i][j] = text[i][j]
              /\ \/ j \in DOMAIN text'[i] /\ text'[i][j].n = text[i][j].n
                 \/ Damaged(i)'

LEMMA TargetIsPart == LogShape => \A a, b \in BOOLEAN : Target(a, b) \in Parts
BY ReaderAssumption DEF LogShape, Target, Rotated, Full, Parts

LEMMA BeginKeeps == ASSUME KeyInv, LogShape, BeginLine PROVE LogShape' /\ Kept
<1>0. PICK T, line : /\ \E a, b \in BOOLEAN : T = Target(a, b)
                     /\ part' = T
                     /\ line = [n |-> lines + 1, by |-> key[Service], whole |-> FALSE]
  BY DEF BeginLine
<1>1. T \in Parts /\ text[T] \in Seq(AnyLine)
  BY <1>0, TargetIsPart DEF LogShape
<1>2. line \in AnyLine /\ ~line.whole
  BY <1>0 DEF AnyLine, LogShape, KeyInv, KeyTypeOK, Procs
<1>3. /\ lines' = lines + 1 /\ part' = T /\ stream' = "half" /\ stream # "half"
      /\ UNCHANGED <<torn, left, shown, due, short>>
      /\ text' = [text EXCEPT ![T] = IF T \in torn THEN [text[T] EXCEPT ![Len(text[T])] = line]
                                                   ELSE Append(text[T], line)]
  BY <1>0 DEF BeginLine, readerVars
<1>4. \A i \in Parts \ {T} : text'[i] = text[i]
  BY <1>3 DEF LogShape
<1>5. ASSUME NEW i \in Parts, i # T
      PROVE  /\ Damaged(i) => Damaged(i)'
             /\ \A j \in DOMAIN text[i] : j \in DOMAIN text'[i] /\ text'[i][j] = text[i][j]
  BY <1>3, <1>4, <1>5 DEF Damaged
<1>6. CASE T \in torn
  <2>1. /\ text'[T] = [text[T] EXCEPT ![Len(text[T])] = line]
        /\ text[T] # <<>> /\ ~text[T][Len(text[T])].whole
    BY <1>1, <1>3, <1>6 DEF LogShape
  <2>2. Len(text[T]) \in DOMAIN text[T]
    BY <1>1, <2>1
  <2>3. /\ text'[T] \in Seq(AnyLine) /\ text'[T] # <<>> /\ Len(text'[T]) = Len(text[T])
        /\ DOMAIN text'[T] = DOMAIN text[T]
        /\ text'[T][Len(text[T])] = line
        /\ \A j \in DOMAIN text[T] : j # Len(text[T]) => text'[T][j] = text[T][j]
    BY <1>1, <1>2, <2>1, <2>2
  <2>4. Damaged(T)'
    BY <1>2, <1>3, <1>6, <2>2, <2>3 DEF Damaged
  <2>5. LogShape'
    BY <1>1, <1>2, <1>3, <1>4, <2>3 DEF LogShape
  <2>6. \A j \in DOMAIN text[T] : text[T][j].whole => text'[T][j] = text[T][j]
    BY <2>1, <2>3
  <2>. QED
    BY <1>5, <2>3, <2>4, <2>5, <2>6 DEF Kept
<1>7. CASE T \notin torn
  <2>1. text'[T] = Append(text[T], line)
    BY <1>1, <1>3, <1>7 DEF LogShape
  <2>2. /\ text'[T] \in Seq(AnyLine) /\ text'[T] # <<>> /\ Len(text'[T]) = Len(text[T]) + 1
        /\ text'[T][Len(text[T]) + 1] = line /\ Len(text[T]) \in Nat
        /\ \A j \in DOMAIN text[T] : /\ j \in DOMAIN text'[T] /\ j # Len(text[T]) + 1
                                     /\ text'[T][j] = text[T][j]
    BY <1>1, <1>2, <2>1
  <2>3. Damaged(T) => Damaged(T)'
    BY <2>2 DEF Damaged
  <2>4. LogShape'
    BY <1>1, <1>2, <1>3, <1>4, <1>7, <2>2 DEF LogShape
  <2>. QED
    BY <1>5, <2>2, <2>3, <2>4 DEF Kept
<1>. QED
  BY <1>6, <1>7

LEMMA EndKeeps == ASSUME LogShape, EndLine PROVE LogShape' /\ Kept
<1>1. /\ stream = "half" /\ stream' = "good" /\ part \in Parts /\ torn' = torn \ {part}
      /\ UNCHANGED <<part, lines, left, shown, due, short>>
      /\ text[part] \in Seq(AnyLine) /\ text[part] # <<>> /\ ~text[part][Len(text[part])].whole
  BY DEF EndLine, readerVars, LogShape
<1>2. PICK L, w : L = Len(text[part]) /\ w = (part \notin torn)
  OBVIOUS
<1>3. /\ L \in DOMAIN text[part] /\ text[part][L] \in AnyLine /\ w \in BOOLEAN
      /\ DOMAIN text[part] = 1 .. L
  BY <1>1, <1>2
<1>4. text' = [text EXCEPT ![part] = [text[part] EXCEPT ![L] = [text[part][L] EXCEPT !.whole = w]]]
  BY <1>2 DEF EndLine
<1>5. PICK end : end = [text[part][L] EXCEPT !.whole = w]
  OBVIOUS
<1>6. end \in AnyLine /\ end.whole = w /\ end.n = text[part][L].n
  BY <1>3, <1>5 DEF AnyLine
<1>7. /\ text'[part] = [text[part] EXCEPT ![L] = end]
      /\ \A i \in Parts \ {part} : text'[i] = text[i]
  BY <1>1, <1>4, <1>5 DEF LogShape
<1>8. /\ text'[part] \in Seq(AnyLine) /\ Len(text'[part]) = L /\ DOMAIN text'[part] = DOMAIN text[part]
      /\ text'[part][L] = end
      /\ \A j \in DOMAIN text[part] : j # L => text'[part][j] = text[part][j]
  BY <1>1, <1>2, <1>3, <1>6, <1>7
<1>9. LogShape'
  <2>1. text' \in [Parts -> Seq(AnyLine)]
    BY <1>1, <1>4, <1>5, <1>7, <1>8 DEF LogShape
  <2>. QED
    BY <1>1, <1>7, <2>1 DEF LogShape
<1>10. ASSUME NEW i \in Parts, i # part
       PROVE  /\ Damaged(i) => Damaged(i)'
              /\ \A j \in DOMAIN text[i] : j \in DOMAIN text'[i] /\ text'[i][j] = text[i][j]
  BY <1>1, <1>7, <1>10 DEF Damaged
<1>11. Damaged(part) => Damaged(part)'
  <2>1. CASE part \in torn
    BY <1>1, <1>2, <1>3, <1>6, <1>8, <2>1 DEF Damaged
  <2>2. CASE part \notin torn
    BY <1>1, <1>2, <1>8, <2>2 DEF Damaged
  <2>. QED
    BY <2>1, <2>2
<1>12. \A j \in DOMAIN text[part] : text'[part][j].n = text[part][j].n
  BY <1>6, <1>8
<1>13. \A j \in DOMAIN text[part] : text[part][j].whole => text'[part][j] = text[part][j]
  BY <1>1, <1>2, <1>8
<1>14. ASSUME NEW i \in Parts, NEW j \in DOMAIN text[i]
       PROVE  /\ j \in DOMAIN text'[i]
              /\ text[i][j].whole => text'[i][j] = text[i][j]
              /\ text'[i][j].n = text[i][j].n
  BY <1>8, <1>10, <1>12, <1>13
<1>15. ASSUME NEW i \in Parts, Damaged(i) PROVE Damaged(i)'
  <2>1. CASE i = part
    BY <1>1, <1>11, <1>15, <2>1 DEF Damaged
  <2>2. CASE i # part
    BY <1>10, <1>15, <2>2
  <2>. QED
    BY <2>1, <2>2
<1>. QED
  BY <1>9, <1>14, <1>15 DEF Kept

LEMMA StopKeeps == ASSUME LogShape, FailLine \/ OpenFails \/ ServiceQuits PROVE LogShape' /\ Kept
<1>1. /\ stream' # "half" /\ stream' \in {"closed", "failed"} /\ UNCHANGED <<text, part, lines, left, shown, due, short>>
      /\ \/ torn' = torn
         \/ torn' = torn \cup {part} /\ stream = "half"
  BY DEF FailLine, OpenFails, ServiceQuits, readerVars
<1>2. LogShape'
  BY <1>1 DEF LogShape
<1>3. \A i \in Parts : Damaged(i) => Damaged(i)'
  BY <1>1 DEF Damaged
<1>. QED
  BY <1>1, <1>2, <1>3 DEF Kept

\* A step of the writer leaves covered what is due for a reader.
LEMMA KeptCovers ==
    ASSUME ReaderInv, Kept, NEW r \in Readers,
           at'[r] \in {"reading", "done"} =>
               /\ at'[r] = at[r] /\ key'[r] = key[r]
               /\ left'[r] = left[r] /\ shown'[r] = shown[r] /\ due'[r] = due[r]
               /\ r \in short' <=> r \in short
    PROVE  Covered(r)'
<1>0. CASE r \in short'
  BY <1>0 DEF Covered
<1>1. CASE at'[r] \notin {"reading", "done"}
  BY <1>1 DEF Covered
<1>2. CASE at'[r] = "done"
  BY <1>2 DEF ReaderInv, Covered
<1>3. CASE at'[r] = "reading" /\ r \notin short'
  <2>1. /\ at[r] = "reading" /\ key'[r] = key[r] /\ left'[r] = left[r] /\ left[r] \subseteq Parts
        /\ shown'[r] = shown[r] /\ due'[r] = due[r] /\ r \notin short
    BY <1>3 DEF ReaderInv, LogShape
  <2>2. ASSUME NEW m \in due[r], m \notin shown[r]
        PROVE  \/ \E i \in left[r] : \E j \in DOMAIN text'[i] :
                     text'[i][j].n = m /\ (r \in Admins => Readable(r, text[i][j])')
               \/ r \in Tools /\ \E i \in left[r] : Damaged(i)'
    <3>1. CASE r \in Tools /\ \E i \in left[r] : Damaged(i)
      BY <2>1, <3>1 DEF Kept
    <3>2. ASSUME NEW i \in left[r], NEW j \in DOMAIN text[i], text[i][j].n = m,
                 r \in Admins => Readable(r, text[i][j])
          PROVE  \/ \E k \in DOMAIN text'[i] :
                       text'[i][k].n = m /\ (r \in Admins => Readable(r, text[i][k])')
                 \/ r \in Tools /\ Damaged(i)'
      <4>1. CASE r \in Admins
        <5>1. text[i][j].whole
          BY <3>2, <4>1 DEF Readable
        <5>2. j \in DOMAIN text'[i] /\ text'[i][j] = text[i][j]
          BY <2>1, <5>1 DEF Kept
        <5>3. Readable(r, text[i][j])'
          BY <2>1, <3>2, <4>1, <5>2 DEF Readable, Opens
        <5>. QED
          BY <3>2, <5>2, <5>3
      <4>2. CASE r \in Tools
        <5>1. r \notin Admins
          BY <4>2, KeyAssumption
        <5>. QED
          BY <2>1, <3>2, <4>2, <5>1 DEF Kept
      <4>. QED
        BY <4>1, <4>2 DEF Readers
    <3>. QED
      BY <2>1, <2>2, <3>1, <3>2 DEF ReaderInv, Covered
  <2>. QED
    BY <1>3, <2>1, <2>2 DEF Covered
<1>. QED
  BY <1>0, <1>1, <1>2, <1>3

\* Nothing moves in the log.
LEMMA LogAtRest == ASSUME LogShape, UNCHANGED logVars PROVE Kept
BY DEF logVars, Kept, Damaged, LogShape

\* The writer, or a process that loads the key, is no reader at work.
LEMMA WriterCovers ==
    ASSUME ReaderInv, \/ BeginLine \/ EndLine \/ OpenFails \/ FailLine \/ ServiceQuits
                      \/ \E p \in Procs : KeyStep(p) /\ UNCHANGED <<logVars, readerVars>>
                      \/ UNCHANGED vars
    PROVE  LogShape' /\ \A r \in Readers : Covered(r)'
<1>. USE DEF ReaderInv
<1>1. LogShape' /\ Kept
  <2>1. CASE BeginLine \/ EndLine \/ OpenFails \/ FailLine \/ ServiceQuits
    BY <2>1, BeginKeeps, EndKeeps, StopKeeps
  <2>2. CASE UNCHANGED <<logVars, readerVars>>
    BY <2>2, LogAtRest DEF logVars, readerVars, LogShape
  <2>. QED
    BY <2>1, <2>2 DEF vars
<1>2. UNCHANGED <<left, shown, due, short>>
  BY DEF BeginLine, EndLine, OpenFails, FailLine, ServiceQuits, vars, readerVars
<1>3. ASSUME NEW r \in Readers, at'[r] \in {"reading", "done"}
      PROVE  at'[r] = at[r] /\ key'[r] = key[r]
  <2>1. r # Service /\ r \in Procs
    BY KeyAssumption DEF Readers, Procs
  <2>2. CASE BeginLine \/ EndLine \/ OpenFails \/ FailLine \/ UNCHANGED vars
    BY <2>2 DEF BeginLine, Encrypt, EndLine, OpenFails, FailLine, vars, keyVars
  <2>3. CASE ServiceQuits
    BY <2>1, <2>3 DEF ServiceQuits, Quit, Goes, KeyInv, KeyTypeOK
  <2>4. ASSUME NEW p \in Procs, KeyStep(p) PROVE at'[r] = at[r] /\ key'[r] = key[r]
    <3>1. /\ at' = at \/ \E x \in {"off", "open", "read", "create", "write", "ready"} :
                              at' = [at EXCEPT ![p] = x]
          /\ key' = key \/ \E k : key' = [key EXCEPT ![p] = k]
      BY <2>4 DEF KeyStep, Look, Open, Read, Refuse, Create, Save, NotLoaded, Goes
    <3>2. at' # at => r # p
      BY <1>3, <2>1, <3>1 DEF KeyInv, KeyTypeOK
    <3>3. at'[r] = at[r]
      BY <2>1, <3>1, <3>2 DEF KeyInv, KeyTypeOK
    <3>4. at[p] \in {"off", "open", "read", "create", "write"}
      BY <2>4 DEF KeyStep, Look, Open, Read, Refuse, Create, Save
    <3>5. r # p
      BY <1>3, <3>3, <3>4
    <3>. QED
      BY <2>1, <3>1, <3>3, <3>5 DEF KeyInv, KeyTypeOK
  <2>. QED
    BY <2>2, <2>3, <2>4
<1>. QED
  BY <1>1, <1>2, <1>3, KeptCovers

\* A reader's own step; the others have what they had.
LEMMA OthersCovered ==
    ASSUME ReaderInv, NEW x \in Readers, UNCHANGED logVars,
           \A r \in Readers \ {x} : /\ at'[r] = at[r] /\ key'[r] = key[r] /\ left'[r] = left[r]
                                    /\ shown'[r] = shown[r] /\ due'[r] = due[r]
                                    /\ r \in short' <=> r \in short
    PROVE  \A r \in Readers \ {x} : Covered(r)'
BY KeptCovers, LogAtRest DEF ReaderInv

\* A reader begins, ends, or takes a key from elsewhere.
LEMMA ComesAndGoesCovers ==
    ASSUME ReaderInv, NEW x \in Readers,
           ReaderQuits(x) \/ (x \in Admins /\ ExternalDek(x)) \/ Complete(x)
    PROVE  LogShape' /\ \A r \in Readers : Covered(r)'
<1>. USE DEF ReaderInv
<1>1. x \in Procs /\ UNCHANGED logVars
  BY DEF Readers, Procs, ReaderQuits, ExternalDek, Complete
<1>2. /\ left' = left \/ left' = [left EXCEPT ![x] = {}]
      /\ shown' = shown \/ shown' = [shown EXCEPT ![x] = {}]
      /\ due' = due \/ due' = [due EXCEPT ![x] = {}]
      /\ short' = short \/ short' = short \ {x}
      /\ key' = key \/ \E k : key' = [key EXCEPT ![x] = k]
      /\ \E place : at' = [at EXCEPT ![x] = place]
  BY DEF ReaderQuits, Quit, ExternalDek, Complete, Goes, readerVars
<1>3. LogShape'
  BY <1>1, <1>2 DEF LogShape, logVars
<1>4. \A r \in Readers \ {x} : Covered(r)'
  <2>1. \A r \in Readers \ {x} : /\ at'[r] = at[r] /\ key'[r] = key[r] /\ left'[r] = left[r]
                                 /\ shown'[r] = shown[r] /\ due'[r] = due[r]
                                 /\ r \in short' <=> r \in short
    BY <1>2 DEF KeyInv, KeyTypeOK, LogShape, Readers, Procs
  <2>. QED
    BY <1>1, <2>1, OthersCovered
<1>5. Covered(x)'
  <2>1. CASE ReaderQuits(x) \/ (x \in Admins /\ ExternalDek(x))
    <3>1. at'[x] \in {"off", "ready"}
      BY <1>1, <2>1 DEF ReaderQuits, Quit, ExternalDek, Goes, KeyInv, KeyTypeOK
    <3>. QED
      BY <3>1 DEF Covered
  <2>2. CASE Complete(x)
    <3>1. /\ at[x] = "reading" /\ at'[x] = "done" /\ left[x] = {}
          /\ shown' = shown /\ due' = due /\ short' = short
      BY <1>1, <2>2 DEF Complete, Goes, KeyInv, KeyTypeOK, readerVars
    <3>. QED
      BY <3>1 DEF Covered
  <2>. QED
    BY <2>1, <2>2
<1>. QED
  BY <1>3, <1>4, <1>5

\* A reader lists the files: all lines that are due are in one of them.
LEMMA ListCovers ==
    ASSUME ReaderInv, NEW x \in Readers,
           (x \in Tools /\ ToolLists(x)) \/ (x \in Admins /\ ImportLists(x))
    PROVE  LogShape' /\ \A r \in Readers : Covered(r)'
<1>. USE DEF ReaderInv
<1>1. /\ x \in Procs /\ UNCHANGED <<logVars, key, shown, short>>
      /\ at' = [at EXCEPT ![x] = "reading"]
      /\ left' = [left EXCEPT ![x] = Files]
  BY DEF Readers, Procs, ToolLists, ImportLists, List, Goes
<1>2. Files \subseteq Parts
  BY DEF Files
<1>3. PICK D : due' = [due EXCEPT ![x] = D]
      /\ D = Numbers(IF x \in Tools THEN OnDisk ELSE Taken(x, OnDisk))
  BY KeyAssumption DEF ToolLists, ImportLists
<1>4. LogShape'
  BY <1>1, <1>2, <1>3 DEF LogShape, logVars
<1>5. \A r \in Readers \ {x} : Covered(r)'
  <2>1. \A r \in Readers \ {x} : /\ at'[r] = at[r] /\ key'[r] = key[r] /\ left'[r] = left[r]
                                 /\ shown'[r] = shown[r] /\ due'[r] = due[r]
                                 /\ r \in short' <=> r \in short
    BY <1>1, <1>3 DEF KeyInv, KeyTypeOK, LogShape, Readers, Procs
  <2>. QED
    BY <1>1, <2>1, OthersCovered
<1>6. Covered(x)'
  <2>1. /\ at'[x] = "reading" /\ left'[x] = Files /\ due'[x] = D /\ key' = key /\ text' = text
    BY <1>1, <1>3 DEF KeyInv, KeyTypeOK, LogShape, logVars
  <2>2. ASSUME NEW m \in D
        PROVE  \E i \in Files : \E j \in DOMAIN text[i] :
                  text[i][j].n = m /\ (x \in Admins => Readable(x, text[i][j]))
    <3>1. PICK l \in OnDisk : l.n = m /\ (x \in Admins => Readable(x, l))
      BY <1>3, <2>2, KeyAssumption DEF Numbers, Taken
    <3>2. PICK i \in Parts : l \in Range(text[i])
      BY <3>1 DEF OnDisk
    <3>3. PICK j \in DOMAIN text[i] : l = text[i][j]
      BY <3>2 DEF Range
    <3>4. text[i] # <<>>
      BY <3>3 DEF LogShape
    <3>. QED
      BY <3>1, <3>3, <3>4 DEF Files
  <2>. QED
    BY <2>1, <2>2 DEF Covered, Readable, Opens
<1>. QED
  BY <1>4, <1>5, <1>6

\* The part that comes next is one that has still to be read: there are fewer
\* than ten, so the least that has a number is found by trying.
LEMMA NextPartIsLeft ==
    ASSUME LogShape, NEW r \in Readers, left[r] # {}
    PROVE  NextPart(r) \in left[r]
<1>1. PICK S : S = left[r]
  OBVIOUS
<1>2. \A j \in S : j \in Nat /\ j <= 9
  BY <1>1, ReaderAssumption DEF LogShape, Parts
<1>3. \E i \in S : \A j \in S : i = j \/ j = 0 \/ (i # 0 /\ i < j)
  <2>1. ASSUME NEW i \in S, i # 0, \A j \in S : j = 0 \/ i <= j
        PROVE  \A j \in S : i = j \/ j = 0 \/ (i # 0 /\ i < j)
    BY <1>2, <2>1
  <2>2. CASE \A j \in S : j = 0
    BY <1>1, <2>2
  <2>3. CASE 1 \in S
    BY <1>2, <2>1, <2>3
  <2>4. CASE 2 \in S /\ \A j \in S : j = 0 \/ 2 <= j
    BY <1>2, <2>1, <2>4
  <2>5. CASE 3 \in S /\ \A j \in S : j = 0 \/ 3 <= j
    BY <1>2, <2>1, <2>5
  <2>6. CASE 4 \in S /\ \A j \in S : j = 0 \/ 4 <= j
    BY <1>2, <2>1, <2>6
  <2>7. CASE 5 \in S /\ \A j \in S : j = 0 \/ 5 <= j
    BY <1>2, <2>1, <2>7
  <2>8. CASE 6 \in S /\ \A j \in S : j = 0 \/ 6 <= j
    BY <1>2, <2>1, <2>8
  <2>9. CASE 7 \in S /\ \A j \in S : j = 0 \/ 7 <= j
    BY <1>2, <2>1, <2>9
  <2>10. CASE 8 \in S /\ \A j \in S : j = 0 \/ 8 <= j
    BY <1>2, <2>1, <2>10
  <2>11. CASE 9 \in S /\ \A j \in S : j = 0 \/ 9 <= j
    BY <1>2, <2>1, <2>11
  <2>12. CASE \A j \in S : j = 0 \/ 6 <= j
    BY <1>2, <2>2, <2>8, <2>9, <2>10, <2>11, <2>12
  <2>. QED
    BY <1>2, <2>3, <2>4, <2>5, <2>6, <2>7, <2>12
<1>. QED
  BY <1>1, <1>3 DEF NextPart

\* A reader reads a part: what is due in it is shown, for a tool that comes to
\* its end has found it undamaged.
LEMMA ReadCovers ==
    ASSUME ReaderInv, NEW x \in Readers,
           (x \in Tools /\ ToolReads(x)) \/ (x \in Admins /\ ImportReads(x))
    PROVE  LogShape' /\ \A r \in Readers : Covered(r)'
<1>. USE DEF ReaderInv
<1>1. PICK p : p = NextPart(x)
  OBVIOUS
<1>2. PICK end, S :
         IF x \in Tools
         THEN /\ end \in 0 .. Len(text[p])
              /\ S = {text[p][i] : i \in 1 .. end}
              /\ \A i \in 1 .. end : Readable(x, text[p][i])
              /\ shown' = [shown EXCEPT ![x] = shown[x] \cup Numbers(S)]
              /\ short' = IF end < Len(text[p]) THEN short \cup {x} ELSE short
         ELSE /\ S = Taken(x, Range(text[p]))
              /\ shown' = [shown EXCEPT ![x] = shown[x] \cup Numbers(S)]
              /\ short' = short
  <2>1. CASE x \in Tools
    <3>1. ToolReads(x)
      BY <2>1, KeyAssumption
    <3>2. PICK end \in 0 .. Len(text[p]) :
             /\ \A i \in 1 .. end : Readable(x, text[p][i])
             /\ shown' = [shown EXCEPT ![x] = shown[x] \cup Numbers({text[p][i] : i \in 1 .. end})]
             /\ short' = IF end < Len(text[p]) THEN short \cup {x} ELSE short
      BY <1>1, <3>1 DEF ToolReads
    <3>. QED
      BY <2>1, <3>2
  <2>2. CASE x \notin Tools
    <3>1. ImportReads(x)
      BY <2>2
    <3>. QED
      BY <1>1, <2>2, <3>1 DEF ImportReads
  <2>. QED
    BY <2>1, <2>2
<1>3. /\ UNCHANGED <<keyVars, logVars, due>>
      /\ left' = [left EXCEPT ![x] = left[x] \ {p}]
      /\ shown' = [shown EXCEPT ![x] = shown[x] \cup Numbers(S)]
      /\ at[x] = "reading" /\ left[x] # {}
  BY <1>1, <1>2 DEF ToolReads, ImportReads
<1>7. p \in Parts /\ text[p] \in Seq(AnyLine)
  BY <1>1, <1>3, NextPartIsLeft DEF LogShape
<1>4. LogShape'
  BY <1>2, <1>3 DEF LogShape, logVars
<1>5. \A r \in Readers \ {x} : Covered(r)'
  <2>1. \A r \in Readers \ {x} : /\ at'[r] = at[r] /\ key'[r] = key[r] /\ left'[r] = left[r]
                                 /\ shown'[r] = shown[r] /\ due'[r] = due[r]
                                 /\ r \in short' <=> r \in short
    BY <1>2, <1>3 DEF LogShape, keyVars
  <2>. QED
    BY <1>3, <2>1, OthersCovered
<1>6. Covered(x)'
  <2>. SUFFICES ASSUME x \notin short' PROVE Covered(x)'
    BY DEF Covered
  <2>0. /\ x \notin short
        /\ x \in Tools => /\ S = Range(text[p])
                          /\ \A i \in DOMAIN text[p] : Readable(x, text[p][i])
    BY <1>2, <1>7 DEF Range
  <2>1. /\ at'[x] = "reading" /\ left'[x] = left[x] \ {p} /\ shown'[x] = shown[x] \cup Numbers(S)
        /\ due'[x] = due[x] /\ key' = key /\ text' = text /\ stream' = stream
        /\ part' = part /\ torn' = torn
    BY <1>3 DEF LogShape, keyVars, logVars
  <2>2. ASSUME NEW m \in due[x], m \notin shown'[x]
        PROVE  \/ \E i \in left[x] \ {p} : \E j \in DOMAIN text[i] :
                     text[i][j].n = m /\ (x \in Admins => Readable(x, text[i][j]))
               \/ x \in Tools /\ \E i \in left[x] \ {p} : Damaged(i)
    <3>1. m \notin shown[x] /\ m \notin Numbers(S)
      BY <2>1, <2>2
    <3>2. CASE x \in Tools /\ \E i \in left[x] : Damaged(i)
      <4>1. PICK i \in left[x] : Damaged(i)
        BY <3>2
      <4>2. CASE i = p
        <5>1. PICK j \in DOMAIN text[p] : ~text[p][j].whole
          BY <4>1, <4>2 DEF Damaged
        <5>. QED
          BY <2>0, <3>2, <5>1 DEF Readable
      <4>3. CASE i # p
        BY <3>2, <4>1, <4>3
      <4>. QED
        BY <4>2, <4>3
    <3>3. ASSUME NEW i \in left[x], NEW j \in DOMAIN text[i], text[i][j].n = m,
                 x \in Admins => Readable(x, text[i][j])
          PROVE  i # p
      <4>. SUFFICES ASSUME i = p PROVE FALSE
        OBVIOUS
      <4>1. text[i][j] \in Range(text[p])
        BY <3>3 DEF Range
      <4>2. text[i][j] \in S
        BY <1>2, <2>0, <3>3, <4>1 DEF Taken, Readers
      <4>. QED
        BY <3>1, <3>3, <4>2 DEF Numbers
    <3>. QED
      BY <1>3, <2>0, <3>1, <3>2, <3>3, <2>2 DEF Covered
  <2>3. \A i \in left[x] \ {p} : Damaged(i) => Damaged(i)'
    BY <2>1 DEF Damaged
  <2>. QED
    BY <2>1, <2>2, <2>3 DEF Covered, Readable, Opens
<1>. QED
  BY <1>4, <1>5, <1>6

LEMMA ReaderInitInv == Init => ReaderInv
<1>. SUFFICES ASSUME Init PROVE ReaderInv
  OBVIOUS
<1>1. KeyInv
  BY KeyInitInv DEF Init
<1>2. LogShape
  BY ReaderAssumption DEF Init, LogShape, Parts
<1>3. \A r \in Readers : Covered(r)
  BY DEF Init, KeyInit, Covered, Readers, Procs
<1>. QED
  BY <1>1, <1>2, <1>3 DEF ReaderInv

LEMMA ReaderNextInv == ReaderInv /\ [Next]_vars => ReaderInv'
<1>. SUFFICES ASSUME ReaderInv, [Next]_vars PROVE ReaderInv'
  OBVIOUS
<1>1. KeyInv'
  BY ReadersNextInv DEF ReaderInv
<1>2. LogShape' /\ \A r \in Readers : Covered(r)'
  <2>1. CASE \/ BeginLine \/ EndLine \/ OpenFails \/ FailLine \/ ServiceQuits
             \/ \E p \in Procs : KeyStep(p) /\ UNCHANGED <<logVars, readerVars>>
             \/ UNCHANGED vars
    BY <2>1, WriterCovers
  <2>2. ASSUME NEW r \in Tools, ToolLists(r) \/ ToolReads(r) \/ ToolEnds(r)
        PROVE  LogShape' /\ \A x \in Readers : Covered(x)'
    BY <2>2, ListCovers, ReadCovers, ComesAndGoesCovers DEF ToolEnds, Readers
  <2>3. ASSUME NEW r \in Admins, ExternalDek(r) \/ ImportLists(r) \/ ImportReads(r) \/ Imported(r)
        PROVE  LogShape' /\ \A x \in Readers : Covered(x)'
    BY <2>3, ListCovers, ReadCovers, ComesAndGoesCovers DEF Imported, Readers
  <2>4. ASSUME NEW r \in Readers, ReaderQuits(r)
        PROVE  LogShape' /\ \A x \in Readers : Covered(x)'
    BY <2>4, ComesAndGoesCovers
  <2>. QED
    BY <2>1, <2>2, <2>3, <2>4 DEF Next
<1>. QED
  BY <1>1, <1>2 DEF ReaderInv

\* A decrypt run that ends with code 0 and met no read error has shown all that
\* was in the log when it listed the files, and an import has all that its key
\* opens.
THEOREM NothingIsMissed == Spec => []ReadersMissNothing
<1>1. ReaderInv => ReadersMissNothing
  BY DEF ReaderInv, Covered, ReadersMissNothing
<1>. QED
  BY <1>1, ReaderInitInv, ReaderNextInv, PTL DEF Spec

-----------------------------------------------------------------------------
(* Types of the log and of what is read of it *)

\* The bounds: what is in the log, due or shown is a line the service began.
Lined ==
    /\ text \in [Parts -> Seq(Lines)]
    /\ lines \in 0 .. MaxLines
    /\ shown \in [Readers -> SUBSET (1 .. MaxLines)]
    /\ due \in [Readers -> SUBSET (1 .. MaxLines)]

LEMMA NumbersTyped ==
    ASSUME Lined, NEW i \in Parts
    PROVE  /\ Numbers(Range(text[i])) \subseteq 1 .. MaxLines
           /\ \A r : Numbers(Taken(r, Range(text[i]))) \subseteq 1 .. MaxLines
<1>1. text[i] \in Seq(Lines)
  BY DEF Lined
<1>2. Range(text[i]) \subseteq Lines
  BY <1>1 DEF Range
<1>. QED
  BY <1>2 DEF Numbers, Taken, Lines

LEMMA LinedInit == Init => Lined
BY ReaderAssumption DEF Init, Lined

\* A line that is begun has a number that is within the bound and a key.
LEMMA BeginTyped == ASSUME KeyInv, LogShape, Lined, BeginLine PROVE Lined'
<1>0. PICK T, line : /\ \E a, b \in BOOLEAN : T = Target(a, b)
                     /\ part' = T
                     /\ line = [n |-> lines + 1, by |-> key[Service], whole |-> FALSE]
  BY DEF BeginLine
<1>1. T \in Parts /\ text[T] \in Seq(Lines)
  BY <1>0, TargetIsPart DEF Lined
<1>2. key[Service] \in Keys
  BY DEF BeginLine, Encrypt, KeyInv, Roles, KeyUsers, Procs
<1>3. lines + 1 \in 1 .. MaxLines /\ lines' = lines + 1
  BY ReaderAssumption DEF BeginLine, Lined
<1>4. line \in Lines
  BY <1>0, <1>2, <1>3 DEF Lines
<1>5. PICK s : s = IF T \in torn THEN [text[T] EXCEPT ![Len(text[T])] = line] ELSE Append(text[T], line)
  OBVIOUS
<1>6. s \in Seq(Lines)
  <2>1. CASE T \in torn
    <3>1. PICK L : L = Len(text[T])
      OBVIOUS
    <3>2. text[T] # <<>>
      BY <1>1, <2>1 DEF LogShape
    <3>3. L \in 1 .. Len(text[T])
      BY <1>1, <3>1, <3>2
    <3>4. s = [text[T] EXCEPT ![L] = line]
      BY <1>5, <2>1, <3>1
    <3>. QED
      BY <1>1, <1>4, <3>3, <3>4
  <2>2. CASE T \notin torn
    BY <1>1, <1>4, <1>5, <2>2
  <2>. QED
    BY <2>1, <2>2
<1>7. text' = [text EXCEPT ![T] = s] /\ UNCHANGED <<shown, due>>
  BY <1>0, <1>5 DEF BeginLine, readerVars
<1>8. text' \in [Parts -> Seq(Lines)]
  BY <1>6, <1>7 DEF Lined
<1>. QED
  BY <1>3, <1>7, <1>8, ReaderAssumption DEF Lined

LEMMA EndTyped == ASSUME LogShape, Lined, EndLine PROVE Lined'
<1>1. /\ part \in Parts /\ text[part] \in Seq(Lines) /\ text[part] # <<>>
      /\ UNCHANGED <<lines, shown, due>>
  BY DEF EndLine, readerVars, LogShape, Lined
<1>2. PICK L, w : L = Len(text[part]) /\ w = (part \notin torn)
  OBVIOUS
<1>3. L \in DOMAIN text[part] /\ text[part][L] \in Lines /\ w \in BOOLEAN
  BY <1>1, <1>2
<1>4. PICK end : end = [text[part][L] EXCEPT !.whole = w]
  OBVIOUS
<1>5. end \in Lines
  BY <1>3, <1>4 DEF Lines
<1>6. PICK s : s = [text[part] EXCEPT ![L] = end]
  OBVIOUS
<1>7. s \in Seq(Lines)
  BY <1>1, <1>3, <1>5, <1>6
<1>8. text' = [text EXCEPT ![part] = s]
  BY <1>2, <1>4, <1>6 DEF EndLine
<1>9. text' \in [Parts -> Seq(Lines)]
  BY <1>7, <1>8 DEF Lined
<1>. QED
  BY <1>1, <1>9 DEF Lined

\* What is listed and what is read is in the log.
LEMMA ReadingTyped ==
    ASSUME LogShape, Lined, NEW r \in Readers,
           ToolLists(r) \/ ToolReads(r) \/ ImportLists(r) \/ ImportReads(r)
    PROVE  Lined'
<1>1. UNCHANGED <<text, lines>>
  BY DEF ToolLists, ImportLists, List, ToolReads, ImportReads, logVars
<1>2. Numbers(OnDisk) \subseteq 1 .. MaxLines /\ Numbers(Taken(r, OnDisk)) \subseteq 1 .. MaxLines
  BY NumbersTyped DEF OnDisk, Numbers, Taken
<1>3. CASE ToolLists(r)
  BY <1>1, <1>2, <1>3 DEF ToolLists, List, Lined
<1>4. CASE ImportLists(r)
  BY <1>1, <1>2, <1>4 DEF ImportLists, List, Lined
<1>5. CASE ToolReads(r)
  <2>1. NextPart(r) \in Parts
    BY <1>5, NextPartIsLeft DEF ToolReads, LogShape
  <2>2. PICK end, N :
           /\ end \in 0 .. Len(text[NextPart(r)])
           /\ N = Numbers({text[NextPart(r)][i] : i \in 1 .. end})
           /\ shown' = [shown EXCEPT ![r] = shown[r] \cup N]
    BY <1>5 DEF ToolReads
  <2>3. N \subseteq 1 .. MaxLines
    <3>1. text[NextPart(r)] \in Seq(Lines)
      BY <2>1 DEF Lined
    <3>2. {text[NextPart(r)][i] : i \in 1 .. end} \subseteq Range(text[NextPart(r)])
      BY <2>2, <3>1 DEF Range
    <3>. QED
      BY <2>1, <2>2, <3>2, NumbersTyped DEF Numbers
  <2>4. UNCHANGED due
    BY <1>5 DEF ToolReads
  <2>. QED
    BY <1>1, <2>2, <2>3, <2>4 DEF Lined
<1>6. CASE ImportReads(r)
  <2>1. NextPart(r) \in Parts
    BY <1>6, NextPartIsLeft DEF ImportReads, LogShape
  <2>2. PICK N : N = Numbers(Taken(r, Range(text[NextPart(r)])))
    OBVIOUS
  <2>3. N \subseteq 1 .. MaxLines
    BY <2>1, <2>2, NumbersTyped
  <2>4. shown' = [shown EXCEPT ![r] = shown[r] \cup N] /\ UNCHANGED due
    BY <1>6, <2>2 DEF ImportReads
  <2>. QED
    BY <1>1, <2>3, <2>4 DEF Lined
<1>. QED
  BY <1>3, <1>4, <1>5, <1>6

LEMMA LinedNext == ReaderInv /\ Lined /\ [Next]_vars => Lined'
<1>. SUFFICES ASSUME ReaderInv, Lined, [Next]_vars PROVE Lined'
  OBVIOUS
<1>. USE DEF ReaderInv
<1>1. CASE BeginLine
  BY <1>1, BeginTyped
<1>2. CASE EndLine
  BY <1>2, EndTyped
<1>3. CASE \/ OpenFails \/ FailLine \/ ServiceQuits \/ UNCHANGED vars
           \/ \E p \in Procs : KeyStep(p) /\ UNCHANGED <<logVars, readerVars>>
           \/ \E r \in Readers : ExternalDek(r) \/ Complete(r)
  BY <1>3 DEF OpenFails, FailLine, ServiceQuits, ExternalDek, Complete, vars, logVars, readerVars, Lined
<1>4. ASSUME NEW r \in Readers, ToolLists(r) \/ ToolReads(r) \/ ImportLists(r) \/ ImportReads(r)
      PROVE  Lined'
  BY <1>4, ReadingTyped
<1>5. ASSUME NEW r \in Readers, ReaderQuits(r) PROVE Lined'
  BY <1>5 DEF ReaderQuits, logVars, Lined
<1>6. Tools \subseteq Readers /\ Admins \subseteq Readers
  BY DEF Readers
<1>. QED
  BY <1>1, <1>2, <1>3, <1>4, <1>5, <1>6 DEF Next, ToolEnds, Imported

\* The variables keep their types: the readers never know of a line beyond
\* those the service began, and never look for a part there cannot be.
THEOREM ReadersTyped == Spec => []TypeOK
<1>1. ReaderInv /\ Lined => TypeOK
  BY DEF ReaderInv, KeyInv, LogShape, Lined, TypeOK
<1>. QED
  BY <1>1, ReaderInitInv, ReaderNextInv, LinedInit, LinedNext, PTL DEF Spec

=============================================================================
