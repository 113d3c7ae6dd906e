-------------------------- MODULE DocumentScanProofs --------------------------
(***************************************************************************)
(* For any number of files, uploads, workers, retries and faults: only     *)
(* files that passed the scan are served, no bytes are lost, and version   *)
(* numbers have neither gaps nor duplicates.                               *)
(***************************************************************************)
EXTENDS DocumentScan, FiniteSetTheorems, TLAPS

Uploaded == {v \in Versions : HasRow(v)}
Stored(v) == \E b \in Bucket : v \in objects[b]

\* What an upload request in progress knows: its file is nobody else's and in
\* a bucket, and the number it has read is at most one ahead of the rows.
RequestInv(u) ==
  /\ upload[u].at = "idle" => upload[u] = NoUpload
  /\ upload[u].at # "idle" => upload[u].version \in Versions /\ Stored(upload[u].version)
  /\ upload[u].at = "staged" =>
       ~HasRow(upload[u].version) /\ upload[u].number \in 1 .. Cardinality(Uploaded) + 1
  /\ upload[u].at = "committed" => HasRow(upload[u].version)
  /\ \A t \in Uploads \ {u} :
       upload[u].at # "idle" => upload[t].version # upload[u].version

UploadInv == \A u \in Uploads : RequestInv(u)

\* What a message and a scan in progress know: the version has a row, and what
\* was promoted is in the docs bucket.
ScanInv ==
  /\ \A m \in queue : HasRow(m.version)
  /\ \A w \in Workers : scan[w].at # "idle" =>
       /\ scan[w].version \in Versions /\ HasRow(scan[w].version)
       /\ scan[w].at \in {"promoted", "committed"} => scan[w].version \in objects["docs"]

Inv ==
  /\ TypeOK
  /\ UploadInv /\ ScanInv
  /\ OnlyCleanIsServed /\ BytesAreKept
  /\ IsFiniteSet(Uploaded) /\ NumbersAreDense

-----------------------------------------------------------------------------
(* The operators.                                                          *)

LEMMA RecordTypes ==
  /\ NoUpload \in [at : {"idle", "staged", "committed"},
                   version : Versions \cup {NoVersion}, number : Nat]
  /\ NoScan \in [at : {"idle", "marked", "scanned", "promoted", "committed", "quarantined"},
                 version : Versions \cup {NoVersion}, tries : 0..MaxRetries]
BY BoundAssumption DEF NoUpload, NoScan

\* Copying first and removing afterwards never loses a file, and only the
\* target bucket gains one.
LEMMA MoveKeeps ==
  ASSUME TypeOK, NEW v \in Versions, NEW b \in {"docs", "quarantine"}, Move(v, b)
  PROVE  /\ objects' \in [Bucket -> SUBSET Versions]
         /\ objects'[b] = objects[b] \cup {v}
         /\ b # "docs" => objects'["docs"] = objects["docs"]
         /\ \A x \in Versions : Stored(x) => Stored(x)'
         /\ Stored(v)'
<1>1. PICK staged \in {objects["stage"], objects["stage"] \ {v}} :
        objects' = [objects EXCEPT ![b] = @ \cup {v}, !["stage"] = staged]
  BY DEF Move
<1>2. /\ objects \in [Bucket -> SUBSET Versions] /\ staged \in SUBSET Versions
      /\ b \in Bucket /\ b # "stage" /\ "stage" \in Bucket /\ "docs" \in Bucket
  BY DEF TypeOK, Bucket
<1>3. /\ objects' \in [Bucket -> SUBSET Versions]
      /\ objects'[b] = objects[b] \cup {v} /\ objects'["stage"] = staged
      /\ \A c \in Bucket \ {b, "stage"} : objects'[c] = objects[c]
  BY <1>1, <1>2
<1>4. ASSUME NEW x \in Versions, Stored(x) PROVE Stored(x)'
  <2>1. PICK c \in Bucket : x \in objects[c]
    BY <1>4 DEF Stored
  <2>2. CASE x = v
    BY <1>2, <1>3, <2>2 DEF Stored
  <2>3. CASE x # v
    BY <1>2, <1>3, <2>1, <2>3 DEF Stored
  <2> QED BY <2>2, <2>3
<1> QED BY <1>2, <1>3, <1>4 DEF Stored

\* The number that a request reads is the first free one.
LEMMA NextNumberIsFree ==
  ASSUME IsFiniteSet(Uploaded), NumbersAreDense
  PROVE  Cardinality(Uploaded) \in Nat /\ NextNumber = Cardinality(Uploaded) + 1
<1> DEFINE n == Cardinality(Uploaded)
<1>1. n \in Nat
  BY FS_CardinalityType
<1>2. Numbers = 1..n
  BY DEF NumbersAreDense, Uploaded
<1>3. CASE n = 0
  BY <1>2, <1>3 DEF NextNumber
<1>4. CASE n > 0
  <2>1. n \in 1..n /\ \A k \in 1..n : k <= n
    BY <1>1, <1>4
  <2>2. (CHOOSE m \in 1..n : \A k \in 1..n : k <= m) = n
    BY <1>1, <2>1
  <2>3. 1..n # {}
    BY <2>1
  <2> QED BY <1>1, <1>2, <2>2, <2>3 DEF NextNumber
<1> QED BY <1>1, <1>3, <1>4

\* A row with the first free number keeps the numbers dense.
LEMMA DenseStep ==
  ASSUME TypeOK, IsFiniteSet(Uploaded), NumbersAreDense, NEW v \in Versions, ~HasRow(v),
         avStatus' = [avStatus EXCEPT ![v] = "pending"],
         number' = [number EXCEPT ![v] = Cardinality(Uploaded) + 1]
  PROVE  /\ Uploaded' = Uploaded \cup {v}
         /\ IsFiniteSet(Uploaded)' /\ NumbersAreDense'
         /\ Cardinality(Uploaded') = Cardinality(Uploaded) + 1
<1> DEFINE n == Cardinality(Uploaded)
<1>1. n \in Nat
  BY FS_CardinalityType
<1>2. Uploaded' = Uploaded \cup {v} /\ v \notin Uploaded
  BY DEF Uploaded, HasRow, TypeOK
<1>3. IsFiniteSet(Uploaded') /\ Cardinality(Uploaded') = n + 1
  BY <1>2, FS_AddElement
<1>4. {number'[x] : x \in Uploaded'} = {number[x] : x \in Uploaded} \cup {n + 1}
  <2>1. number'[v] = n + 1 /\ \A x \in Uploaded : number'[x] = number[x]
    BY <1>2 DEF TypeOK, Uploaded
  <2> QED BY <1>2, <2>1
<1>5. {number[x] : x \in Uploaded} = 1..n
  BY DEF NumbersAreDense, Numbers, Uploaded
<1>6. 1..(n + 1) = 1..n \cup {n + 1}
  BY <1>1
<1> QED BY <1>2, <1>3, <1>4, <1>5, <1>6 DEF NumbersAreDense, Numbers, Uploaded

\* Steps that insert no row.
LEMMA SameRows ==
  ASSUME IsFiniteSet(Uploaded), NumbersAreDense,
         \A v \in Versions : HasRow(v)' <=> HasRow(v), number' = number
  PROVE  Uploaded' = Uploaded /\ IsFiniteSet(Uploaded)' /\ NumbersAreDense'
<1>1. Uploaded' = Uploaded
  BY DEF Uploaded
<1>2. Numbers' = Numbers
  BY <1>1 DEF Numbers, Uploaded
<1> QED BY <1>1, <1>2 DEF NumbersAreDense, Uploaded

-----------------------------------------------------------------------------
LEMMA InitInv == Init => Inv
<1> SUFFICES ASSUME Init PROVE Inv
  OBVIOUS
<1>1. TypeOK
  <2>1. avStatus \in [Versions -> AvStatus] /\ bucket \in [Versions -> Bucket]
    BY DEF Init, Bucket, AvStatus
  <2>2. objects \in [Bucket -> SUBSET Versions] /\ number \in [Versions -> Nat]
    BY DEF Init
  <2>3. faults \in 0..MaxFaults
    BY BoundAssumption DEF Init
  <2> QED BY <2>1, <2>2, <2>3, RecordTypes DEF Init, TypeOK
<1>2. UploadInv /\ ScanInv
  BY DEF Init, UploadInv, RequestInv, ScanInv, NoUpload, NoScan
<1>3. OnlyCleanIsServed /\ BytesAreKept
  BY DEF Init, OnlyCleanIsServed, CleanIsServable, InfectedStaysOut, BytesAreKept, HasRow, Bucket
<1>4. Uploaded = {} /\ Numbers = {}
  BY DEF Init, Uploaded, Numbers, HasRow
<1>5. IsFiniteSet(Uploaded) /\ Cardinality(Uploaded) = 0
  BY <1>4, FS_EmptySet
<1>6. NumbersAreDense
  BY <1>4, <1>5 DEF NumbersAreDense, Uploaded
<1> QED BY <1>1, <1>2, <1>3, <1>5, <1>6 DEF Inv
-----------------------------------------------------------------------------
(* The upload handlers.                                                    *)

\* Both handlers stage a file nobody has used under a number that is free.
LEMMA StageStep ==
  ASSUME Inv, NEW u \in Uploads, NEW v \in Versions, NEW n \in Nat,
         n \in 1 .. Cardinality(Uploaded) + 1,
         upload[u] = NoUpload, Unused(v),
         objects' = [objects EXCEPT !["stage"] = @ \cup {v}],
         upload' = [upload EXCEPT ![u] = [at |-> "staged", version |-> v, number |-> n]],
         UNCHANGED <<rows, indexed, queue, scan, faults>>
  PROVE  Inv'
<1> USE DEF Inv, rows
<1>1. /\ objects'["stage"] = objects["stage"] \cup {v} /\ "stage" \in Bucket /\ "docs" \in Bucket
      /\ \A b \in Bucket : objects[b] \subseteq objects'[b]
      /\ objects'["docs"] = objects["docs"]
      /\ objects' \in [Bucket -> SUBSET Versions]
  BY DEF TypeOK, Bucket
<1>2. TypeOK'
  BY <1>1 DEF TypeOK
<1>3. \A x \in Versions : (HasRow(x)' <=> HasRow(x)) /\ (Stored(x) => Stored(x)')
  BY <1>1 DEF HasRow, Stored
<1>4. Uploaded' = Uploaded /\ IsFiniteSet(Uploaded)' /\ NumbersAreDense'
  BY <1>3, SameRows
<1>5. UploadInv'
  <2>1. Stored(v)' /\ ~HasRow(v)
    BY <1>1 DEF Stored, Unused
  <2>2. upload'[u] = [at |-> "staged", version |-> v, number |-> n]
    BY DEF TypeOK
  <2>3. \A t \in Uploads \ {u} : upload'[t] = upload[t] /\ upload[t].version # v
    BY DEF TypeOK, Unused
  <2> SUFFICES ASSUME NEW t \in Uploads PROVE RequestInv(t)'
    BY DEF UploadInv
  <2>4. CASE t = u
    BY <1>3, <1>4, <2>1, <2>2, <2>3, <2>4 DEF RequestInv, HasRow, Stored
  <2>5. CASE t # u
    <3>1. RequestInv(t)
      BY DEF UploadInv
    <3> QED BY <1>3, <1>4, <2>2, <2>3, <2>5, <3>1 DEF RequestInv, HasRow, Stored
  <2> QED BY <2>4, <2>5
<1>6. ScanInv'
  BY <1>1 DEF ScanInv, HasRow
<1>7. OnlyCleanIsServed'
  BY <1>1 DEF OnlyCleanIsServed, CleanIsServable, InfectedStaysOut, TypeOK
<1>8. BytesAreKept'
  BY <1>1 DEF BytesAreKept, HasRow
<1> QED BY <1>2, <1>4, <1>5, <1>6, <1>7, <1>8

LEMMA UploadStageFirstStep ==
  ASSUME Inv, NEW u \in Uploads, NEW v \in Versions, UploadStageFirst(u, v)
  PROVE  Inv'
<1>1. 1 \in 1 .. Cardinality(Uploaded) + 1
  BY FS_CardinalityType DEF Inv
<1> QED BY <1>1, StageStep DEF UploadStageFirst

LEMMA UploadStageNextStep ==
  ASSUME Inv, NEW u \in Uploads, NEW v \in Versions, UploadStageNext(u, v)
  PROVE  Inv'
<1>1. NextNumber \in Nat /\ NextNumber \in 1 .. Cardinality(Uploaded) + 1
  BY NextNumberIsFree DEF Inv
<1> QED BY <1>1, StageStep DEF UploadStageNext

\* A request that ends without a row frees its file.
LEMMA EndedRequest ==
  ASSUME TypeOK, UploadInv, NEW u \in Uploads, upload' = [upload EXCEPT ![u] = NoUpload],
         UNCHANGED <<avStatus, objects>>, Uploaded' = Uploaded
  PROVE  UploadInv'
<1> SUFFICES ASSUME NEW t \in Uploads PROVE RequestInv(t)'
  BY DEF UploadInv
<1>1. upload'[u] = NoUpload /\ \A x \in Uploads \ {u} : upload'[x] = upload[x]
  BY DEF TypeOK
<1>2. CASE t = u
  BY <1>1, <1>2 DEF RequestInv, NoUpload
<1>3. CASE t # u
  <2>1. RequestInv(t)
    BY DEF UploadInv
  <2>2. upload[t].at # "idle" => upload[t].version # NoVersion
    BY <2>1, VersionAssumption DEF RequestInv
  <2> QED BY <1>1, <1>3, <2>1, <2>2 DEF RequestInv, HasRow, Stored, NoUpload
<1> QED BY <1>2, <1>3

LEMMA UploadCommitStep ==
  ASSUME Inv, NEW u \in Uploads, UploadCommit(u)
  PROVE  Inv'
<1> USE DEF Inv
<1> DEFINE v == upload[u].version
           n == Cardinality(Uploaded)
<1>1. /\ v \in Versions /\ Stored(v) /\ ~HasRow(v)
      /\ upload[u].number \in 1 .. n + 1 /\ n \in Nat
  BY FS_CardinalityType DEF UploadCommit, UploadInv, RequestInv
<1>2. \A x \in Versions : Stored(x)' <=> Stored(x)
  BY DEF UploadCommit, Stored
<1>3. CASE upload[u].number \in Numbers
  <2>1. upload' = [upload EXCEPT ![u] = NoUpload] /\ UNCHANGED <<created, avStatus, number>>
    BY <1>3 DEF UploadCommit
  <2>2. TypeOK'
    BY <2>1, RecordTypes DEF UploadCommit, TypeOK
  <2>3. Uploaded' = Uploaded /\ IsFiniteSet(Uploaded)' /\ NumbersAreDense'
    BY <2>1, SameRows DEF HasRow
  <2>4. UploadInv'
    BY <2>1, <2>3, EndedRequest DEF UploadCommit
  <2>5. ScanInv' /\ OnlyCleanIsServed' /\ BytesAreKept'
    BY <2>1 DEF UploadCommit, ScanInv, OnlyCleanIsServed, CleanIsServable, InfectedStaysOut, BytesAreKept, HasRow
  <2> QED BY <2>2, <2>3, <2>4, <2>5
<1>4. CASE upload[u].number \notin Numbers
  <2>1. /\ created' = TRUE
        /\ avStatus' = [avStatus EXCEPT ![v] = "pending"]
        /\ number' = [number EXCEPT ![v] = upload[u].number]
        /\ upload' = [upload EXCEPT ![u].at = "committed"]
    BY <1>4 DEF UploadCommit
  <2>2. upload[u].number = n + 1
    <3>1. Numbers = 1..n
      BY DEF NumbersAreDense, Uploaded
    <3> QED BY <1>1, <1>4, <3>1
  <2>3. /\ Uploaded' = Uploaded \cup {v} /\ IsFiniteSet(Uploaded)' /\ NumbersAreDense'
        /\ Cardinality(Uploaded') = n + 1
    BY <1>1, <2>1, <2>2, DenseStep
  <2>4. TypeOK'
    <3>1. avStatus' \in [Versions -> AvStatus]
      BY <2>1 DEF TypeOK, AvStatus
    <3>2. upload' \in [Uploads -> [at : {"idle", "staged", "committed"},
                                   version : Versions \cup {NoVersion}, number : Nat]]
      BY <2>1 DEF TypeOK
    <3>3. number' \in [Versions -> Nat]
      BY <1>1, <2>1 DEF TypeOK
    <3> QED BY <2>1, <3>1, <3>2, <3>3 DEF UploadCommit, TypeOK
  <2>5. \A x \in Versions : HasRow(x)' <=> HasRow(x) \/ x = v
    BY <1>1, <2>1 DEF HasRow, TypeOK
  <2>6. UploadInv'
    <3>1. /\ upload'[u].at = "committed" /\ upload'[u].version = v
          /\ \A t \in Uploads \ {u} : upload'[t] = upload[t] /\ upload[t].version # v
      BY <1>1, <2>1 DEF TypeOK, UploadInv, RequestInv, UploadCommit
    <3> SUFFICES ASSUME NEW t \in Uploads PROVE RequestInv(t)'
      BY DEF UploadInv
    <3>2. CASE t = u
      BY <1>1, <1>2, <2>5, <3>1, <3>2 DEF RequestInv, HasRow, Stored
    <3>3. CASE t # u
      <4>1. upload'[t] = upload[t] /\ upload[t].version # v
        BY <3>1, <3>3
      <4>2. upload[t].number \in 1 .. n + 1 => upload[t].number \in 1 .. (n + 1) + 1
        BY <1>1
      <4>3. RequestInv(t)
        BY DEF UploadInv
      <4>4. \A x \in Uploads \ {t} : upload[t].at # "idle" => upload'[x].version # upload[t].version
        BY <3>1, <4>1, <4>3 DEF RequestInv
      <4> QED BY <1>2, <2>3, <2>5, <4>1, <4>2, <4>3, <4>4 DEF RequestInv, HasRow, Stored
    <3> QED BY <3>2, <3>3
  <2>7. ScanInv'
    BY <2>5 DEF UploadCommit, ScanInv, TypeOK, Message
  <2>8. OnlyCleanIsServed'
    BY <1>1, <2>1 DEF UploadCommit, OnlyCleanIsServed, CleanIsServable, InfectedStaysOut, TypeOK
  <2>9. BytesAreKept'
    BY <1>1, <2>5 DEF UploadCommit, BytesAreKept, Stored
  <2> QED BY <2>3, <2>4, <2>6, <2>7, <2>8, <2>9
<1> QED BY <1>3, <1>4

\* Enqueue, abort and delete leave rows and objects as they are.
LEMMA UploadEndStep ==
  ASSUME Inv, NEW u \in Uploads, UploadEnqueue(u) \/ UploadAbort(u)
  PROVE  Inv'
<1> USE DEF Inv
<1>1. UNCHANGED <<rows, objects, indexed, scan>> /\ upload' = [upload EXCEPT ![u] = NoUpload]
  BY DEF UploadEnqueue, UploadAbort
<1>2. queue' \in SUBSET Message /\ faults' \in 0..MaxFaults /\ \A m \in queue' : HasRow(m.version)
  <2>1. CASE UploadEnqueue(u)
    <3>1. upload[u].version \in Versions /\ HasRow(upload[u].version)
      BY <2>1 DEF UploadEnqueue, UploadInv, RequestInv
    <3>2. [version |-> upload[u].version, tries |-> 0] \in Message
      BY <3>1, BoundAssumption DEF Message
    <3> QED BY <2>1, <3>1, <3>2 DEF UploadEnqueue, TypeOK, ScanInv
  <2>2. CASE UploadAbort(u)
    BY <2>2, BoundAssumption DEF UploadAbort, TypeOK, ScanInv
  <2> QED BY <2>1, <2>2
<1>3. TypeOK'
  BY <1>1, <1>2, RecordTypes DEF TypeOK, rows
<1>4. Uploaded' = Uploaded /\ IsFiniteSet(Uploaded)' /\ NumbersAreDense'
  BY <1>1, SameRows DEF HasRow, rows
<1>5. UploadInv'
  BY <1>1, <1>4, EndedRequest DEF rows
<1>6. ScanInv' /\ OnlyCleanIsServed' /\ BytesAreKept'
  BY <1>1, <1>2 DEF rows, ScanInv, OnlyCleanIsServed, CleanIsServable, InfectedStaysOut, BytesAreKept, HasRow
<1> QED BY <1>3, <1>4, <1>5, <1>6

\* What Inv says does not depend on created and deleted.
LEMMA FrameStep ==
  ASSUME Inv, created' \in BOOLEAN, deleted' \in BOOLEAN,
         UNCHANGED <<current, avStatus, number, bucket, objects, indexed, queue, upload, scan, faults>>
  PROVE  Inv'
<1> USE DEF Inv
<1>1. TypeOK'
  BY DEF TypeOK
<1>2. Uploaded' = Uploaded /\ IsFiniteSet(Uploaded)' /\ NumbersAreDense'
  BY SameRows DEF HasRow
<1>3. UploadInv' /\ ScanInv'
  BY <1>2 DEF UploadInv, RequestInv, ScanInv, HasRow, Stored
<1>4. OnlyCleanIsServed' /\ BytesAreKept'
  BY DEF OnlyCleanIsServed, CleanIsServable, InfectedStaysOut, BytesAreKept, HasRow
<1> QED BY <1>1, <1>2, <1>3, <1>4
-----------------------------------------------------------------------------
(* scan_document.                                                          *)

\* A step of a worker that inserts no row and starts no request keeps what is
\* said of rows and requests, if no file disappears.
LEMMA QuietScan ==
  ASSUME Inv, UNCHANGED <<number, upload>>,
         \A x \in Versions : (HasRow(x)' <=> HasRow(x)) /\ (Stored(x) => Stored(x)')
  PROVE  UploadInv' /\ BytesAreKept' /\ IsFiniteSet(Uploaded)' /\ NumbersAreDense'
<1> USE DEF Inv
<1>1. Uploaded' = Uploaded /\ IsFiniteSet(Uploaded)' /\ NumbersAreDense'
  BY SameRows
<1>2. UploadInv'
  <2> SUFFICES ASSUME NEW t \in Uploads PROVE RequestInv(t)'
    BY DEF UploadInv
  <2>1. RequestInv(t)
    BY DEF UploadInv
  <2> QED BY <1>1, <2>1 DEF RequestInv, HasRow, Stored
<1>3. BytesAreKept'
  BY DEF BytesAreKept, HasRow, Stored
<1> QED BY <1>1, <1>2, <1>3

LEMMA MarkScanningStep ==
  ASSUME Inv, NEW w \in Workers, NEW m \in Message, MarkScanning(w, m)
  PROVE  Inv'
<1> USE DEF Inv
<1>1. m.version \in Versions /\ m.tries \in 0..MaxRetries /\ HasRow(m.version)
  BY DEF Message, MarkScanning, ScanInv
<1>2. /\ avStatus' = [avStatus EXCEPT ![m.version] = "scanning"]
      /\ scan' = [scan EXCEPT ![w] = [at |-> "marked", version |-> m.version, tries |-> m.tries]]
      /\ queue' = queue \ {m}
      /\ UNCHANGED <<created, deleted, current, number, bucket, objects, indexed, upload, faults>>
  BY DEF MarkScanning
<1>3. TypeOK'
  <2>1. avStatus' \in [Versions -> AvStatus]
    BY <1>2 DEF TypeOK, AvStatus
  <2> QED BY <1>1, <1>2, <2>1 DEF TypeOK
<1>4. \A x \in Versions : (HasRow(x)' <=> HasRow(x)) /\ (Stored(x) => Stored(x)')
  BY <1>1, <1>2 DEF HasRow, Stored, TypeOK
<1>5. UploadInv' /\ BytesAreKept' /\ IsFiniteSet(Uploaded)' /\ NumbersAreDense'
  BY <1>2, <1>4, QuietScan
<1>6. ScanInv'
  BY <1>1, <1>2, <1>4 DEF ScanInv, TypeOK, Message, HasRow
<1>7. OnlyCleanIsServed'
  BY <1>1, <1>2 DEF OnlyCleanIsServed, CleanIsServable, InfectedStaysOut, TypeOK
<1> QED BY <1>3, <1>5, <1>6, <1>7

\* Steps of a scan that touch neither the rows nor the objects.
LEMMA ScanOnlyStep ==
  ASSUME Inv, NEW w \in Workers, faults' \in 0..MaxFaults,
         UNCHANGED <<rows, objects, indexed, queue, upload>>,
         \/ ScanStaged(w) /\ scan' = Goto(w, "scanned")
         \/ scan' = [scan EXCEPT ![w] = NoScan]
  PROVE  Inv'
<1> USE DEF Inv, rows
<1>1. TypeOK'
  BY RecordTypes DEF TypeOK, Goto
<1>2. UploadInv' /\ BytesAreKept' /\ IsFiniteSet(Uploaded)' /\ NumbersAreDense'
  BY QuietScan DEF HasRow, Stored
<1>3. ScanInv'
  BY DEF ScanInv, TypeOK, HasRow, ScanStaged, At, Goto, NoScan
<1>4. OnlyCleanIsServed'
  BY DEF OnlyCleanIsServed, CleanIsServable, InfectedStaysOut
<1> QED BY <1>1, <1>2, <1>3, <1>4

\* Promotion and quarantine: only a clean file enters the docs bucket.
LEMMA MoveStep ==
  ASSUME Inv, NEW w \in Workers, Promote(w) \/ Quarantine(w)
  PROVE  Inv'
<1> USE DEF Inv, rows
<1> DEFINE v == scan[w].version
<1>1. v \in Versions /\ HasRow(v)
  BY DEF Promote, Quarantine, At, ScanInv
<1>2. UNCHANGED <<rows, indexed, queue, upload, faults>>
  BY DEF Promote, Quarantine
<1>3. /\ objects' \in [Bucket -> SUBSET Versions]
      /\ objects["docs"] \subseteq objects'["docs"]
      /\ objects'["docs"] \subseteq objects["docs"] \cup ({v} \ Infected)
      /\ \A x \in Versions : Stored(x) => Stored(x)'
      /\ \/ scan' = Goto(w, "promoted") /\ v \in objects'["docs"]
         \/ scan' = Goto(w, "quarantined")
  <2>1. CASE Promote(w)
    BY <1>1, <2>1, MoveKeeps DEF Promote
  <2>2. CASE Quarantine(w)
    BY <1>1, <2>2, MoveKeeps DEF Quarantine
  <2> QED BY <2>1, <2>2
<1>4. TypeOK'
  <2>1. scan' \in [Workers -> [at : {"idle", "marked", "scanned", "promoted", "committed", "quarantined"},
                               version : Versions \cup {NoVersion}, tries : 0..MaxRetries]]
    <3>1. CASE scan' = Goto(w, "promoted")
      BY <3>1 DEF TypeOK, Goto
    <3>2. CASE scan' = Goto(w, "quarantined")
      BY <3>2 DEF TypeOK, Goto
    <3> QED BY <1>3, <3>1, <3>2
  <2> QED BY <1>2, <1>3, <2>1 DEF TypeOK
<1>5. UploadInv' /\ BytesAreKept' /\ IsFiniteSet(Uploaded)' /\ NumbersAreDense'
  BY <1>2, <1>3, QuietScan DEF HasRow
<1>6. ScanInv'
  BY <1>1, <1>2, <1>3 DEF ScanInv, TypeOK, HasRow, Goto
<1>7. CleanIsServable'
  <2> SUFFICES ASSUME NEW x \in Versions, avStatus[x] = "clean"
               PROVE  x \notin Infected /\ x \in objects'[bucket[x]] /\ bucket[x] = "docs"
    BY <1>2 DEF CleanIsServable
  <2> QED BY <1>3 DEF OnlyCleanIsServed, CleanIsServable
<1>8. InfectedStaysOut'
  BY <1>2, <1>3 DEF OnlyCleanIsServed, InfectedStaysOut
<1> QED BY <1>4, <1>5, <1>6, <1>7, <1>8 DEF OnlyCleanIsServed

LEMMA CommitCleanStep ==
  ASSUME Inv, NEW w \in Workers, CommitClean(w)
  PROVE  Inv'
<1> USE DEF Inv
<1> DEFINE v == scan[w].version
<1>1. v \in Versions /\ HasRow(v) /\ v \in objects["docs"] /\ v \notin Infected
  BY DEF CommitClean, At, ScanInv, OnlyCleanIsServed, InfectedStaysOut
<1>2. /\ avStatus' = [avStatus EXCEPT ![v] = "clean"]
      /\ bucket' = [bucket EXCEPT ![v] = "docs"]
      /\ current' = v
      /\ scan' = Goto(w, "committed")
      /\ UNCHANGED <<created, deleted, number, objects, indexed, queue, upload, faults>>
  BY DEF CommitClean
<1>3. TypeOK'
  <2>1. avStatus' \in [Versions -> AvStatus] /\ bucket' \in [Versions -> Bucket]
    BY <1>2 DEF TypeOK, AvStatus, Bucket
  <2>2. scan' \in [Workers -> [at : {"idle", "marked", "scanned", "promoted", "committed", "quarantined"},
                               version : Versions \cup {NoVersion}, tries : 0..MaxRetries]]
    BY <1>2 DEF TypeOK, Goto
  <2> QED BY <1>1, <1>2, <2>1, <2>2 DEF TypeOK
<1>4. \A x \in Versions : (HasRow(x)' <=> HasRow(x)) /\ (Stored(x) => Stored(x)')
  BY <1>1, <1>2 DEF HasRow, Stored, TypeOK
<1>5. UploadInv' /\ BytesAreKept' /\ IsFiniteSet(Uploaded)' /\ NumbersAreDense'
  BY <1>2, <1>4, QuietScan
<1>6. ScanInv'
  BY <1>1, <1>2, <1>4 DEF ScanInv, TypeOK, Message, HasRow, Goto
<1>7. OnlyCleanIsServed'
  BY <1>1, <1>2 DEF OnlyCleanIsServed, CleanIsServable, InfectedStaysOut, TypeOK
<1> QED BY <1>3, <1>5, <1>6, <1>7

LEMMA IndexDocumentStep ==
  ASSUME Inv, NEW w \in Workers, IndexDocument(w)
  PROVE  Inv'
<1> USE DEF Inv, rows
<1>1. scan[w].version \in Versions /\ scan[w].version \in objects["docs"]
  BY DEF IndexDocument, At, ScanInv
<1>2. TypeOK'
  BY <1>1, RecordTypes DEF IndexDocument, TypeOK
<1>3. UploadInv' /\ BytesAreKept' /\ IsFiniteSet(Uploaded)' /\ NumbersAreDense'
  BY QuietScan DEF IndexDocument, HasRow, Stored
<1>4. ScanInv'
  BY DEF IndexDocument, ScanInv, TypeOK, HasRow, NoScan
<1>5. OnlyCleanIsServed'
  BY <1>1 DEF IndexDocument, OnlyCleanIsServed, CleanIsServable, InfectedStaysOut
<1> QED BY <1>2, <1>3, <1>4, <1>5

\* A verdict or an error is written, and the scan ends.
LEMMA MarkedStep ==
  ASSUME Inv, NEW w \in Workers, scan[w].at # "idle",
         NEW st \in {"infected", "error", avStatus[scan[w].version]},
         avStatus' = [avStatus EXCEPT ![scan[w].version] = st],
         \/ queue' = queue
         \/ /\ scan[w].tries < MaxRetries
            /\ queue' = queue \cup {[version |-> scan[w].version, tries |-> scan[w].tries + 1]},
         scan' = [scan EXCEPT ![w] = NoScan],
         faults' \in 0..MaxFaults,
         UNCHANGED <<created, deleted, current, number, bucket, objects, indexed, upload>>
  PROVE  Inv'
<1> USE DEF Inv
<1> DEFINE v == scan[w].version
<1>1. v \in Versions /\ HasRow(v)
  BY DEF ScanInv
<1>2. st \in AvStatus /\ st # "none" /\ (st = "clean" => avStatus[v] = "clean")
  BY <1>1 DEF AvStatus, TypeOK, HasRow
<1>3. queue' \in SUBSET Message /\ \A m \in queue' : m \in queue \/ m.version = v
  BY <1>1, BoundAssumption DEF TypeOK, Message
<1>4. TypeOK'
  BY <1>1, <1>2, <1>3, RecordTypes DEF TypeOK
<1>5. \A x \in Versions : (HasRow(x)' <=> HasRow(x)) /\ (Stored(x) => Stored(x)')
  BY <1>1, <1>2 DEF HasRow, Stored, TypeOK
<1>6. UploadInv' /\ BytesAreKept' /\ IsFiniteSet(Uploaded)' /\ NumbersAreDense'
  BY <1>5, QuietScan
<1>7. ScanInv'
  BY <1>1, <1>3, <1>5 DEF ScanInv, TypeOK, Message, HasRow, NoScan
<1>8. OnlyCleanIsServed'
  BY <1>1, <1>2 DEF OnlyCleanIsServed, CleanIsServable, InfectedStaysOut, TypeOK
<1> QED BY <1>4, <1>6, <1>7, <1>8

LEMMA HandleExceptionStep ==
  ASSUME Inv, NEW w \in Workers, scan[w].at # "idle", HandleException(w), faults' \in 0..MaxFaults
  PROVE  Inv'
<1>1. PICK st \in {"error", avStatus[scan[w].version]} :
        avStatus' = [avStatus EXCEPT ![scan[w].version] = st]
  BY DEF HandleException
<1> QED BY <1>1, MarkedStep DEF HandleException

-----------------------------------------------------------------------------
LEMMA NextInv == Inv /\ [Next]_vars => Inv'
<1> SUFFICES ASSUME Inv, [Next]_vars PROVE Inv'
  OBVIOUS
<1>1. ASSUME NEW u \in Uploads, UploadNext(u) PROVE Inv'
  BY <1>1, UploadStageFirstStep, UploadStageNextStep, UploadCommitStep, UploadEndStep DEF UploadNext
<1>2. CASE DeleteDocument \/ UNCHANGED vars
  BY <1>2, FrameStep DEF DeleteDocument, vars, Inv, TypeOK
<1>3. ASSUME NEW w \in Workers, ScanProgress(w) PROVE Inv'
  <2>1. CASE \E m \in Message : MarkScanning(w, m)
    BY <2>1, MarkScanningStep
  <2>2. CASE ScanStaged(w)
    BY <2>2, ScanOnlyStep DEF ScanStaged, Inv, TypeOK
  <2>3. CASE Promote(w) \/ Quarantine(w)
    BY <2>3, MoveStep
  <2>4. CASE CommitClean(w)
    BY <2>4, CommitCleanStep
  <2>5. CASE IndexDocument(w)
    BY <2>5, IndexDocumentStep
  <2>6. CASE CommitInfected(w)
    BY <2>6, MarkedStep DEF CommitInfected, At, Inv, TypeOK
  <2>7. CASE StagedObjectMissing(w)
    BY <2>7, HandleExceptionStep DEF StagedObjectMissing, At, Inv, TypeOK
  <2> QED BY <1>3, <2>1, <2>2, <2>3, <2>4, <2>5, <2>6, <2>7 DEF ScanProgress
<1>4. ASSUME NEW w \in Workers, ScanRaises(w) \/ ScanCrashes(w) PROVE Inv'
  <2>1. faults' \in 0..MaxFaults
    BY <1>4, BoundAssumption DEF ScanRaises, ScanCrashes, Inv, TypeOK
  <2>2. CASE ScanRaises(w)
    BY <2>1, <2>2, HandleExceptionStep DEF ScanRaises, At
  <2>3. CASE ScanCrashes(w)
    BY <2>1, <2>3, ScanOnlyStep DEF ScanCrashes
  <2> QED BY <1>4, <2>2, <2>3
<1> QED BY <1>1, <1>2, <1>3, <1>4 DEF Next

LEMMA SpecInv == Spec => []Inv
BY InitInv, NextInv, PTL DEF Spec

\* Rows, objects, messages and requests stay well typed.
THEOREM ScanTypes == Spec => []TypeOK
BY SpecInv, PTL DEF Inv

\* No file is downloaded, pointed at or found that has not passed the scan.
THEOREM CleanOnly == Spec => []OnlyCleanIsServed
BY SpecInv, PTL DEF Inv

\* Whatever fails, the bytes of a version with a row are in some bucket.
THEOREM BytesStay == Spec => []BytesAreKept
BY SpecInv, PTL DEF Inv

\* Version numbers are 1, 2, 3, ... however uploads race.
THEOREM DenseVersions == Spec => []NumbersAreDense
BY SpecInv, PTL DEF Inv
=============================================================================
