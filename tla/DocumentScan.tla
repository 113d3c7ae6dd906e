----------------------------- MODULE DocumentScan -----------------------------
(***************************************************************************)
(* One document of document-service: its row and the rows of its versions, *)
(* the three MinIO buckets, the OpenSearch entry, the upload handlers and  *)
(* the Celery task scan_document, which scans a staged file and promotes   *)
(* or quarantines it.  Database commits, object store calls and index      *)
(* writes are separate steps; a worker or a request may stop between any   *)
(* two of them.                                                            *)
(***************************************************************************)
EXTENDS Integers, FiniteSets

CONSTANTS
  Versions,    \* the files that may be uploaded, one DocumentVersion each
  Infected,    \* the files ClamAV reports
  Uploads,     \* upload requests that may be in progress at the same time
  Workers,     \* Celery worker processes of the queue "document"
  MaxRetries,  \* max_retries of scan_document
  MaxFaults,   \* bound: exceptions and crashes in a behaviour
  NoVersion

ASSUME VersionAssumption == Infected \subseteq Versions /\ NoVersion \notin Versions
ASSUME BoundAssumption == MaxRetries \in Nat /\ MaxFaults \in Nat

VARIABLES
  created,   \* the documents row exists
  deleted,   \* documents.is_deleted
  current,   \* documents.current_version_id
  avStatus,  \* document_versions.av_status, "none" without a row
  number,    \* document_versions.version_number, 0 without a row
  bucket,    \* document_versions.minio_bucket
  objects,   \* objects[b]: the files in bucket b
  indexed,   \* the version in the OpenSearch entry of the document
  queue,     \* the messages in the Celery queue
  upload,    \* upload[u]: the upload request in progress
  scan,      \* scan[w]: the scan worker w runs
  faults

vars == <<created, deleted, current, avStatus, number, bucket, objects, indexed,
          queue, upload, scan, faults>>
rows == <<created, deleted, current, avStatus, number, bucket>>

Bucket == {"stage", "docs", "quarantine"}
AvStatus == {"none", "pending", "scanning", "clean", "infected", "error"}
Message == [version : Versions, tries : 0..MaxRetries]
NoUpload == [at |-> "idle", version |-> NoVersion, number |-> 0]
NoScan == [at |-> "idle", version |-> NoVersion, tries |-> 0]

TypeOK ==
  /\ created \in BOOLEAN /\ deleted \in BOOLEAN
  /\ current \in Versions \cup {NoVersion}
  /\ avStatus \in [Versions -> AvStatus]
  /\ number \in [Versions -> Nat]
  /\ bucket \in [Versions -> Bucket]
  /\ objects \in [Bucket -> SUBSET Versions]
  /\ indexed \in Versions \cup {NoVersion}
  /\ queue \in SUBSET Message
  /\ upload \in [Uploads -> [at : {"idle", "staged", "committed"},
                             version : Versions \cup {NoVersion}, number : Nat]]
  /\ scan \in [Workers -> [at : {"idle", "marked", "scanned", "promoted", "committed", "quarantined"},
                           version : Versions \cup {NoVersion}, tries : 0..MaxRetries]]
  /\ faults \in 0..MaxFaults

HasRow(v) == avStatus[v] # "none"
Numbers == {number[v] : v \in {x \in Versions : HasRow(x)}}

\* A file that is in no bucket, row or request yet.
Unused(v) ==
  /\ ~HasRow(v)
  /\ \A b \in Bucket : v \notin objects[b]
  /\ \A u \in Uploads : upload[u].version # v

Init ==
  /\ created = FALSE /\ deleted = FALSE
  /\ current = NoVersion
  /\ avStatus = [v \in Versions |-> "none"]
  /\ number = [v \in Versions |-> 0]
  /\ bucket = [v \in Versions |-> "stage"]
  /\ objects = [b \in Bucket |-> {}]
  /\ indexed = NoVersion
  /\ queue = {}
  /\ upload = [u \in Uploads |-> NoUpload]
  /\ scan = [w \in Workers |-> NoScan]
  /\ faults = 0

-----------------------------------------------------------------------------
(* Upload: version number, object in staging, row, message.                *)

\* max(version_number) + 1, or 1 for the first version of a new document.
NextNumber == IF Numbers = {} THEN 1 ELSE 1 + CHOOSE m \in Numbers : \A n \in Numbers : n <= m

\* POST /documents, before any row of the document exists.  The identifiers
\* are fresh, so no second request can be creating the same document.
UploadStageFirst(u, v) ==
  /\ upload[u] = NoUpload
  /\ ~created /\ \A x \in Uploads : upload[x] = NoUpload
  /\ Unused(v)
  /\ objects' = [objects EXCEPT !["stage"] = @ \cup {v}]
  /\ upload' = [upload EXCEPT ![u] = [at |-> "staged", version |-> v, number |-> 1]]
  /\ UNCHANGED <<rows, indexed, queue, scan, faults>>

\* POST /documents/{id}/versions: the number is read before the file is sent.
UploadStageNext(u, v) ==
  /\ upload[u] = NoUpload
  /\ created /\ ~deleted
  /\ Unused(v)
  /\ objects' = [objects EXCEPT !["stage"] = @ \cup {v}]
  /\ upload' = [upload EXCEPT ![u] = [at |-> "staged", version |-> v, number |-> NextNumber]]
  /\ UNCHANGED <<rows, indexed, queue, scan, faults>>

\* Faulty variant: no unique constraint on (document_id, version_number).
UploadCommitUnchecked(u) ==
  /\ upload[u].at = "staged"
  /\ created' = TRUE
  /\ avStatus' = [avStatus EXCEPT ![upload[u].version] = "pending"]
  /\ number' = [number EXCEPT ![upload[u].version] = upload[u].number]
  /\ upload' = [upload EXCEPT ![u].at = "committed"]
  /\ UNCHANGED <<deleted, current, bucket, objects, indexed, queue, scan, faults>>

\* The insert is refused when another request took the number meanwhile
\* (uq_doc_version); the staged object stays behind.
UploadCommit(u) ==
  /\ upload[u].at = "staged"
  /\ IF upload[u].number \in Numbers
     THEN /\ upload' = [upload EXCEPT ![u] = NoUpload]
          /\ UNCHANGED <<created, avStatus, number>>
     ELSE /\ created' = TRUE
          /\ avStatus' = [avStatus EXCEPT ![upload[u].version] = "pending"]
          /\ number' = [number EXCEPT ![upload[u].version] = upload[u].number]
          /\ upload' = [upload EXCEPT ![u].at = "committed"]
  /\ UNCHANGED <<deleted, current, bucket, objects, indexed, queue, scan, faults>>

UploadEnqueue(u) ==
  /\ upload[u].at = "committed"
  /\ queue' = queue \cup {[version |-> upload[u].version, tries |-> 0]}
  /\ upload' = [upload EXCEPT ![u] = NoUpload]
  /\ UNCHANGED <<rows, objects, indexed, scan, faults>>

\* The request fails or its process dies before it is through.
UploadAbort(u) ==
  /\ upload[u].at # "idle"
  /\ faults < MaxFaults
  /\ faults' = faults + 1
  /\ upload' = [upload EXCEPT ![u] = NoUpload]
  /\ UNCHANGED <<rows, objects, indexed, queue, scan>>

\* DELETE /documents/{id} sets a flag and nothing else.
DeleteDocument ==
  /\ created /\ ~deleted
  /\ deleted' = TRUE
  /\ UNCHANGED <<created, current, avStatus, number, bucket, objects, indexed, queue,
                 upload, scan, faults>>

-----------------------------------------------------------------------------
(* scan_document.                                                          *)

At(w, at) == scan[w].at = at
Goto(w, at) == [scan EXCEPT ![w].at = at]

\* The message is acknowledged and the version marked.
MarkScanning(w, m) ==
  /\ At(w, "idle")
  /\ m \in queue
  /\ queue' = queue \ {m}
  /\ avStatus' = [avStatus EXCEPT ![m.version] = "scanning"]
  /\ scan' = [scan EXCEPT ![w] = [at |-> "marked", version |-> m.version, tries |-> m.tries]]
  /\ UNCHANGED <<created, deleted, current, number, bucket, objects, indexed, upload, faults>>

\* Download from staging, and the ClamAV verdict.
ScanStaged(w) ==
  /\ At(w, "marked")
  /\ scan[w].version \in objects["stage"]
  /\ scan' = Goto(w, "scanned")
  /\ UNCHANGED <<rows, objects, indexed, queue, upload, faults>>

\* The file is copied to bucket b, then removed from staging; the removal is
\* best effort, and a crash may come between the two calls.
Move(v, b) ==
  \E staged \in {objects["stage"], objects["stage"] \ {v}} :
    objects' = [objects EXCEPT ![b] = @ \cup {v}, !["stage"] = staged]

\* Faulty variants: any verdict promotes; staging is emptied before the copy.
PromoteAny(w) ==
  /\ At(w, "scanned")
  /\ Move(scan[w].version, "docs")
  /\ scan' = Goto(w, "promoted")
  /\ UNCHANGED <<rows, indexed, queue, upload, faults>>

MoveRemovingFirst(v, b) ==
  \E copied \in {objects[b], objects[b] \cup {v}} :
    objects' = [objects EXCEPT ![b] = copied, !["stage"] = @ \ {v}]

PromoteRemovingFirst(w) ==
  /\ At(w, "scanned") /\ scan[w].version \notin Infected
  /\ MoveRemovingFirst(scan[w].version, "docs")
  /\ scan' = Goto(w, "promoted")
  /\ UNCHANGED <<rows, indexed, queue, upload, faults>>

Promote(w) ==
  /\ At(w, "scanned") /\ scan[w].version \notin Infected
  /\ Move(scan[w].version, "docs")
  /\ scan' = Goto(w, "promoted")
  /\ UNCHANGED <<rows, indexed, queue, upload, faults>>

\* Faulty variant: the new bucket is not written.
CommitCleanOldBucket(w) ==
  /\ At(w, "promoted")
  /\ avStatus' = [avStatus EXCEPT ![scan[w].version] = "clean"]
  /\ current' = scan[w].version
  /\ scan' = Goto(w, "committed")
  /\ UNCHANGED <<created, deleted, number, bucket, objects, indexed, queue, upload, faults>>

CommitClean(w) ==
  /\ At(w, "promoted")
  /\ avStatus' = [avStatus EXCEPT ![scan[w].version] = "clean"]
  /\ bucket' = [bucket EXCEPT ![scan[w].version] = "docs"]
  /\ current' = scan[w].version
  /\ scan' = Goto(w, "committed")
  /\ UNCHANGED <<created, deleted, number, objects, indexed, queue, upload, faults>>

\* The row of a deleted document is still there, so it is indexed too.
IndexDocument(w) ==
  /\ At(w, "committed")
  /\ indexed' = scan[w].version
  /\ scan' = [scan EXCEPT ![w] = NoScan]
  /\ UNCHANGED <<rows, objects, queue, upload, faults>>

Quarantine(w) ==
  /\ At(w, "scanned") /\ scan[w].version \in Infected
  /\ Move(scan[w].version, "quarantine")
  /\ scan' = Goto(w, "quarantined")
  /\ UNCHANGED <<rows, indexed, queue, upload, faults>>

\* Faulty variant: the verdict is not written.
CommitInfectedSilently(w) ==
  /\ At(w, "quarantined")
  /\ scan' = [scan EXCEPT ![w] = NoScan]
  /\ UNCHANGED <<rows, objects, indexed, queue, upload, faults>>

CommitInfected(w) ==
  /\ At(w, "quarantined")
  /\ avStatus' = [avStatus EXCEPT ![scan[w].version] = "infected"]
  /\ scan' = [scan EXCEPT ![w] = NoScan]
  /\ UNCHANGED <<created, deleted, current, number, bucket, objects, indexed, queue, upload, faults>>

\* Faulty variant: one retry more than max_retries.
HandleExceptionOneMore(w) ==
  /\ avStatus' = [avStatus EXCEPT ![scan[w].version] = "error"]
  /\ queue' = IF scan[w].tries <= MaxRetries
              THEN queue \cup {[version |-> scan[w].version, tries |-> scan[w].tries + 1]}
              ELSE queue
  /\ scan' = [scan EXCEPT ![w] = NoScan]
  /\ UNCHANGED <<created, deleted, current, number, bucket, objects, indexed, upload>>

\* The except branch: the version is marked 'error', unless that write fails
\* as well, and the message is published again until max_retries.
HandleException(w) ==
  /\ \E st \in {"error", avStatus[scan[w].version]} :
       avStatus' = [avStatus EXCEPT ![scan[w].version] = st]
  /\ queue' = IF scan[w].tries < MaxRetries
              THEN queue \cup {[version |-> scan[w].version, tries |-> scan[w].tries + 1]}
              ELSE queue
  /\ scan' = [scan EXCEPT ![w] = NoScan]
  /\ UNCHANGED <<created, deleted, current, number, bucket, objects, indexed, upload>>

\* The download of an object that is not in staging raises.
StagedObjectMissing(w) ==
  /\ At(w, "marked")
  /\ scan[w].version \notin objects["stage"]
  /\ HandleException(w)
  /\ UNCHANGED faults

\* Any call of the try block may raise ...
ScanRaises(w) ==
  /\ ~At(w, "idle")
  /\ faults < MaxFaults
  /\ faults' = faults + 1
  /\ HandleException(w)

\* ... and the worker may die; the message was acknowledged on receipt.
ScanCrashes(w) ==
  /\ ~At(w, "idle")
  /\ faults < MaxFaults
  /\ faults' = faults + 1
  /\ scan' = [scan EXCEPT ![w] = NoScan]
  /\ UNCHANGED <<rows, objects, indexed, queue, upload>>
-----------------------------------------------------------------------------
UploadNext(u) ==
  \/ \E v \in Versions : UploadStageFirst(u, v) \/ UploadStageNext(u, v)
  \/ UploadCommit(u) \/ UploadEnqueue(u) \/ UploadAbort(u)

ScanProgress(w) ==
  \/ \E m \in Message : MarkScanning(w, m)
  \/ ScanStaged(w) \/ Promote(w) \/ CommitClean(w) \/ IndexDocument(w)
  \/ Quarantine(w) \/ CommitInfected(w) \/ StagedObjectMissing(w)

Next ==
  \/ \E u \in Uploads : UploadNext(u)
  \/ DeleteDocument
  \/ \E w \in Workers : ScanProgress(w) \/ ScanRaises(w) \/ ScanCrashes(w)

Spec == Init /\ [][Next]_vars

\* The workers run, and a request that has staged its file runs to its end.
FairSpec ==
  /\ Spec
  /\ \A w \in Workers : WF_vars(ScanProgress(w))
  /\ \A u \in Uploads : WF_vars(UploadCommit(u) \/ UploadEnqueue(u))

-----------------------------------------------------------------------------
(* Properties.                                                             *)

\* A version the download handler would hand out (av_status 'clean') was not
\* found infected, and its bytes are in the bucket its row names.
\* (documents.py:294-304; README.md:13, only clean versions are downloadable)
CleanIsServable ==
  \A v \in Versions : avStatus[v] = "clean" =>
    v \notin Infected /\ v \in objects[bucket[v]] /\ bucket[v] = "docs"

\* The document never points at, nor does search return, a file that has not
\* passed the scan, and no infected file reaches the docs bucket.
InfectedStaysOut ==
  /\ objects["docs"] \cap Infected = {}
  /\ current # NoVersion => current \in objects["docs"]
  /\ indexed # NoVersion => indexed \in objects["docs"]

\* What has not passed the scan is neither downloaded nor pointed at nor found,
\* whatever fails between the object store, the rows and the index.
OnlyCleanIsServed == CleanIsServable /\ InfectedStaysOut

\* No step loses the bytes of a version that has a row, whatever fails.
BytesAreKept ==
  \A v \in Versions : HasRow(v) => \E b \in Bucket : v \in objects[b]

\* Concurrent uploads leave numbers 1, 2, 3, ... without gaps or duplicates.
NumbersAreDense ==
  LET uploaded == {v \in Versions : HasRow(v)}
  IN Numbers = 1..Cardinality(uploaded)

\* Every accepted upload is decided, unless a call failed or a process died:
\* nothing looks for versions that were left behind.
UploadIsDecided ==
  \A v \in Versions :
    (avStatus[v] = "pending") ~>
      (avStatus[v] = (IF v \in Infected THEN "infected" ELSE "clean") \/ faults > 0)
=============================================================================
