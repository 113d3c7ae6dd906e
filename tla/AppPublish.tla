----------------------------- MODULE AppPublish -----------------------------
(***************************************************************************)
(* One app of app-service: its draft, the review, and the versions that    *)
(* are published from it.  A version is a row of app_versions and an       *)
(* object in MinIO under a key made from the version number; the object is *)
(* written before the row is committed.                                    *)
(*                                                                         *)
(* Every handler reads the status, and commits later without looking at it *)
(* again.  The draft is the schema that the app's name, pages and          *)
(* permissions compile to; without a page there is none.                   *)
(***************************************************************************)
EXTENDS Integers

CONSTANTS
  Requests,    \* requests in progress at a time
  Schemas,     \* what a draft may compile to
  Nothing,     \* no page, no version, no object
  MaxVersion   \* bound: the versions that are numbered

ASSUME SchemaAssumption == Nothing \notin Schemas /\ MaxVersion \in Nat

VARIABLES
  status,    \* apps.status
  active,    \* apps.is_active
  current,   \* the number of the version in apps.current_version_id, 0 for NULL
  draft,
  versions,  \* versions[n]: schema_json of the row with version_number n
  object,    \* object[n]: the object {app_id}/v{n}.json
  req,       \* req[r]: how far a request has come
  overlap    \* history: the numbers that two requests had at the same time

vars == <<status, active, current, draft, versions, object, req, overlap>>
appRow == <<status, active, current>>

Numbers == 1..MaxVersion
Status == {"draft", "under_review", "published", "rejected"}
Idle == [at |-> "idle", schema |-> Nothing, num |-> 0]
Step == {"idle", "submitting", "rejecting", "editing", "publishing", "loaded", "numbered", "written"}

TypeOK ==
  /\ status \in Status
  /\ active \in BOOLEAN
  /\ current \in 0..MaxVersion
  /\ draft \in Schemas \cup {Nothing}
  /\ versions \in [Numbers -> Schemas \cup {Nothing}]
  /\ object \in [Numbers -> Schemas \cup {Nothing}]
  /\ req \in [Requests -> [at : Step, schema : Schemas \cup {Nothing}, num : 0..MaxVersion]]
  /\ overlap \in SUBSET Numbers

\* create_app.
Init ==
  /\ status = "draft" /\ active = TRUE /\ current = 0
  /\ draft = Nothing
  /\ versions = [n \in Numbers |-> Nothing]
  /\ object = [n \in Numbers |-> Nothing]
  /\ req = [r \in Requests |-> Idle]
  /\ overlap = {}

-----------------------------------------------------------------------------
Committed == {n \in Numbers : versions[n] # Nothing}

\* A handler finds the app active and its status right.
Begin(r, at, allowed) ==
  /\ req[r] = Idle
  /\ active
  /\ status \in allowed
  /\ req' = [req EXCEPT ![r].at = at]
  /\ UNCHANGED <<appRow, draft, versions, object, overlap>>

End(r, at) == req[r].at = at /\ req' = [req EXCEPT ![r] = Idle]

BeginSubmit(r) == Begin(r, "submitting", {"draft"})
BeginReject(r) == Begin(r, "rejecting", {"under_review"})
BeginEdit(r) == Begin(r, "editing", {"draft", "rejected"})
BeginPublish(r) == Begin(r, "publishing", {"under_review", "draft"})

\* Faulty variant: a status that no other handler knows.
SubmitReviewAs(r) ==
  /\ End(r, "submitting")
  /\ status' = "in_review"
  /\ UNCHANGED <<active, current, draft, versions, object, overlap>>

SubmitReview(r) ==
  /\ End(r, "submitting")
  /\ status' = "under_review"
  /\ UNCHANGED <<active, current, draft, versions, object, overlap>>

Reject(r) ==
  /\ End(r, "rejecting")
  /\ status' = "rejected"
  /\ UNCHANGED <<active, current, draft, versions, object, overlap>>

\* upsert_page and update_app; the status stays what it is.
Edit(r) ==
  /\ End(r, "editing")
  /\ draft' \in Schemas
  /\ UNCHANGED <<appRow, versions, object, overlap>>

\* delete_page and grant_permission look at neither status nor is_active.
DeletePage ==
  /\ draft # Nothing
  /\ draft' \in Schemas \cup {Nothing}
  /\ UNCHANGED <<appRow, versions, object, req, overlap>>

GrantPermission ==
  /\ draft # Nothing
  /\ draft' \in Schemas
  /\ UNCHANGED <<appRow, versions, object, req, overlap>>

DeleteApp ==
  /\ active' = FALSE
  /\ UNCHANGED <<status, current, draft, versions, object, req, overlap>>

(* publish: pages, versions and permissions are loaded by a SELECT each.   *)

LoadPages(r) ==
  /\ req[r].at = "publishing"
  /\ req' = [req EXCEPT ![r].at = "loaded", ![r].schema = draft]
  /\ UNCHANGED <<appRow, draft, versions, object, overlap>>

\* The highest number plus one.
NextVersion(n) == (\A m \in Committed : m < n) /\ (n = 1 \/ n - 1 \in Committed)

\* What the pages loaded before compile to with the permissions of now.
Compiled(r) == IF draft = req[r].schema THEN {draft} ELSE Schemas

\* The permissions are loaded right after the versions.
Draw(r, n) ==
  /\ req[r].at = "loaded" /\ req[r].schema # Nothing
  /\ \E s \in Compiled(r) :
       req' = [req EXCEPT ![r] = [at |-> "numbered", schema |-> s, num |-> n]]
  /\ overlap' = IF \E q \in Requests : req[q].num = n THEN overlap \cup {n} ELSE overlap
  /\ UNCHANGED <<appRow, draft, versions, object>>

\* Faulty variant: the number of the newest version.
LoadVersionsSame(r) ==
  \E n \in Numbers : (NextVersion(n) \/ NextVersion(n + 1)) /\ Draw(r, n)

LoadVersions(r) == \E n \in Numbers : NextVersion(n) /\ Draw(r, n)

PutSchema(r) ==
  /\ req[r].at = "numbered"
  /\ object' = [object EXCEPT ![req[r].num] = req[r].schema]
  /\ req' = [req EXCEPT ![r].at = "written"]
  /\ UNCHANGED <<appRow, draft, versions, overlap>>

AddVersion(r) ==
  /\ End(r, "written")
  /\ versions' = [versions EXCEPT ![req[r].num] = req[r].schema]
  /\ current' = req[r].num
  /\ status' = "published"
  /\ UNCHANGED <<active, draft, object, overlap>>

\* Faulty variant: there is no unique constraint.
CommitVersionTwice(r) == AddVersion(r)

\* uq_app_version admits a number once.
CommitVersion(r) ==
  /\ req[r].at = "written"
  /\ versions[req[r].num] = Nothing
  /\ AddVersion(r)

\* A schema without pages, a version that exists, a failure of the database or
\* of MinIO, a caller who has gone: nothing is committed, and an object that
\* was written stays.
Fail(r) ==
  /\ req[r].at # "idle"
  /\ req' = [req EXCEPT ![r] = Idle]
  /\ UNCHANGED <<appRow, draft, versions, object, overlap>>

-----------------------------------------------------------------------------
PublishStep(r) == LoadPages(r) \/ LoadVersions(r) \/ PutSchema(r) \/ CommitVersion(r)

Next ==
  \/ DeletePage \/ GrantPermission \/ DeleteApp
  \/ \E r \in Requests :
       \/ BeginSubmit(r) \/ BeginReject(r) \/ BeginEdit(r) \/ BeginPublish(r)
       \/ SubmitReview(r) \/ Reject(r) \/ Edit(r) \/ PublishStep(r) \/ Fail(r)

Spec == Init /\ [][Next]_vars

-----------------------------------------------------------------------------
(* Properties.                                                             *)

\* The versions are numbered 1..n without a gap, and the one that GET
\* published serves is the newest, although a publication may be overtaken by
\* others between loading the versions and committing its own.
\* (publisher.py:49-51, models/app.py:30, README "AppVersion")
CurrentIsNewest == Committed = 1..current

\* The object of a committed version is there and says what the row says,
\* unless two publications drew its number at the same time: then the one that
\* is refused may have written last.  (models/app.py:7, "immutable snapshot
\* created on each publish; MinIO key points to frozen schema")
SnapshotIsFrozen ==
  \A n \in Committed : object[n] # Nothing /\ (n \notin overlap => object[n] = versions[n])
=============================================================================
