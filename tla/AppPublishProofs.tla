-------------------------- MODULE AppPublishProofs --------------------------
(***************************************************************************)
(* Proofs about AppPublish, for any number of requests and versions.       *)
(*                                                                         *)
(* CurrentIsNewest holds because a number is at most one above the newest  *)
(* version from the moment it is drawn (DrawnInv) and the unique           *)
(* constraint refuses all the lower ones.  SnapshotIsFrozen needs that a   *)
(* number which two requests have, or which a request still has when it is *)
(* committed, is in overlap (SharedInv), and that an object whose number   *)
(* nobody shares holds its writer's schema (WrittenInv).                   *)
(***************************************************************************)
EXTENDS AppPublish, TLAPS

Drawn(r) == req[r].at \in {"numbered", "written"}

DrawnInv ==
  \A r \in Requests :
    /\ Drawn(r) => req[r].num \in 1..(current + 1) /\ req[r].num \in Numbers /\ req[r].schema \in Schemas
    /\ ~Drawn(r) => req[r].num = 0

SharedInv ==
  /\ \A r, q \in Requests : r # q /\ req[r].num = req[q].num /\ req[r].num # 0 => req[r].num \in overlap
  /\ \A r \in Requests : req[r].num \in Committed => req[r].num \in overlap

WrittenInv ==
  \A r \in Requests : req[r].at = "written" =>
    /\ object[req[r].num] # Nothing
    /\ req[r].num \notin overlap => object[req[r].num] = req[r].schema

Inv == TypeOK /\ CurrentIsNewest /\ DrawnInv /\ SharedInv /\ WrittenInv /\ SnapshotIsFrozen

LEMMA InitInv == Init => Inv
<1> SUFFICES ASSUME Init PROVE Inv
  OBVIOUS
<1>1. Committed = {}
  BY DEF Init, Committed
<1>2. TypeOK
  BY SchemaAssumption DEF Init, TypeOK, Status, Step, Idle, Numbers
<1>3. CurrentIsNewest /\ SnapshotIsFrozen
  BY <1>1 DEF Init, CurrentIsNewest, SnapshotIsFrozen
<1>4. DrawnInv /\ SharedInv /\ WrittenInv
  BY <1>1 DEF Init, DrawnInv, Drawn, SharedInv, WrittenInv, Idle
<1> QED BY <1>2, <1>3, <1>4 DEF Inv

\* A step that neither touches versions, objects and numbers nor lets a
\* request go back keeps everything but the types by their names.
LEMMA QuietStep ==
  ASSUME Inv, TypeOK', UNCHANGED <<current, versions, object, overlap>>,
         \A r \in Requests : req'[r] = req[r] \/ (~Drawn(r)' /\ req'[r].num = 0)
  PROVE  Inv'
<1> USE DEF Inv
<1>1. Committed' = Committed
  BY DEF Committed
<1>2. CurrentIsNewest' /\ SnapshotIsFrozen'
  BY <1>1 DEF CurrentIsNewest, SnapshotIsFrozen
<1>3. DrawnInv'
  BY DEF DrawnInv, Drawn
<1>4. 0 \notin Committed
  BY SchemaAssumption DEF Committed, Numbers
<1>5. SharedInv'
  BY <1>1, <1>4 DEF SharedInv
<1>6. WrittenInv'
  BY DEF WrittenInv, Drawn
<1> QED BY <1>2, <1>3, <1>5, <1>6

LEMMA QuietActions ==
  ASSUME Inv, NEW r \in Requests,
         \/ DeletePage \/ GrantPermission \/ DeleteApp
         \/ BeginSubmit(r) \/ BeginReject(r) \/ BeginEdit(r) \/ BeginPublish(r)
         \/ SubmitReview(r) \/ Reject(r) \/ Edit(r) \/ LoadPages(r) \/ Fail(r)
  PROVE  Inv'
<1> USE DEF appRow
<1>1. TypeOK'
  <2> USE DEF Inv, TypeOK
  <2>1. CASE DeletePage \/ GrantPermission \/ DeleteApp
    BY <2>1 DEF DeletePage, GrantPermission, DeleteApp
  <2>2. CASE BeginSubmit(r) \/ BeginReject(r) \/ BeginEdit(r) \/ BeginPublish(r)
    BY <2>2 DEF BeginSubmit, BeginReject, BeginEdit, BeginPublish, Begin, Step
  <2>3. Idle \in [at : Step, schema : Schemas \cup {Nothing}, num : 0..MaxVersion]
    BY SchemaAssumption DEF Idle, Step
  <2>4. CASE SubmitReview(r) \/ Reject(r) \/ Edit(r) \/ Fail(r)
    BY <2>3, <2>4 DEF SubmitReview, Reject, Edit, Fail, End, Status
  <2>5. CASE LoadPages(r)
    BY <2>5 DEF LoadPages, Step
  <2> QED BY <2>1, <2>2, <2>4, <2>5
<1>2. UNCHANGED <<current, versions, object, overlap>>
  BY DEF DeletePage, GrantPermission, DeleteApp, BeginSubmit, BeginReject, BeginEdit,
         BeginPublish, Begin, SubmitReview, Reject, Edit, LoadPages, Fail, End
<1>3. \A q \in Requests : req'[q] = req[q] \/ (~Drawn(q)' /\ req'[q].num = 0)
  BY DEF Inv, TypeOK, DrawnInv, Drawn, DeletePage, GrantPermission, DeleteApp, BeginSubmit, BeginReject,
         BeginEdit, BeginPublish, Begin, SubmitReview, Reject, Edit, LoadPages, Fail, End, Idle
<1> QED BY <1>1, <1>2, <1>3, QuietStep

\* The number that is drawn is the one above the newest version.
LEMMA NextIsCurrentPlusOne ==
  ASSUME Inv, NEW n \in Numbers, NextVersion(n)
  PROVE  n = current + 1
<1>1. Committed = 1..current /\ current \in Nat /\ n \in Nat \ {0}
  BY SchemaAssumption DEF Inv, TypeOK, CurrentIsNewest, Numbers
<1>2. n <= current + 1
  BY <1>1 DEF NextVersion
<1>3. n > current
  BY <1>1 DEF NextVersion
<1> QED BY <1>1, <1>2, <1>3

LEMMA LoadVersionsInv ==
  ASSUME Inv, NEW r \in Requests, LoadVersions(r)
  PROVE  Inv'
<1> USE DEF Inv
<1>1. PICK n \in Numbers : NextVersion(n) /\ Draw(r, n)
  BY DEF LoadVersions
<1>0. PICK s \in Schemas : req' = [req EXCEPT ![r] = [at |-> "numbered", schema |-> s, num |-> n]]
  <2>1. PICK s \in Compiled(r) : req' = [req EXCEPT ![r] = [at |-> "numbered", schema |-> s, num |-> n]]
    BY <1>1 DEF Draw
  <2>2. s \in Schemas
    BY <1>1, <2>1 DEF Draw, Compiled, TypeOK
  <2> QED BY <2>1, <2>2
<1>2. n = current + 1 /\ n \in Int /\ n # 0
  BY <1>1, NextIsCurrentPlusOne, SchemaAssumption DEF TypeOK, Numbers
<1>3. TypeOK'
  <2>1. n \in 0..MaxVersion
    BY SchemaAssumption DEF Numbers
  <2>2. req' \in [Requests -> [at : Step, schema : Schemas \cup {Nothing}, num : 0..MaxVersion]]
    BY <1>0, <2>1 DEF TypeOK, Step
  <2>3. overlap' \in SUBSET Numbers
    BY <1>1 DEF Draw, TypeOK
  <2> QED BY <1>1, <2>2, <2>3 DEF Draw, TypeOK, appRow
<1>4. Committed' = Committed /\ n \notin Committed
  BY <1>1, <1>2 DEF Draw, Committed, NextVersion
<1>5. overlap \subseteq overlap' /\ UNCHANGED <<current, versions, object>>
  BY <1>1 DEF Draw, appRow
<1>6. /\ req'[r].num = n /\ req'[r].at = "numbered" /\ req'[r].schema \in Schemas
      /\ \A q \in Requests \ {r} : req'[q] = req[q]
  BY <1>0 DEF TypeOK
<1>7. CurrentIsNewest' /\ SnapshotIsFrozen'
  BY <1>4, <1>5 DEF CurrentIsNewest, SnapshotIsFrozen
<1>8. DrawnInv'
  BY <1>2, <1>5, <1>6, SchemaAssumption DEF DrawnInv, Drawn, Numbers, TypeOK
<1>9. SharedInv'
  <2>1. \A q \in Requests \ {r} : req'[q].num = n => n \in overlap'
    BY <1>1, <1>6 DEF Draw
  <2> QED BY <2>1, <1>4, <1>5, <1>6 DEF SharedInv
<1>10. WrittenInv'
  BY <1>5, <1>6 DEF WrittenInv
<1> QED BY <1>3, <1>7, <1>8, <1>9, <1>10

LEMMA PutSchemaInv ==
  ASSUME Inv, NEW r \in Requests, PutSchema(r)
  PROVE  Inv'
<1> USE DEF Inv
<1> DEFINE n == req[r].num
<1>1. n \in Numbers /\ n # 0 /\ req[r].schema \in Schemas /\ req[r].schema # Nothing
  BY SchemaAssumption DEF PutSchema, DrawnInv, Drawn, Numbers
<1>2. TypeOK'
  BY <1>1 DEF PutSchema, TypeOK, appRow, Step
<1>3. Committed' = Committed /\ UNCHANGED <<current, versions, overlap>>
  BY DEF PutSchema, Committed, appRow
<1>4. /\ object'[n] = req[r].schema
      /\ \A m \in Numbers \ {n} : object'[m] = object[m]
  BY <1>1 DEF PutSchema, TypeOK
<1>5. /\ \A q \in Requests : req'[q].num = req[q].num /\ req'[q].schema = req[q].schema
      /\ \A q \in Requests \ {r} : req'[q] = req[q]
      /\ req'[r].at = "written" /\ req[r].at = "numbered"
  BY DEF PutSchema, TypeOK
<1>6. CurrentIsNewest'
  BY <1>3 DEF CurrentIsNewest
<1>7. SnapshotIsFrozen'
  \* A committed number that r still has is in overlap.
  BY <1>1, <1>3, <1>4 DEF SnapshotIsFrozen, SharedInv, Committed
<1>8. DrawnInv' /\ SharedInv'
  BY <1>3, <1>5 DEF DrawnInv, Drawn, SharedInv
<1>9. WrittenInv'
  <2> SUFFICES ASSUME NEW q \in Requests, req'[q].at = "written"
               PROVE  /\ object'[req'[q].num] # Nothing
                      /\ req'[q].num \notin overlap => object'[req'[q].num] = req'[q].schema
    BY <1>3 DEF WrittenInv
  <2>1. CASE q = r
    BY <2>1, <1>1, <1>4, <1>5
  <2>2. CASE q # r
    <3>1. req[q].at = "written" /\ req[q].num \in Numbers
      BY <2>2, <1>5 DEF DrawnInv, Drawn
    <3>2. CASE req[q].num = n
      BY <3>1, <3>2, <2>2, <1>1, <1>4, <1>5 DEF SharedInv
    <3>3. CASE req[q].num # n
      BY <3>1, <3>3, <1>4, <1>5 DEF WrittenInv
    <3> QED BY <3>2, <3>3
  <2> QED BY <2>1, <2>2
<1> QED BY <1>2, <1>6, <1>7, <1>8, <1>9

LEMMA CommitVersionInv ==
  ASSUME Inv, NEW r \in Requests, CommitVersion(r)
  PROVE  Inv'
<1> USE DEF Inv
<1> DEFINE n == req[r].num
<1>1. /\ n \in Numbers /\ n \in Int /\ n # 0 /\ n <= current + 1
      /\ req[r].schema \in Schemas /\ req[r].schema # Nothing
  BY SchemaAssumption DEF CommitVersion, AddVersion, End, DrawnInv, Drawn, Numbers, TypeOK
<1>2. n \notin Committed /\ n = current + 1
  BY <1>1, SchemaAssumption DEF CommitVersion, Committed, CurrentIsNewest, TypeOK, Numbers
<1>3. TypeOK'
  BY <1>1, SchemaAssumption DEF CommitVersion, AddVersion, End, TypeOK, Status, Idle, Step, Numbers
<1>4. /\ current' = n /\ UNCHANGED <<object, overlap>>
      /\ versions'[n] = req[r].schema
      /\ \A m \in Numbers \ {n} : versions'[m] = versions[m]
  BY <1>1 DEF CommitVersion, AddVersion, TypeOK
<1>5. /\ req'[r].num = 0 /\ req'[r].at = "idle"
      /\ \A q \in Requests \ {r} : req'[q] = req[q]
  BY DEF CommitVersion, AddVersion, End, Idle, TypeOK
<1>6. Committed' = Committed \cup {n}
  BY <1>1, <1>4 DEF Committed
<1>7. CurrentIsNewest'
  BY <1>1, <1>2, <1>4, <1>6 DEF CurrentIsNewest, TypeOK
<1>8. SnapshotIsFrozen'
  <2>1. object[n] # Nothing /\ (n \notin overlap => object[n] = req[r].schema)
    BY DEF WrittenInv, CommitVersion
  <2> QED BY <2>1, <1>4, <1>6, <1>2 DEF SnapshotIsFrozen, Committed
<1>9. DrawnInv'
  BY <1>2, <1>4, <1>5 DEF DrawnInv, Drawn, TypeOK
<1>10. SharedInv'
  BY <1>1, <1>4, <1>5, <1>6, SchemaAssumption DEF SharedInv, Committed, Numbers
<1>11. WrittenInv'
  BY <1>4, <1>5 DEF WrittenInv
<1> QED BY <1>3, <1>7, <1>8, <1>9, <1>10, <1>11

LEMMA NextInv == Inv /\ [Next]_vars => Inv'
<1> SUFFICES ASSUME Inv, [Next]_vars PROVE Inv'
  OBVIOUS
<1>1. ASSUME UNCHANGED vars PROVE Inv'
  BY <1>1 DEF vars, Inv, TypeOK, CurrentIsNewest, DrawnInv, Drawn, SharedInv, WrittenInv, SnapshotIsFrozen, Committed
<1>2. ASSUME DeletePage \/ GrantPermission \/ DeleteApp PROVE Inv'
  <2>1. TypeOK'
    BY <1>2 DEF Inv, TypeOK, DeletePage, GrantPermission, DeleteApp, appRow
  <2>2. UNCHANGED <<current, versions, object, overlap, req>>
    BY <1>2 DEF DeletePage, GrantPermission, DeleteApp, appRow
  <2> QED BY <2>1, <2>2, QuietStep
<1>3. ASSUME NEW r \in Requests,
             \/ BeginSubmit(r) \/ BeginReject(r) \/ BeginEdit(r) \/ BeginPublish(r)
             \/ SubmitReview(r) \/ Reject(r) \/ Edit(r) \/ LoadPages(r) \/ Fail(r)
      PROVE  Inv'
  BY <1>3, QuietActions
<1>4. ASSUME NEW r \in Requests, LoadVersions(r) \/ PutSchema(r) \/ CommitVersion(r) PROVE Inv'
  BY <1>4, LoadVersionsInv, PutSchemaInv, CommitVersionInv
<1> QED BY <1>1, <1>2, <1>3, <1>4 DEF Next, PublishStep

LEMMA InvHolds == Spec => []Inv
BY InitInv, NextInv, PTL DEF Spec

\* Type correctness, for any number of requests, schemas and versions.
THEOREM AppTypes == Spec => []TypeOK
<1>1. Inv => TypeOK
  BY DEF Inv
<1> QED BY <1>1, InvHolds, PTL

\* The served version is the newest and the numbers have no gap, however many
\* publications, reviews and edits overlap.
THEOREM NewestIsServed == Spec => []CurrentIsNewest
<1>1. Inv => CurrentIsNewest
  BY DEF Inv
<1> QED BY <1>1, InvHolds, PTL

\* Every committed version has its object, and it is the row's own schema
\* unless two publications had drawn the same number.
THEOREM SnapshotsAreFrozen == Spec => []SnapshotIsFrozen
<1>1. Inv => SnapshotIsFrozen
  BY DEF Inv
<1> QED BY <1>1, InvHolds, PTL
=============================================================================
