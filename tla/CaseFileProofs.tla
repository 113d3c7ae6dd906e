---------------------------- MODULE CaseFileProofs ----------------------------
(***************************************************************************)
(* For any users, requests and operations: the timeline accounts for the   *)
(* case, and the consumer adds every event of something linked once.  And  *)
(* the parts of case-service together implement the specification of each. *)
(***************************************************************************)
EXTENDS CaseService, CaseNumbersProofs, SequenceTheorems, TLAPS

-----------------------------------------------------------------------------
(* The inductive invariant.  What CaseFollowsTimeline says with sets of    *)
(* positions and the last of each is said here of single positions, so     *)
(* that a step has one new position to look at.                            *)

Is(i, events) == i \in DOMAIN timeline /\ timeline[i].event \in events

\* No entry after position n comes back to the status.
LastChange(i) ==
  Is(i, {"status_change"}) /\ \A j \in DOMAIN timeline : Is(j, {"status_change"}) => j <= i

StatusInv ==
  /\ \/ status = "open" /\ \A i \in DOMAIN timeline : ~Is(i, {"status_change"})
     \/ \E i \in DOMAIN timeline : LastChange(i) /\ timeline[i].to = status
  /\ closedAt # Nobody =>
       \E i \in DOMAIN timeline : /\ Is(i, {"status_change"}) /\ timeline[i].to = "closed"
                                  /\ timeline[i].id = closedAt
  /\ closedAt = Nobody =>
       \A i \in DOMAIN timeline : ~(Is(i, {"status_change"}) /\ timeline[i].to = "closed")

Adds(i, u) == Is(i, {"case_created", "participant_added"}) /\ timeline[i].about = u
Removes(i, u) == Is(i, {"participant_removed"}) /\ timeline[i].about = u

ParticipantInv(u) ==
  /\ participants[u] = NoRow =>
       \A i \in DOMAIN timeline : Adds(i, u) => \E j \in DOMAIN timeline : Removes(j, u) /\ i < j
  /\ participants[u] # NoRow =>
       \E i \in DOMAIN timeline :
         /\ Adds(i, u) /\ \A j \in DOMAIN timeline : Adds(j, u) => j <= i
         /\ participants[u] = [id |-> timeline[i].id, role |-> timeline[i].to]

\* Somebody whom an entry before position n made an editor, or an admin.
WasEditor(u, n) ==
  u \in Admins \/ \E j \in DOMAIN timeline :
                    j < n /\ Adds(j, u) /\ timeline[j].to \in Editors

ActorInv(i) == timeline[i].event = "case_created" \/ WasEditor(timeline[i].actor, i)

\* What a request has read is of the kind its operation needs, whoever sent it
\* was an editor at the check, and a case that was closed then still has its
\* closed_at.
RequestInv(r) ==
  /\ req[r].at \in {"checked", "posted"} => WasEditor(UserOf[r], Len(timeline) + 1)
  /\ req[r].at = "posted" => req[r].op = "start"
  /\ req[r].closedAt # Nobody => closedAt # Nobody
  /\ req[r].op = "update" => req[r].to \in Statuses
  /\ req[r].op = "add" => req[r].about \in Users /\ req[r].to \in Roles
  /\ req[r].op = "remove" => req[r].about \in Users
  /\ req[r].op = "link" => req[r].about \in Instances \cup Requests
  /\ req[r].op = "link_document" => req[r].about \in Documents
  /\ req[r].op = "start" => req[r].about = r

FileInv ==
  /\ FileTypeOK
  /\ StatusInv
  /\ \A u \in Users : ParticipantInv(u)
  /\ LinksFollowTimeline
  /\ \A i \in DOMAIN timeline : ActorInv(i)
  /\ \A r \in Requests : RequestInv(r)

-----------------------------------------------------------------------------
(* A timeline with one more entry.                                         *)

AtWork(r) == req[r].at \in {"checked", "posted"}

LEMMA TimelineType ==
  ASSUME FileTypeOK
  PROVE  /\ Len(timeline) \in Nat /\ DOMAIN timeline = 1 .. Len(timeline)
         /\ \A i \in DOMAIN timeline : timeline[i] \in Entry /\ i \in Nat /\ i <= Len(timeline)
BY DEF FileTypeOK

LEMMA Grown ==
  ASSUME FileTypeOK, NEW e \in Entry, timeline' = Append(timeline, e)
  PROVE  /\ timeline' \in Seq(Entry)
         /\ Len(timeline') = Len(timeline) + 1
         /\ DOMAIN timeline' = DOMAIN timeline \cup {Len(timeline) + 1}
         /\ timeline'[Len(timeline) + 1] = e
         /\ \A i \in DOMAIN timeline : timeline'[i] = timeline[i] /\ i \in Nat /\ i < Len(timeline) + 1
         /\ Len(timeline) + 1 \in Nat
<1>1. timeline \in Seq(Entry)
  BY DEF FileTypeOK
<1>2. Len(timeline) \in Nat /\ DOMAIN timeline = 1 .. Len(timeline)
  BY <1>1
<1>3. /\ timeline' \in Seq(Entry) /\ Len(timeline') = Len(timeline) + 1
      /\ timeline'[Len(timeline) + 1] = e
      /\ \A i \in 1 .. Len(timeline) : timeline'[i] = timeline[i]
  BY <1>1, AppendProperties
<1>4. DOMAIN timeline' = 1 .. Len(timeline) + 1
  BY <1>2, <1>3
<1> QED BY <1>2, <1>3, <1>4

LEMMA GrownEditors ==
  ASSUME FileTypeOK, NEW e \in Entry, timeline' = Append(timeline, e),
         NEW u, NEW k, NEW l,
         \A j \in DOMAIN timeline : j < k => j < l, WasEditor(u, k)
  PROVE  WasEditor(u, l)'
<1>1. \A i \in DOMAIN timeline : i \in DOMAIN timeline' /\ timeline'[i] = timeline[i]
  BY Grown
<1>2. SUFFICES ASSUME u \notin Admins PROVE WasEditor(u, l)'
  BY DEF WasEditor
<1>3. PICK j \in DOMAIN timeline : j < k /\ Adds(j, u) /\ timeline[j].to \in Editors
  BY <1>2 DEF WasEditor
<1>4. j \in DOMAIN timeline' /\ timeline'[j] = timeline[j] /\ j < l
  BY <1>1, <1>3
<1>5. Adds(j, u)' /\ timeline'[j].to \in Editors
  BY <1>3, <1>4 DEF Adds, Is
<1> QED BY <1>4, <1>5 DEF WasEditor

\* The new entry is by somebody who was an editor at the check.
LEMMA GrownActors ==
  ASSUME FileInv, NEW r \in Requests, AtWork(r), NEW e \in Entry, e.actor = UserOf[r],
         timeline' = Append(timeline, e)
  PROVE  \A i \in DOMAIN timeline' : ActorInv(i)'
<1>1. FileTypeOK
  BY DEF FileInv
<1>2. PICK m : m = Len(timeline) + 1
  OBVIOUS
<1>3. /\ DOMAIN timeline' = DOMAIN timeline \cup {m} /\ timeline'[m] = e
      /\ \A i \in DOMAIN timeline : timeline'[i] = timeline[i]
  BY <1>1, <1>2, Grown
<1>4. ASSUME NEW i \in DOMAIN timeline PROVE ActorInv(i)'
  <2>1. timeline'[i] = timeline[i] /\ ActorInv(i)
    BY <1>3 DEF FileInv
  <2>2. CASE timeline[i].event = "case_created"
    BY <2>1, <2>2 DEF ActorInv
  <2>3. CASE WasEditor(timeline[i].actor, i)
    <3>1. WasEditor(timeline[i].actor, i)'
      <4>1. PICK u : u = timeline[i].actor
        OBVIOUS
      <4>2. WasEditor(u, i)'
        BY <1>1, <2>3, <4>1, GrownEditors
      <4> QED BY <2>1, <4>1, <4>2
    <3> QED BY <3>1 DEF ActorInv
  <2> QED BY <2>1, <2>2, <2>3 DEF ActorInv
<1>5. ActorInv(m)'
  <2>1. WasEditor(UserOf[r], m)
    BY <1>2 DEF FileInv, RequestInv, AtWork
  <2>2. WasEditor(UserOf[r], m)'
    BY <1>1, <2>1, GrownEditors
  <2> QED BY <1>3, <2>2 DEF ActorInv
<1> QED BY <1>3, <1>4, <1>5

LEMMA GrownStatus ==
  ASSUME FileInv, NEW e \in Entry, e.event # "status_change",
         timeline' = Append(timeline, e), UNCHANGED <<status, closedAt>>
  PROVE  StatusInv'
<1>1. FileTypeOK /\ StatusInv
  BY DEF FileInv
<1>2. PICK m : m = Len(timeline) + 1
  OBVIOUS
<1>3. /\ DOMAIN timeline' = DOMAIN timeline \cup {m} /\ timeline'[m] = e
      /\ \A i \in DOMAIN timeline : timeline'[i] = timeline[i]
  BY <1>1, <1>2, Grown
<1>4. /\ ~Is(m, {"status_change"})'
      /\ \A i \in DOMAIN timeline : Is(i, {"status_change"})' <=> Is(i, {"status_change"})
  BY <1>3 DEF Is
<1>5. \A i \in DOMAIN timeline : LastChange(i) => LastChange(i)'
  BY <1>3, <1>4 DEF LastChange
<1> QED BY <1>1, <1>3, <1>4, <1>5 DEF StatusInv

LEMMA GrownParticipants ==
  ASSUME FileInv, NEW e \in Entry, NEW u \in Users,
         e.about = u => e.event \notin {"case_created", "participant_added"},
         timeline' = Append(timeline, e), participants'[u] = participants[u]
  PROVE  ParticipantInv(u)'
<1>1. FileTypeOK /\ ParticipantInv(u)
  BY DEF FileInv
<1>2. PICK m : m = Len(timeline) + 1
  OBVIOUS
<1>3. /\ DOMAIN timeline' = DOMAIN timeline \cup {m} /\ timeline'[m] = e
      /\ \A i \in DOMAIN timeline : timeline'[i] = timeline[i]
  BY <1>1, <1>2, Grown
<1>4. /\ ~Adds(m, u)'
      /\ \A i \in DOMAIN timeline : (Adds(i, u)' <=> Adds(i, u)) /\ (Removes(i, u)' <=> Removes(i, u))
  BY <1>3 DEF Adds, Removes, Is
<1> QED BY <1>1, <1>3, <1>4 DEF ParticipantInv

LEMMA GrownEntries ==
  ASSUME FileTypeOK, NEW e \in Entry, timeline' = Append(timeline, e), NEW events
  PROVE  Entries(events)' = Entries(events) \cup IF e.event \in events THEN {Len(timeline) + 1} ELSE {}
<1>1. PICK m : m = Len(timeline) + 1
  OBVIOUS
<1>2. /\ DOMAIN timeline' = DOMAIN timeline \cup {m} /\ timeline'[m] = e
      /\ \A i \in DOMAIN timeline : timeline'[i] = timeline[i] /\ i # m
  BY <1>1, Grown
<1>3. Entries(events)' = Entries(events) \cup IF e.event \in events THEN {m} ELSE {}
  BY <1>2 DEF Entries
<1> QED BY <1>1, <1>3

\* What entries of a kind are about, and who reported them.
AboutIn(events) == {timeline[i].about : i \in Entries(events)}
IdsIn(events) == {timeline[i].id : i \in Entries(events)}

LEMMA GrownAbout ==
  ASSUME FileTypeOK, NEW e \in Entry, timeline' = Append(timeline, e), NEW events
  PROVE  /\ AboutIn(events)' = AboutIn(events) \cup IF e.event \in events THEN {e.about} ELSE {}
         /\ IdsIn(events)' = IdsIn(events) \cup IF e.event \in events THEN {e.id} ELSE {}
<1>1. /\ timeline'[Len(timeline) + 1] = e
      /\ \A i \in DOMAIN timeline : timeline'[i] = timeline[i]
  BY Grown
<1>2. Entries(events) \subseteq DOMAIN timeline
  BY DEF Entries
<1>3. Entries(events)' = Entries(events) \cup IF e.event \in events THEN {Len(timeline) + 1} ELSE {}
  BY GrownEntries
<1>4. CASE e.event \in events
  BY <1>1, <1>2, <1>3, <1>4 DEF AboutIn, IdsIn
<1>5. CASE e.event \notin events
  BY <1>1, <1>2, <1>3, <1>5 DEF AboutIn, IdsIn
<1> QED BY <1>4, <1>5

-----------------------------------------------------------------------------
(* The handlers.                                                           *)

Stage == {"idle", "checked", "posted", "done"}
Request == [at : Stage, op : Ops, about : Subject, to : Values, status : Values,
            closedAt : Requests \cup {Nobody}, row : Row \cup {NoRow}]

LEMMA ReqType ==
  ASSUME FileTypeOK, NEW r \in Requests
  PROVE  /\ req[r].at \in Stage /\ req[r].op \in Ops /\ req[r].about \in Subject
         /\ req[r].to \in Values /\ req[r].status \in Values
         /\ req[r].closedAt \in Requests \cup {Nobody} /\ req[r].row \in Row \cup {NoRow}
         /\ req \in [Requests -> Request]
BY DEF FileTypeOK, Request, Stage

LEMMA Emptys == "" \in Values /\ "open" \in Values /\ Nobody \in Subject /\ Done \in Request /\ Idle \in Request
BY DEF Values, Subject, Done, Idle, Request, Stage, Ops

LEMMA UserOfType == \A r \in Requests : UserOf[r] \in Users
BY UserAssumption

LEMMA EventKinds ==
  /\ "status_change" \in Events /\ "participant_added" \in Events /\ "participant_removed" \in Events
  /\ \A event \in {"note_added", "workflow_linked", "workflow_started", "document_linked"} : event \in Events
BY DEF Events

LEMMA DoneFields == Done.at = "done" /\ Done.op = "none" /\ Done.closedAt = Nobody
BY DEF Done, Idle

\* A request that has ended, while the others stay where they are.
LEMMA EndedRequests ==
  ASSUME FileInv, NEW r \in Requests, req' = [req EXCEPT ![r] = Done],
         closedAt # Nobody => closedAt' # Nobody,
         \/ timeline' = timeline
         \/ \E e \in Entry : timeline' = Append(timeline, e)
  PROVE  req' \in [Requests -> Request] /\ \A q \in Requests : RequestInv(q)'
<1>1. FileTypeOK /\ req \in [Requests -> Request]
  BY ReqType DEF FileInv
<1>2. req' \in [Requests -> Request]
  BY <1>1, Emptys
<1>3. RequestInv(r)'
  <2>1. req'[r] = Done
    BY <1>1
  <2> QED BY <2>1, DoneFields DEF RequestInv
<1>4. ASSUME NEW q \in Requests \ {r} PROVE RequestInv(q)'
  <2>1. req'[q] = req[q] /\ RequestInv(q)
    BY <1>1 DEF FileInv
  <2>2. WasEditor(UserOf[q], Len(timeline) + 1) => WasEditor(UserOf[q], Len(timeline) + 1)'
    <3>1. CASE timeline' = timeline
      BY <3>1 DEF WasEditor, Adds, Is
    <3>2. ASSUME NEW e \in Entry, timeline' = Append(timeline, e), WasEditor(UserOf[q], Len(timeline) + 1)
          PROVE  WasEditor(UserOf[q], Len(timeline) + 1)'
      <4>1. PICK k, l, u : k = Len(timeline) + 1 /\ l = Len(timeline') + 1 /\ u = UserOf[q]
        OBVIOUS
      <4>2. \A j \in DOMAIN timeline : j < k => j < l
        BY <1>1, <3>2, <4>1, Grown
      <4>3. WasEditor(u, l)'
        BY <1>1, <3>2, <4>1, <4>2, GrownEditors
      <4> QED BY <4>1, <4>3
    <3> QED BY <3>1, <3>2
  <2> QED BY <2>1, <2>2 DEF RequestInv
<1> QED BY <1>2, <1>3, <1>4

\* Rows and timeline as they were.
LEMMA SameRows ==
  ASSUME FileInv, UNCHANGED <<status, closedAt, participants, timeline>>
  PROVE  /\ StatusInv' /\ (\A u \in Users : ParticipantInv(u)')
         /\ (\A i \in DOMAIN timeline' : ActorInv(i)')
         /\ \A events : AboutIn(events)' = AboutIn(events) /\ IdsIn(events)' = IdsIn(events)
BY DEF FileInv, StatusInv, LastChange, Is, ParticipantInv, Adds, Removes, ActorInv, WasEditor,
       AboutIn, IdsIn, Entries

LEMMA InitFile == FileInit => FileInv
<1> SUFFICES ASSUME FileInit PROVE FileInv
  OBVIOUS
<1> DEFINE e1 == [id |-> Nobody, event |-> "case_created", actor |-> Creator,
                  about |-> Creator, from |-> "", to |-> "owner"]
           e2 == [id |-> Nobody, event |-> "participant_added", actor |-> Creator,
                  about |-> Colleague, from |-> "", to |-> "collaborator"]
<1>1. timeline = <<e1, e2>> /\ Creator \in Users /\ Colleague \in Users /\ Creator # Colleague
  BY UserAssumption DEF FileInit
<1>2. e1 \in Entry /\ e2 \in Entry
  BY <1>1 DEF Entry, Events, Subject, Values, Roles, Editors
<1>3. DOMAIN timeline = {1, 2} /\ Len(timeline) = 2 /\ Creator # Colleague
  <2> HIDE DEF e1, e2
  <2>1. DOMAIN timeline = 1 .. 2 /\ Len(timeline) = 2
    BY <1>1
  <2>2. 1 .. 2 = {1, 2}
    OBVIOUS
  <2> QED BY <1>1, <2>1, <2>2
<1>0. /\ timeline[1].event = "case_created" /\ timeline[1].about = Creator /\ timeline[1].to = "owner"
      /\ timeline[2].event = "participant_added" /\ timeline[2].about = Colleague
      /\ timeline[2].actor = Creator /\ timeline[2].to = "collaborator"
      /\ timeline[1].id = Nobody /\ timeline[2].id = Nobody
  BY <1>1
<1> HIDE DEF e1, e2
<1>4. FileTypeOK
  <2>1. timeline \in Seq(Entry)
    BY <1>1, <1>2
  <2>2. participants \in [Users -> Row \cup {NoRow}]
    BY DEF FileInit, Row, Roles, Editors
  <2>3. req \in [Requests -> Request]
    BY Emptys DEF FileInit
  <2> QED BY <2>1, <2>2, <2>3 DEF FileInit, FileTypeOK, Request, Stage
<1>5. StatusInv
  BY <1>0, <1>3 DEF FileInit, StatusInv, Is
<1>6. ASSUME NEW u \in Users PROVE ParticipantInv(u)
  <2>1. CASE u = Creator
    <3>1. participants[u] = [id |-> Nobody, role |-> "owner"]
      BY <1>1, <2>1 DEF FileInit
    <3>2. participants[u] # NoRow
      BY <3>1, ValueAssumption DEF Roles, Editors
    <3>3. Adds(1, u) /\ \A j \in DOMAIN timeline : Adds(j, u) => j <= 1
      BY <1>0, <1>3, <2>1 DEF Adds, Is
    <3> QED BY <1>0, <1>3, <3>1, <3>2, <3>3 DEF ParticipantInv
  <2>2. CASE u = Colleague
    <3>1. participants[u] = [id |-> Nobody, role |-> "collaborator"]
      BY <1>1, <2>2 DEF FileInit
    <3>2. participants[u] # NoRow
      BY <3>1, ValueAssumption DEF Roles, Editors
    <3>3. Adds(2, u) /\ \A j \in DOMAIN timeline : Adds(j, u) => j <= 2
      BY <1>0, <1>3, <2>2 DEF Adds, Is
    <3> QED BY <1>0, <1>3, <3>1, <3>2, <3>3 DEF ParticipantInv
  <2>3. CASE u \notin {Creator, Colleague}
    <3>1. participants[u] = NoRow
      BY <2>3 DEF FileInit
    <3>2. \A i \in DOMAIN timeline : ~Adds(i, u)
      BY <1>3, <1>0, <2>3 DEF Adds
    <3> QED BY <3>1, <3>2 DEF ParticipantInv
  <2> QED BY <2>1, <2>2, <2>3
<1>7. LinksFollowTimeline
  <2>1. \A i \in DOMAIN timeline :
          timeline[i].event \notin {"workflow_linked", "workflow_started", "document_linked", "note_added"}
    BY <1>3, <1>0
  <2>2. /\ Entries({"workflow_linked", "workflow_started"}) = {} /\ Entries({"document_linked"}) = {}
        /\ Entries({"note_added"}) = {}
    BY <2>1 DEF Entries
  <2> QED BY <2>2 DEF FileInit, LinksFollowTimeline
<1>8. ASSUME NEW i \in DOMAIN timeline PROVE ActorInv(i)
  <2>1. WasEditor(Creator, 2)
    <3>1. Adds(1, Creator) /\ timeline[1].to \in Editors /\ 1 < 2
      BY <1>3, <1>0 DEF Adds, Is, Editors
    <3> QED BY <1>3, <3>1 DEF WasEditor
  <2>2. i = 1 \/ i = 2
    BY <1>3
  <2> QED BY <1>0, <2>1, <2>2 DEF ActorInv
<1>9. ASSUME NEW r \in Requests PROVE RequestInv(r)
  <2>1. req[r].at = "idle" /\ req[r].op = "none" /\ req[r].closedAt = Nobody
    BY DEF FileInit, Idle
  <2> QED BY <2>1 DEF RequestInv
<1> QED BY <1>4, <1>5, <1>6, <1>7, <1>8, <1>9 DEF FileInv

-----------------------------------------------------------------------------
(* The steps.                                                              *)

RowTypes ==
  /\ status \in Statuses \cup {"open"} /\ closedAt \in Requests \cup {Nobody}
  /\ participants \in [Users -> Row \cup {NoRow}]
  /\ notes \subseteq [id : Requests, by : Users, internal : BOOLEAN]
  /\ links \subseteq Instances \cup Requests /\ documents \subseteq Documents

OtherTypes ==
  /\ timeline \in Seq(Entry) /\ req \in [Requests -> Request]
  /\ instances \subseteq Requests /\ failed \subseteq Requests

LEMMA FileTypes == (FileTypeOK <=> RowTypes /\ OtherTypes) /\ (FileTypeOK <=> RowTypes /\ OtherTypes)'
BY DEF FileTypeOK, RowTypes, OtherTypes, Request, Stage

NoteIds == {n.id : n \in notes}

LinksByAbout ==
  /\ links = AboutIn({"workflow_linked", "workflow_started"})
  /\ documents = AboutIn({"document_linked"})
  /\ NoteIds = IdsIn({"note_added"})
  /\ \A r \in instances \ links : r \in failed \/ req[r].at = "posted"

LEMMA LinksAgree == (LinksFollowTimeline <=> LinksByAbout) /\ (LinksFollowTimeline <=> LinksByAbout)'
BY DEF LinksFollowTimeline, LinksByAbout, AboutIn, IdsIn, NoteIds

\* The commit of a request that reports e: what is left to show of each
\* handler is what it does to its own rows.
LEMMA CommitInv ==
  ASSUME FileInv, NEW r \in Requests, AtWork(r), Ends(r), UNCHANGED instances,
         NEW e \in Entry, e.actor = UserOf[r], Report(e),
         RowTypes', StatusInv', \A u \in Users : ParticipantInv(u)',
         closedAt # Nobody => closedAt' # Nobody,
         links' = links \cup IF e.event \in {"workflow_linked", "workflow_started"} THEN {e.about} ELSE {},
         documents' = documents \cup IF e.event = "document_linked" THEN {e.about} ELSE {},
         NoteIds' = NoteIds \cup IF e.event = "note_added" THEN {e.id} ELSE {},
         req[r].at = "posted" => r \in links'
  PROVE  FileInv'
<1>1. /\ FileTypeOK /\ LinksFollowTimeline /\ timeline' = Append(timeline, e)
      /\ req' = [req EXCEPT ![r] = Done] /\ failed' = failed /\ instances' = instances
  BY DEF FileInv, Report, Ends
<1>2. timeline' \in Seq(Entry)
  BY <1>1, Grown
<1>3. req' \in [Requests -> Request] /\ \A q \in Requests : RequestInv(q)'
  BY <1>1, EndedRequests
<1>4. FileTypeOK'
  BY <1>1, <1>2, <1>3, FileTypes DEF OtherTypes
<1>5. \A i \in DOMAIN timeline' : ActorInv(i)'
  BY <1>1, GrownActors
<1>6. LinksFollowTimeline'
  <2>1. links' = AboutIn({"workflow_linked", "workflow_started"})'
    BY <1>1, GrownAbout, LinksAgree DEF LinksByAbout
  <2>2. documents' = AboutIn({"document_linked"})'
    BY <1>1, GrownAbout, LinksAgree DEF LinksByAbout
  <2>3. NoteIds' = IdsIn({"note_added"})'
    BY <1>1, GrownAbout, LinksAgree DEF LinksByAbout
  <2>4. ASSUME NEW q \in instances' \ links' PROVE q \in failed' \/ req'[q].at = "posted"
    <3>1. q \in Requests /\ q \in instances \ links
      BY <1>1, <2>4 DEF FileTypeOK
    <3>2. q \in failed \/ req[q].at = "posted"
      BY <1>1, <3>1 DEF LinksFollowTimeline
    <3>3. q # r => req'[q] = req[q]
      BY <1>1, <3>1, FileTypes DEF OtherTypes
    <3> QED BY <1>1, <2>4, <3>2, <3>3
  <2> QED BY <2>1, <2>2, <2>3, <2>4, LinksAgree DEF LinksByAbout
<1> QED BY <1>3, <1>4, <1>5, <1>6 DEF FileInv

\* A step that reports nothing and changes no status and no participant.
LEMMA QuietInv ==
  ASSUME FileInv, UNCHANGED <<status, closedAt, participants, links, documents, timeline>>,
         notes' \subseteq [id : Requests, by : Users, internal : BOOLEAN], NoteIds' = NoteIds,
         req' \in [Requests -> Request], \A q \in Requests : RequestInv(q)',
         instances' \subseteq Requests, failed' \subseteq Requests,
         \A q \in instances' \ links : q \in failed' \/ req'[q].at = "posted"
  PROVE  FileInv'
<1>1. FileTypeOK /\ LinksFollowTimeline
  BY DEF FileInv
<1>2. FileTypeOK'
  BY <1>1, FileTypes DEF RowTypes, OtherTypes
<1>3. /\ StatusInv' /\ (\A u \in Users : ParticipantInv(u)')
      /\ (\A i \in DOMAIN timeline' : ActorInv(i)')
  BY SameRows
<1>4. LinksFollowTimeline'
  <2>1. \A events : AboutIn(events)' = AboutIn(events) /\ IdsIn(events)' = IdsIn(events)
    BY SameRows
  <2> QED BY <1>1, <2>1, LinksAgree DEF LinksByAbout
<1> QED BY <1>2, <1>3, <1>4 DEF FileInv

LEMMA RequestFacts ==
  ASSUME FileInv
  PROVE  /\ req \in [Requests -> Request] /\ \A q \in Requests : RequestInv(q)
         /\ instances \subseteq Requests /\ failed \subseteq Requests
         /\ \A q \in instances \ links : q \in failed \/ req[q].at = "posted"
BY FileTypes DEF OtherTypes, FileInv, LinksFollowTimeline

LEMMA CanWriteWasEditor ==
  ASSUME FileInv, NEW u \in Users, CanWrite(u)
  PROVE  WasEditor(u, Len(timeline) + 1)
<1> SUFFICES ASSUME u \notin Admins PROVE WasEditor(u, Len(timeline) + 1)
  BY DEF WasEditor
<1>1. participants[u] # NoRow /\ participants[u].role \in Editors
  BY DEF CanWrite
<1>2. PICK i \in DOMAIN timeline :
        Adds(i, u) /\ participants[u] = [id |-> timeline[i].id, role |-> timeline[i].to]
  BY <1>1 DEF FileInv, ParticipantInv
<1>3. timeline[i].to \in Editors
  BY <1>1, <1>2
<1>4. i < Len(timeline) + 1
  BY <1>2 DEF FileInv, FileTypeOK
<1> QED BY <1>2, <1>3, <1>4 DEF WasEditor

\* What a check stores is of the right kind for its operation.
LEMMA CheckInv ==
  ASSUME FileInv, NEW r \in Requests, NEW op \in Ops, NEW about \in Subject, NEW to \in Values,
         NEW row \in Row \cup {NoRow}, Check(r, op, about, to, row),
         op = "update" => to \in Statuses,
         op = "add" => about \in Users /\ to \in Roles,
         op = "remove" => about \in Users,
         op = "link" => about \in Instances \cup Requests,
         op = "link_document" => about \in Documents,
         op = "start" => about = r
  PROVE  FileInv'
<1> DEFINE q0 == [at |-> "checked", op |-> op, about |-> about, to |-> to,
                  status |-> status, closedAt |-> closedAt, row |-> row]
<1>1. /\ req[r].at = "idle" /\ CanWrite(UserOf[r]) /\ req' = [req EXCEPT ![r] = q0]
      /\ UNCHANGED <<status, closedAt, participants, notes, links, documents, timeline, instances, failed>>
  BY DEF Check, rows
<1>2. RowTypes /\ req \in [Requests -> Request]
  BY FileTypes DEF OtherTypes, FileInv
<1>3. q0 \in Request
  BY <1>2 DEF Request, Stage, RowTypes, Values
<1>4. req' \in [Requests -> Request] /\ req'[r] = q0 /\ \A q \in Requests \ {r} : req'[q] = req[q]
  BY <1>1, <1>2, <1>3
<1>5. WasEditor(UserOf[r], Len(timeline) + 1)
  BY <1>1, CanWriteWasEditor, UserOfType
<1>6. \A u, n : WasEditor(u, n)' <=> WasEditor(u, n)
  BY <1>1 DEF WasEditor, Adds, Is
<1>7. RequestInv(r)'
  <2>1. /\ req'[r].at = "checked" /\ req'[r].op = op /\ req'[r].about = about /\ req'[r].to = to
        /\ req'[r].closedAt = closedAt
    BY <1>4
  <2>2. WasEditor(UserOf[r], Len(timeline) + 1)'
    BY <1>1, <1>5 DEF WasEditor, Adds, Is
  <2> QED BY <1>1, <2>1, <2>2 DEF RequestInv
<1>8. ASSUME NEW q \in Requests \ {r} PROVE RequestInv(q)'
  <2>1. RequestInv(q) /\ req'[q] = req[q]
    BY <1>4 DEF FileInv
  <2>2. WasEditor(UserOf[q], Len(timeline) + 1)' <=> WasEditor(UserOf[q], Len(timeline) + 1)
    BY <1>1 DEF WasEditor, Adds, Is
  <2> QED BY <1>1, <2>1, <2>2 DEF RequestInv
<1>9. NoteIds' = NoteIds /\ notes' \subseteq [id : Requests, by : Users, internal : BOOLEAN]
  BY <1>1, <1>2 DEF NoteIds, RowTypes
<1>10. ASSUME NEW q \in instances' \ links PROVE q \in failed' \/ req'[q].at = "posted"
  <2>1. q \in Requests /\ (q \in failed \/ req[q].at = "posted")
    BY <1>1, RequestFacts
  <2> QED BY <1>1, <1>4, <2>1
<1> QED BY <1>1, <1>4, <1>7, <1>8, <1>9, <1>10, QuietInv, RequestFacts

CheckStep(r) ==
  \/ UpdateCheck(r) \/ AddParticipantCheck(r) \/ RemoveParticipantCheck(r) \/ AddNoteCheck(r)
  \/ UpdateNoteCheck(r) \/ LinkWorkflowCheck(r) \/ LinkDocumentCheck(r) \/ StartWorkflowCheck(r)

LEMMA ChecksInv == ASSUME FileInv, NEW r \in Requests, CheckStep(r) PROVE FileInv'
<1>1. RowTypes /\ instances \subseteq Requests
  BY FileTypes, RequestFacts DEF FileInv
<1>2. /\ {"update", "add", "remove", "add_note", "update_note", "link", "link_document", "start"} \subseteq Ops
      /\ Statuses \subseteq Values /\ Roles \subseteq Values /\ NewRoles \subseteq Roles
      /\ Users \cup Requests \cup Documents \cup Instances \cup {Nobody} \subseteq Subject
  BY ValueAssumption DEF Ops, Values, Subject
<1>3. CASE UpdateCheck(r)
  <2>1. PICK s \in Statuses : Check(r, "update", Nobody, s, NoRow)
    BY <1>3 DEF UpdateCheck
  <2> QED BY <1>2, <2>1, CheckInv
<1>4. CASE AddParticipantCheck(r)
  <2>1. PICK u \in Users, role \in NewRoles : Check(r, "add", u, role, NoRow)
    BY <1>4 DEF AddParticipantCheck
  <2> QED BY <1>2, <2>1, CheckInv
<1>5. CASE RemoveParticipantCheck(r)
  <2>1. PICK u \in Users : Check(r, "remove", u, "", participants[u])
    BY <1>5 DEF RemoveParticipantCheck
  <2>2. participants[u] \in Row \cup {NoRow}
    BY <1>1 DEF RowTypes
  <2> QED BY <1>2, <2>1, <2>2, Emptys, CheckInv
<1>6. CASE AddNoteCheck(r)
  BY <1>2, <1>6, Emptys, CheckInv DEF AddNoteCheck
<1>7. CASE UpdateNoteCheck(r)
  <2>1. PICK n \in notes : Check(r, "update_note", n.id, "", NoRow)
    BY <1>7 DEF UpdateNoteCheck
  <2>2. n.id \in Requests
    BY <1>1 DEF RowTypes
  <2> QED BY <1>2, <2>1, <2>2, Emptys, CheckInv
<1>8. CASE LinkWorkflowCheck(r)
  <2>1. PICK i \in Linkable : Check(r, "link", i, "", NoRow)
    BY <1>8 DEF LinkWorkflowCheck
  <2>2. i \in Instances \cup Requests
    BY <1>1 DEF Linkable
  <2> QED BY <1>2, <2>1, <2>2, Emptys, CheckInv
<1>9. CASE LinkDocumentCheck(r)
  <2>1. PICK d \in Documents : Check(r, "link_document", d, "", NoRow)
    BY <1>9 DEF LinkDocumentCheck
  <2> QED BY <1>2, <2>1, Emptys, CheckInv
<1>10. CASE StartWorkflowCheck(r)
  BY <1>2, <1>10, Emptys, CheckInv DEF StartWorkflowCheck
<1> QED BY <1>3, <1>4, <1>5, <1>6, <1>7, <1>8, <1>9, <1>10 DEF CheckStep

\* A request that ends and leaves everything but the notes' visibility alone.
LEMMA EndQuietly ==
  ASSUME FileInv, NEW r \in Requests, req' = [req EXCEPT ![r] = Done],
         UNCHANGED <<status, closedAt, participants, links, documents, timeline>>,
         notes' \subseteq [id : Requests, by : Users, internal : BOOLEAN], NoteIds' = NoteIds,
         \/ failed' = failed /\ instances' = instances /\ req[r].at # "posted"
         \/ failed' = failed \cup {r} /\ instances' \in {instances, instances \cup {r}}
  PROVE  FileInv'
<1>1. req' \in [Requests -> Request] /\ \A q \in Requests : RequestInv(q)'
  BY EndedRequests
<1>2. instances' \subseteq Requests /\ failed' \subseteq Requests
  BY RequestFacts
<1>3. ASSUME NEW q \in instances' \ links PROVE q \in failed' \/ req'[q].at = "posted"
  <2>1. q \in Requests /\ (q = r \/ req'[q] = req[q])
    BY <1>2, RequestFacts
  <2>2. CASE q \in instances
    <3>1. q \in failed \/ req[q].at = "posted"
      BY <1>3, <2>2, RequestFacts
    <3> QED BY <2>1, <3>1
  <2>3. CASE q \notin instances
    BY <1>3, <2>3
  <2> QED BY <2>2, <2>3
<1> QED BY <1>1, <1>2, <1>3, QuietInv

LEMMA UpdateCommitInv == ASSUME FileInv, NEW r \in Requests, UpdateCommit(r) PROVE FileInv'
<1> DEFINE e == NewEntry(r, "status_change", Nobody, req[r].status, req[r].to)
<1>1. /\ AtWork(r) /\ req[r].at # "posted" /\ req[r].op = "update" /\ Ends(r)
      /\ UNCHANGED <<participants, notes, links, documents, instances>>
  BY DEF UpdateCommit, Commits, AtWork
<1>2. FileTypeOK /\ RowTypes /\ RequestInv(r) /\ StatusInv
  BY FileTypes DEF FileInv
<1>3. NoteIds' = NoteIds /\ notes' \subseteq [id : Requests, by : Users, internal : BOOLEAN]
  BY <1>1, <1>2 DEF NoteIds, RowTypes
<1>4. CASE UNCHANGED <<status, closedAt, timeline>>
  BY <1>1, <1>3, <1>4, EndQuietly DEF Ends
<1>5. CASE /\ status' = req[r].to
           /\ closedAt' = IF req[r].to = "closed" /\ req[r].closedAt = Nobody THEN r ELSE closedAt
           /\ Report(e)
  <2>1. req[r].to \in Statuses /\ req[r].status \in Values /\ req[r].to \in Values
    BY <1>1, <1>2, ReqType DEF RequestInv
  <2>2. /\ e \in Entry /\ e.id = r /\ e.event = "status_change" /\ e.actor = UserOf[r] /\ e.to = req[r].to
        /\ e.about = Nobody
    BY <2>1, Emptys, EventKinds, UserOfType DEF NewEntry, Entry
  <2> HIDE DEF e
  <2>3. r # Nobody /\ closedAt' \in {r, closedAt} /\ (closedAt # Nobody => closedAt' # Nobody)
    BY <1>5, UserAssumption
  <2>4. RowTypes'
    BY <1>1, <1>2, <1>5, <2>1, <2>3 DEF RowTypes
  <2>5. PICK m : m = Len(timeline) + 1
    OBVIOUS
  <2>6. /\ DOMAIN timeline' = DOMAIN timeline \cup {m} /\ timeline'[m] = e
        /\ \A i \in DOMAIN timeline : timeline'[i] = timeline[i] /\ i <= m
        /\ m <= m
    BY <1>2, <1>5, <2>2, <2>5, Grown DEF Report
  <2>7. /\ Is(m, {"status_change"})'
        /\ \A i \in DOMAIN timeline : Is(i, {"status_change"})' <=> Is(i, {"status_change"})
    BY <2>2, <2>6 DEF Is
  <2>8. LastChange(m)'
    BY <2>6, <2>7 DEF LastChange
  <2>9. StatusInv'
    <3>1. \E i \in DOMAIN timeline' : LastChange(i)' /\ timeline'[i].to = status'
      BY <1>5, <2>2, <2>6, <2>8
    <3>2. ASSUME closedAt' # Nobody
          PROVE  \E i \in DOMAIN timeline' : /\ Is(i, {"status_change"})' /\ timeline'[i].to = "closed"
                                             /\ timeline'[i].id = closedAt'
      <4>1. CASE req[r].to = "closed" /\ req[r].closedAt = Nobody
        BY <1>5, <2>2, <2>6, <2>7, <4>1
      <4>2. CASE ~(req[r].to = "closed" /\ req[r].closedAt = Nobody)
        <5>1. closedAt' = closedAt
          BY <1>5, <4>2
        <5>2. PICK i \in DOMAIN timeline : /\ Is(i, {"status_change"}) /\ timeline[i].to = "closed"
                                           /\ timeline[i].id = closedAt
          BY <1>2, <3>2, <5>1 DEF StatusInv
        <5> QED BY <2>6, <2>7, <5>1, <5>2
      <4> QED BY <4>1, <4>2
    <3>3. ASSUME closedAt' = Nobody, NEW i \in DOMAIN timeline'
          PROVE  ~(Is(i, {"status_change"})' /\ timeline'[i].to = "closed")
      <4>1. closedAt = Nobody /\ ~(req[r].to = "closed" /\ req[r].closedAt = Nobody)
        BY <1>5, <2>3, <3>3
      <4>2. req[r].closedAt = Nobody
        BY <1>2, <4>1 DEF RequestInv
      <4>3. CASE i = m
        BY <2>2, <2>6, <4>1, <4>2, <4>3
      <4>4. CASE i \in DOMAIN timeline
        BY <1>2, <2>6, <2>7, <4>1, <4>4 DEF StatusInv
      <4> QED BY <2>6, <4>3, <4>4
    <3> QED BY <3>1, <3>2, <3>3 DEF StatusInv
  <2>10. \A u \in Users : ParticipantInv(u)'
    BY <1>1, <1>5, <2>2, GrownParticipants DEF Report
  <2> QED BY <1>1, <1>3, <1>5, <2>2, <2>3, <2>4, <2>9, <2>10, CommitInv
<1> QED BY <1>4, <1>5 DEF UpdateCommit

LEMMA AddParticipantInv == ASSUME FileInv, NEW r \in Requests, AddParticipantCommit(r) PROVE FileInv'
<1> DEFINE u0 == req[r].about
           e == NewEntry(r, "participant_added", u0, "", req[r].to)
<1>1. /\ AtWork(r) /\ req[r].at # "posted" /\ req[r].op = "add" /\ Ends(r)
      /\ participants' = [participants EXCEPT ![u0] = [id |-> r, role |-> req[r].to]]
      /\ Report(e)
      /\ UNCHANGED <<status, closedAt, notes, links, documents, instances>>
  BY DEF AddParticipantCommit, Commits, AtWork
<1>2. FileTypeOK /\ RowTypes /\ RequestInv(r)
  BY FileTypes DEF FileInv
<1>3. u0 \in Users /\ req[r].to \in Roles /\ req[r].to \in Values /\ u0 \in Subject
  BY <1>1, <1>2, ReqType DEF RequestInv
<1>4. /\ e \in Entry /\ e.id = r /\ e.event = "participant_added" /\ e.actor = UserOf[r]
      /\ e.to = req[r].to /\ e.about = u0
  BY <1>3, Emptys, EventKinds, UserOfType DEF NewEntry, Entry
<1> HIDE DEF e
<1>5. participants'[u0] = [id |-> r, role |-> req[r].to] /\ \A u \in Users \ {u0} : participants'[u] = participants[u]
  BY <1>1, <1>2, <1>3 DEF RowTypes
<1>6. [id |-> r, role |-> req[r].to] \in Row /\ participants'[u0] # NoRow
  BY <1>3, <1>5, ValueAssumption DEF Row
<1>7. RowTypes'
  BY <1>1, <1>2, <1>3, <1>6 DEF RowTypes
<1>8. StatusInv'
  BY <1>1, <1>4, GrownStatus DEF Report
<1>9. ASSUME NEW u \in Users PROVE ParticipantInv(u)'
  <2>1. CASE u # u0
    BY <1>1, <1>4, <1>5, <2>1, GrownParticipants DEF Report
  <2>2. CASE u = u0
    <3>1. PICK m : m = Len(timeline) + 1
      OBVIOUS
    <3>2. /\ DOMAIN timeline' = DOMAIN timeline \cup {m} /\ timeline'[m] = e
          /\ \A i \in DOMAIN timeline : i <= m
          /\ m <= m
      BY <1>1, <1>2, <1>4, <3>1, Grown DEF Report
    <3>3. Adds(m, u)'
      BY <1>4, <2>2, <3>2 DEF Adds, Is
    <3> QED BY <1>4, <1>5, <1>6, <2>2, <3>2, <3>3 DEF ParticipantInv
  <2> QED BY <2>1, <2>2
<1>10. NoteIds' = NoteIds
  BY <1>1 DEF NoteIds
<1> QED BY <1>1, <1>4, <1>7, <1>8, <1>9, <1>10, CommitInv

LEMMA RemoveParticipantInv == ASSUME FileInv, NEW r \in Requests, RemoveParticipantCommit(r) PROVE FileInv'
<1> DEFINE u0 == req[r].about
           e == NewEntry(r, "participant_removed", u0, "", "")
<1>1. /\ AtWork(r) /\ req[r].at # "posted" /\ req[r].op = "remove" /\ Ends(r)
      /\ participants' = [u \in Users |-> IF u = u0 /\ participants[u] = req[r].row THEN NoRow ELSE participants[u]]
      /\ Report(e)
      /\ UNCHANGED <<status, closedAt, notes, links, documents, instances>>
  BY DEF RemoveParticipantCommit, Commits, AtWork
<1>2. FileTypeOK /\ RowTypes /\ RequestInv(r)
  BY FileTypes DEF FileInv
<1>3. u0 \in Users /\ u0 \in Subject
  BY <1>1, <1>2, ReqType DEF RequestInv
<1>4. e \in Entry /\ e.event = "participant_removed" /\ e.actor = UserOf[r] /\ e.about = u0
  BY <1>3, Emptys, EventKinds, UserOfType DEF NewEntry, Entry
<1> HIDE DEF e
<1>5. \A u \in Users : participants'[u] = participants[u] \/ (u = u0 /\ participants'[u] = NoRow)
  BY <1>1
<1>6. RowTypes'
  <2>1. participants' \in [Users -> Row \cup {NoRow}]
    BY <1>1, <1>2 DEF RowTypes
  <2> QED BY <1>1, <1>2, <2>1 DEF RowTypes
<1>7. StatusInv'
  BY <1>1, <1>4, GrownStatus DEF Report
<1>8. ASSUME NEW u \in Users PROVE ParticipantInv(u)'
  <2>1. CASE participants'[u] = participants[u]
    BY <1>1, <1>4, <2>1, GrownParticipants DEF Report
  <2>2. CASE u = u0 /\ participants'[u] = NoRow
    <3>1. PICK m : m = Len(timeline) + 1
      OBVIOUS
    <3>2. /\ DOMAIN timeline' = DOMAIN timeline \cup {m} /\ timeline'[m] = e
          /\ \A i \in DOMAIN timeline : i < m
      BY <1>1, <1>2, <1>4, <3>1, Grown DEF Report
    <3>3. Removes(m, u)' /\ ~Adds(m, u)'
      BY <1>4, <2>2, <3>2 DEF Removes, Adds, Is
    <3> QED BY <2>2, <3>2, <3>3 DEF ParticipantInv
  <2> QED BY <1>5, <2>1, <2>2
<1>9. NoteIds' = NoteIds
  BY <1>1 DEF NoteIds
<1> QED BY <1>1, <1>4, <1>6, <1>7, <1>8, <1>9, CommitInv

\* A commit that reports neither on the status nor on participants.
LEMMA OtherCommitInv ==
  ASSUME FileInv, NEW r \in Requests, AtWork(r), Ends(r), UNCHANGED <<status, closedAt, participants, instances>>,
         NEW event \in {"note_added", "workflow_linked", "workflow_started", "document_linked"},
         NEW about \in Subject, Report(NewEntry(r, event, about, "", "")),
         notes' \subseteq [id : Requests, by : Users, internal : BOOLEAN],
         NoteIds' = NoteIds \cup IF event = "note_added" THEN {r} ELSE {},
         links' = links \cup IF event \in {"workflow_linked", "workflow_started"} THEN {about} ELSE {},
         links' \subseteq Instances \cup Requests,
         documents' = documents \cup IF event = "document_linked" THEN {about} ELSE {},
         documents' \subseteq Documents,
         req[r].at = "posted" => r \in links'
  PROVE  FileInv'
<1> DEFINE e == NewEntry(r, event, about, "", "")
<1>1. e \in Entry /\ e.id = r /\ e.event = event /\ e.actor = UserOf[r] /\ e.about = about
  BY Emptys, EventKinds, UserOfType DEF NewEntry, Entry
<1>2. Report(e)
  OBVIOUS
<1> HIDE DEF e
<1>3. RowTypes'
  BY FileTypes DEF FileInv, RowTypes
<1>4. StatusInv'
  BY <1>1, <1>2, GrownStatus DEF Report
<1>5. \A u \in Users : ParticipantInv(u)'
  BY <1>1, <1>2, GrownParticipants DEF Report
<1> QED BY <1>1, <1>2, <1>3, <1>4, <1>5, CommitInv

LEMMA AddNoteInv == ASSUME FileInv, NEW r \in Requests, AddNoteCommit(r) PROVE FileInv'
<1>1. /\ AtWork(r) /\ req[r].at # "posted" /\ Ends(r)
      /\ notes' = notes \cup {[id |-> r, by |-> UserOf[r], internal |-> TRUE]}
      /\ Report(NewEntry(r, "note_added", Nobody, "", ""))
      /\ UNCHANGED <<status, closedAt, participants, links, documents, instances>>
  BY DEF AddNoteCommit, Commits, AtWork
<1>2. RowTypes
  BY FileTypes DEF FileInv
<1> DEFINE n0 == [id |-> r, by |-> UserOf[r], internal |-> TRUE]
<1>5. n0 \in [id : Requests, by : Users, internal : BOOLEAN] /\ n0.id = r
  BY UserOfType
<1>6. notes' = notes \cup {n0}
  BY <1>1
<1> HIDE DEF n0
<1>3. notes' \subseteq [id : Requests, by : Users, internal : BOOLEAN]
  BY <1>2, <1>5, <1>6 DEF RowTypes
<1>4. NoteIds' = NoteIds \cup {r}
  BY <1>5, <1>6 DEF NoteIds
<1> QED BY <1>1, <1>2, <1>3, <1>4, Emptys, OtherCommitInv DEF RowTypes

LEMMA UpdateNoteInv == ASSUME FileInv, NEW r \in Requests, UpdateNoteCommit(r) PROVE FileInv'
<1>1. /\ req[r].at # "posted" /\ Ends(r)
      /\ notes' = {IF n.id = req[r].about THEN [n EXCEPT !.internal = FALSE] ELSE n : n \in notes}
      /\ UNCHANGED <<status, closedAt, participants, links, documents, timeline, instances>>
  BY DEF UpdateNoteCommit, Commits
<1>2. notes \subseteq [id : Requests, by : Users, internal : BOOLEAN]
  BY FileTypes DEF FileInv, RowTypes
<1>3. ASSUME NEW n \in notes
      PROVE  /\ [n EXCEPT !.internal = FALSE] \in [id : Requests, by : Users, internal : BOOLEAN]
             /\ [n EXCEPT !.internal = FALSE].id = n.id
  BY <1>2
<1>4. notes' \subseteq [id : Requests, by : Users, internal : BOOLEAN]
  BY <1>1, <1>2, <1>3
<1>5. NoteIds' = NoteIds
  <2>1. \A n \in notes : (IF n.id = req[r].about THEN [n EXCEPT !.internal = FALSE] ELSE n).id = n.id
    BY <1>3
  <2>2. NoteIds' = {(IF n.id = req[r].about THEN [n EXCEPT !.internal = FALSE] ELSE n).id : n \in notes}
    BY <1>1 DEF NoteIds
  <2> QED BY <2>1, <2>2 DEF NoteIds
<1> QED BY <1>1, <1>4, <1>5, EndQuietly DEF Ends

LEMMA LinkInv ==
  ASSUME FileInv, NEW r \in Requests, LinkWorkflowCommit(r) \/ StartWorkflowCommit(r) PROVE FileInv'
<1>1. PICK event \in {"workflow_linked", "workflow_started"} :
        /\ AtWork(r) /\ LinkCommit(r, event)
        /\ (req[r].op = "link" /\ req[r].at # "posted") \/ req[r].at = "posted"
  BY DEF LinkWorkflowCommit, StartWorkflowCommit, Commits, AtWork
<1>2. /\ Ends(r) /\ links' = links \cup {req[r].about}
      /\ Report(NewEntry(r, event, req[r].about, "", ""))
      /\ UNCHANGED <<status, closedAt, participants, notes, documents, instances>>
  BY <1>1 DEF LinkCommit
<1>3. RowTypes /\ RequestInv(r) /\ req[r].about \in Subject
  BY FileTypes, ReqType DEF FileInv
<1>4. req[r].about \in Instances \cup Requests /\ (req[r].at = "posted" => req[r].about = r)
  BY <1>1, <1>3 DEF RequestInv
<1>5. NoteIds' = NoteIds
  BY <1>2 DEF NoteIds
<1>6. /\ links' \subseteq Instances \cup Requests /\ documents' \subseteq Documents
      /\ notes' \subseteq [id : Requests, by : Users, internal : BOOLEAN]
  BY <1>2, <1>3, <1>4 DEF RowTypes
<1> QED BY <1>1, <1>2, <1>3, <1>4, <1>5, <1>6, OtherCommitInv

LEMMA LinkDocumentInv == ASSUME FileInv, NEW r \in Requests, LinkDocumentCommit(r) PROVE FileInv'
<1>1. /\ AtWork(r) /\ req[r].at # "posted" /\ req[r].op = "link_document" /\ Ends(r)
      /\ documents' = documents \cup {req[r].about}
      /\ Report(NewEntry(r, "document_linked", req[r].about, "", ""))
      /\ UNCHANGED <<status, closedAt, participants, notes, links, instances>>
  BY DEF LinkDocumentCommit, Commits, AtWork
<1>2. RowTypes /\ RequestInv(r) /\ req[r].about \in Subject
  BY FileTypes, ReqType DEF FileInv
<1>3. NoteIds' = NoteIds
  BY <1>1 DEF NoteIds
<1>4. /\ links' \subseteq Instances \cup Requests /\ documents' \subseteq Documents
      /\ notes' \subseteq [id : Requests, by : Users, internal : BOOLEAN]
  BY <1>1, <1>2 DEF RowTypes, RequestInv
<1> QED BY <1>1, <1>2, <1>3, <1>4, OtherCommitInv

LEMMA StartWorkflowPostInv == ASSUME FileInv, NEW r \in Requests, StartWorkflowPost(r) PROVE FileInv'
<1>1. /\ req[r].at = "checked" /\ req[r].op = "start"
      /\ instances' = instances \cup {r} /\ req' = [req EXCEPT ![r].at = "posted"]
      /\ UNCHANGED <<status, closedAt, participants, notes, links, documents, timeline, failed>>
  BY DEF StartWorkflowPost, Commits, rows
<1>2. req \in [Requests -> Request] /\ RowTypes
  BY RequestFacts, FileTypes DEF FileInv
<1>3. /\ req'[r] = [req[r] EXCEPT !.at = "posted"] /\ \A q \in Requests \ {r} : req'[q] = req[q]
  BY <1>1, <1>2
<1>4. /\ req'[r].at = "posted" /\ req'[r].op = "start" /\ req'[r].about = req[r].about
      /\ req'[r].closedAt = req[r].closedAt
  BY <1>1, <1>2, <1>3 DEF Request
<1>5. req' \in [Requests -> Request]
  BY <1>1, <1>2 DEF Request, Stage
<1>6. ASSUME NEW q \in Requests PROVE RequestInv(q)'
  <2>1. WasEditor(UserOf[q], Len(timeline) + 1)' <=> WasEditor(UserOf[q], Len(timeline) + 1)
    BY <1>1 DEF WasEditor, Adds, Is
  <2>2. RequestInv(q)
    BY DEF FileInv
  <2>3. CASE q = r
    BY <1>1, <1>4, <2>1, <2>2, <2>3 DEF RequestInv
  <2>4. CASE q # r
    BY <1>1, <1>3, <2>1, <2>2, <2>4 DEF RequestInv
  <2> QED BY <2>3, <2>4
<1>7. ASSUME NEW q \in instances' \ links PROVE q \in failed' \/ req'[q].at = "posted"
  BY <1>1, <1>3, <1>4, RequestFacts
<1>8. NoteIds' = NoteIds /\ notes' \subseteq [id : Requests, by : Users, internal : BOOLEAN]
  BY <1>1, <1>2 DEF NoteIds, RowTypes
<1> QED BY <1>1, <1>5, <1>6, <1>7, <1>8, QuietInv, RequestFacts

LEMMA FailureInv == ASSUME FileInv, NEW r \in Requests, StartWorkflowTimeout(r) \/ Fail(r) PROVE FileInv'
<1>1. /\ req' = [req EXCEPT ![r] = Done] /\ failed' = failed \cup {r}
      /\ instances' \in {instances, instances \cup {r}}
      /\ UNCHANGED <<status, closedAt, participants, notes, links, documents, timeline>>
  BY DEF StartWorkflowTimeout, Fail, rows
<1>2. NoteIds' = NoteIds /\ notes' \subseteq [id : Requests, by : Users, internal : BOOLEAN]
  BY <1>1, FileTypes DEF NoteIds, RowTypes, FileInv
<1> QED BY <1>1, <1>2, EndQuietly

LEMMA FileStepInv == FileInv /\ [FileNext]_fileVars => FileInv'
<1> SUFFICES ASSUME FileInv, [FileNext]_fileVars PROVE FileInv'
  OBVIOUS
<1>1. ASSUME NEW r \in Requests, FileStep(r) PROVE FileInv'
  BY <1>1, ChecksInv, UpdateCommitInv, AddParticipantInv, RemoveParticipantInv, AddNoteInv, UpdateNoteInv,
     LinkInv, LinkDocumentInv, StartWorkflowPostInv, FailureInv DEF FileStep, CheckStep
<1>2. CASE UNCHANGED fileVars
  <2>1. UNCHANGED <<status, closedAt, participants, notes, links, documents, timeline, instances, req, failed>>
    BY <1>2 DEF fileVars, rows
  <2>2. \A q \in Requests : RequestInv(q)'
    BY <2>1 DEF FileInv, RequestInv, WasEditor, Adds, Is
  <2>3. NoteIds' = NoteIds /\ notes' \subseteq [id : Requests, by : Users, internal : BOOLEAN]
    BY <2>1, FileTypes DEF NoteIds, RowTypes, FileInv
  <2> QED BY <2>1, <2>2, <2>3, RequestFacts, QuietInv
<1> QED BY <1>1, <1>2 DEF FileNext

-----------------------------------------------------------------------------
(* What the invariant says of sets of positions and the last of each.      *)

LEMMA LastIs ==
  ASSUME NEW S, S \subseteq Nat, NEW i \in S, \A j \in S : j <= i
  PROVE  LastOf(S) = i
<1>1. \A k \in S : (\A j \in S : j <= k) => k = i
  OBVIOUS
<1> QED BY <1>1 DEF LastOf

LEMMA StatusFollows == FileInv => StatusFollowsTimeline
<1> SUFFICES ASSUME FileInv PROVE StatusFollowsTimeline
  OBVIOUS
<1> DEFINE changes == Entries({"status_change"})
           closings == {timeline[i].id : i \in {j \in changes : timeline[j].to = "closed"}}
<1>1. StatusInv /\ FileTypeOK
  BY DEF FileInv
<1>2. changes \subseteq Nat /\ \A i \in DOMAIN timeline : i \in changes <=> Is(i, {"status_change"})
  BY <1>1, TimelineType DEF Entries, Is
<1>3. status = IF changes = {} THEN "open" ELSE timeline[LastOf(changes)].to
  <2>1. CASE \A i \in DOMAIN timeline : ~Is(i, {"status_change"})
    <3>1. changes = {} /\ status = "open"
      BY <1>1, <1>2, <2>1 DEF StatusInv, Entries, LastChange
    <3> QED BY <3>1
  <2>2. CASE \E i \in DOMAIN timeline : LastChange(i) /\ timeline[i].to = status
    <3>1. PICK i \in DOMAIN timeline : LastChange(i) /\ timeline[i].to = status
      BY <2>2
    <3>2. i \in changes /\ \A j \in changes : j <= i
      BY <1>2, <3>1 DEF LastChange, Entries
    <3>3. LastOf(changes) = i
      BY <1>2, <3>2, LastIs
    <3> QED BY <3>1, <3>2, <3>3
  <2> QED BY <1>1, <2>1, <2>2 DEF StatusInv
<1>4. closedAt \in closings \cup {Nobody}
  BY <1>1, <1>2 DEF StatusInv
<1>5. closedAt = Nobody => closings = {}
  BY <1>1, <1>2 DEF StatusInv, Entries
<1> QED BY <1>3, <1>4, <1>5 DEF StatusFollowsTimeline

LEMMA ParticipantsFollow == FileInv => ParticipantsFollowTimeline
<1> SUFFICES ASSUME FileInv, NEW u \in Users
             PROVE  LET added == {i \in Entries({"case_created", "participant_added"}) : timeline[i].about = u}
                        removed == {i \in Entries({"participant_removed"}) : timeline[i].about = u}
                    IN IF participants[u] = NoRow
                       THEN \A i \in added : \E j \in removed : i < j
                       ELSE /\ added # {}
                            /\ participants[u] = [id |-> timeline[LastOf(added)].id, role |-> timeline[LastOf(added)].to]
  BY DEF ParticipantsFollowTimeline
<1> DEFINE added == {i \in Entries({"case_created", "participant_added"}) : timeline[i].about = u}
           removed == {i \in Entries({"participant_removed"}) : timeline[i].about = u}
<1>1. ParticipantInv(u) /\ FileTypeOK
  BY DEF FileInv
<1>2. added \subseteq Nat /\ added \subseteq DOMAIN timeline
  BY <1>1, TimelineType DEF Entries
<1>3. \A i \in DOMAIN timeline : (i \in added <=> Adds(i, u)) /\ (i \in removed <=> Removes(i, u))
  BY DEF Entries, Adds, Removes, Is
<1>4. CASE participants[u] = NoRow
  BY <1>1, <1>2, <1>3, <1>4 DEF ParticipantInv
<1>5. CASE participants[u] # NoRow
  <2>1. PICK i \in DOMAIN timeline :
          /\ Adds(i, u) /\ \A j \in DOMAIN timeline : Adds(j, u) => j <= i
          /\ participants[u] = [id |-> timeline[i].id, role |-> timeline[i].to]
    BY <1>1, <1>5 DEF ParticipantInv
  <2>2. i \in added /\ \A j \in added : j <= i
    BY <1>2, <1>3, <2>1
  <2>3. LastOf(added) = i
    BY <1>2, <2>2, LastIs
  <2>4. /\ added # {}
        /\ participants[u] = [id |-> timeline[LastOf(added)].id, role |-> timeline[LastOf(added)].to]
    BY <2>1, <2>2, <2>3
  <2> QED BY <1>5, <2>4
<1> QED BY <1>4, <1>5

LEMMA ActorsWere == FileInv => ActorsWereEditors
<1> SUFFICES ASSUME FileInv, NEW i \in DOMAIN timeline, timeline[i].actor \notin Admins,
                    timeline[i].event # "case_created"
             PROVE  \E j \in Entries({"case_created", "participant_added"}) :
                      j < i /\ timeline[j].about = timeline[i].actor /\ timeline[j].to \in Editors
  BY DEF ActorsWereEditors
<1>1. WasEditor(timeline[i].actor, i)
  BY DEF FileInv, ActorInv
<1> QED BY <1>1 DEF WasEditor, Adds, Is, Entries

\* The inductive invariant of the handlers: what the rows and every request
\* under way owe to the timeline.  (cases.py:210-817)
THEOREM FileInvariant == FileSpec => []FileInv
<1> QED BY InitFile, FileStepInv, PTL DEF FileSpec

\* The state of the case file stays well formed.
THEOREM FileTypesHold == FileSpec => []FileTypeOK
<1>1. FileInv => FileTypeOK
  BY DEF FileInv
<1> QED BY <1>1, FileInvariant, PTL

\* The case's status, participants and links are what its timeline accounts
\* for, and nobody wrote whom no earlier entry had made an editor and who is no
\* admin, for any number of users and requests.  (cases.py:210-817)
THEOREM TimelineAccounts == FileSpec => []CaseFollowsTimeline
<1>1. FileInv => CaseFollowsTimeline
  BY StatusFollows, ParticipantsFollow, ActorsWere DEF FileInv, CaseFollowsTimeline
<1> QED BY <1>1, FileInvariant, PTL

-----------------------------------------------------------------------------
(* The consumer.                                                           *)

Increasing(s) == \A i, j \in DOMAIN s : i < j => s[i] < s[j]

\* What was linked when it was reported stays linked.
LinkedInv(n) == stream[n].linked => IsLinked(stream[n].about)

\* The rows of the batch come after all that are committed, and what is to be
\* acknowledged is among them or spoiled.
ProcessingInv ==
  /\ Increasing(consumer.adds)
  /\ \A k \in DOMAIN consumer.adds : consumer.adds[k] < consumer.next
  /\ \A i \in DOMAIN recorded : recorded[i] < consumer.next
  /\ \A i \in DOMAIN recorded, k \in DOMAIN consumer.adds : recorded[i] < consumer.adds[k]
  /\ \A n \in consumer.acks :
       stream[n].linked /\ n \notin spoiled =>
         consumer.tx = "ok" /\ \E k \in DOMAIN consumer.adds : consumer.adds[k] = n

CommittedInv ==
  \A n \in consumer.acks :
    stream[n].linked /\ n \notin spoiled => \E i \in DOMAIN recorded : recorded[i] = n

\* The batch in hand ends where the group is.
BatchInv ==
  /\ consumer.last = delivered /\ consumer.next <= delivered + 1
  /\ \A n \in consumer.acks : n < consumer.next
  /\ consumer.at = "processing" => ProcessingInv
  /\ consumer.at = "committed" => CommittedInv

ConsumerInv ==
  /\ TimelineTypeOK /\ Len(stream) <= MaxStream
  /\ \A n \in DOMAIN stream : LinkedInv(n)
  /\ RowsFollowStream /\ AckedIsRecorded
  /\ consumer.at # "reading" => BatchInv

Hand == [at : {"reading", "processing", "committed"}, next : 1 .. MaxStream + 1,
         last : 0 .. MaxStream, acks : SUBSET (1 .. MaxStream), adds : Seq(1 .. MaxStream),
         unflushed : BOOLEAN, tx : {"ok", "aborted", "inactive"}]

LEMMA Bounds == MaxStream \in Nat /\ Batch \in Nat /\ Batch > 0 /\ MaxFailures \in Nat
BY TimelineAssumption

LEMMA ReadingType ==
  /\ Reading \in Hand /\ Reading.at = "reading" /\ Reading.acks = {} /\ Reading.adds = <<>>
  /\ Reading.next = 1 /\ Reading.tx = "ok"
<1>1. <<>> \in Seq(1 .. MaxStream)
  OBVIOUS
<1> QED BY <1>1, Bounds DEF Reading, Hand

\* The types of the state, spelled out for the provers.
LEMMA HandTypes ==
  ASSUME TimelineTypeOK
  PROVE  /\ consumer \in Hand
         /\ consumer.at \in {"reading", "processing", "committed"}
         /\ consumer.next \in Nat /\ consumer.last \in Nat /\ consumer.adds \in Seq(1 .. MaxStream)
         /\ consumer.acks \in SUBSET (1 .. MaxStream) /\ consumer.tx \in {"ok", "aborted", "inactive"}
         /\ Len(stream) \in Nat /\ DOMAIN stream = 1 .. Len(stream)
         /\ delivered \in Nat /\ delivered <= Len(stream)
         /\ acked \subseteq 1 .. delivered /\ spoiled \subseteq 1 .. delivered
         /\ recorded \in Seq(1 .. delivered)
BY Bounds DEF TimelineTypeOK, Hand

LEMMA InitConsumer == FileInit /\ TimelineInit => ConsumerInv
<1> SUFFICES ASSUME FileInit, TimelineInit PROVE ConsumerInv
  OBVIOUS
<1>1. /\ stream = <<>> /\ delivered = 0 /\ acked = {} /\ recorded = <<>> /\ consumer = Reading
      /\ failures = 0 /\ spoiled = {}
  BY DEF TimelineInit
<1>2. TimelineTypeOK
  <2>1. recorded \in Seq(1 .. delivered) /\ stream \in Seq([about : Subject, linked : BOOLEAN])
    BY <1>1
  <2> QED BY <1>1, <2>1, ReadingType, Bounds DEF TimelineTypeOK, Hand
<1>3. DOMAIN stream = {} /\ DOMAIN recorded = {} /\ Len(stream) = 0
  BY <1>1
<1> QED BY <1>1, <1>2, <1>3, ReadingType, Bounds
        DEF ConsumerInv, RowsFollowStream, AckedIsRecorded

\* Nothing is ever unlinked.
LEMMA LinksStay ==
  ASSUME FileInv, FileNext
  PROVE  links \subseteq links' /\ documents \subseteq documents'
<1>1. PICK r \in Requests : FileStep(r)
  BY DEF FileNext
<1>2. CASE UpdateCommit(r) \/ AddParticipantCommit(r) \/ RemoveParticipantCommit(r) \/ AddNoteCommit(r)
           \/ UpdateNoteCommit(r)
  BY <1>2 DEF UpdateCommit, AddParticipantCommit, RemoveParticipantCommit, AddNoteCommit, UpdateNoteCommit
<1>3. CASE LinkWorkflowCommit(r) \/ StartWorkflowCommit(r) \/ LinkDocumentCommit(r)
  BY <1>3 DEF LinkWorkflowCommit, StartWorkflowCommit, LinkDocumentCommit, LinkCommit
<1>4. CASE StartWorkflowPost(r) \/ StartWorkflowTimeout(r) \/ Fail(r)
  BY <1>4 DEF StartWorkflowPost, StartWorkflowTimeout, Fail, rows
<1>5. CASE CheckStep(r)
  BY <1>5 DEF CheckStep, UpdateCheck, AddParticipantCheck, RemoveParticipantCheck, AddNoteCheck,
              UpdateNoteCheck, LinkWorkflowCheck, LinkDocumentCheck, StartWorkflowCheck, Check, rows
<1> QED BY <1>1, <1>2, <1>3, <1>4, <1>5 DEF FileStep, CheckStep

\* A sequence with another of greater numbers after it.
LEMMA Joined ==
  ASSUME NEW m \in Nat, NEW r \in Seq(1 .. m), NEW a \in Seq(1 .. m), Increasing(r), Increasing(a),
         \A i \in DOMAIN r, k \in DOMAIN a : r[i] < a[k]
  PROVE  /\ r \o a \in Seq(1 .. m) /\ Increasing(r \o a)
         /\ \A i \in DOMAIN r : \E j \in DOMAIN (r \o a) : (r \o a)[j] = r[i]
         /\ \A k \in DOMAIN a : \E j \in DOMAIN (r \o a) : (r \o a)[j] = a[k]
<1> DEFINE c == r \o a
<1>1. /\ Len(r) \in Nat /\ DOMAIN r = 1 .. Len(r) /\ Len(a) \in Nat /\ DOMAIN a = 1 .. Len(a)
  OBVIOUS
<1>2. /\ c \in Seq(1 .. m) /\ Len(c) = Len(r) + Len(a) /\ DOMAIN c = 1 .. Len(r) + Len(a)
      /\ \A i \in 1 .. Len(r) : c[i] = r[i]
      /\ \A i \in Len(r) + 1 .. Len(r) + Len(a) : c[i] = a[i - Len(r)]
  BY ConcatProperties
<1> HIDE DEF c
<1>3. PICK x : x = Len(r)
  OBVIOUS
<1>4. PICK y : y = Len(a)
  OBVIOUS
<1>5. \A i \in DOMAIN c : (i \in DOMAIN r /\ c[i] = r[i]) \/ (i > x /\ i - x \in DOMAIN a /\ c[i] = a[i - x])
  <2> SUFFICES ASSUME NEW i \in 1 .. x + y
               PROVE  (i \in DOMAIN r /\ c[i] = r[i]) \/ (i > x /\ i - x \in DOMAIN a /\ c[i] = a[i - x])
    BY <1>2, <1>3, <1>4
  <2>1. i \in Nat /\ x \in Nat /\ y \in Nat
    BY <1>1, <1>3, <1>4
  <2>2. CASE i <= x
    BY <1>1, <1>2, <1>3, <2>1, <2>2
  <2>3. CASE i > x
    <3>1. i \in x + 1 .. x + y /\ i - x \in 1 .. y
      BY <2>1, <2>3
    <3> QED BY <1>1, <1>2, <1>3, <1>4, <2>3, <3>1
  <2> QED BY <2>1, <2>2, <2>3
<1>6. ASSUME NEW i \in DOMAIN c, NEW j \in DOMAIN c, i < j PROVE c[i] < c[j]
  <2>0. i \in Nat /\ j \in Nat /\ x \in Nat /\ DOMAIN r = 1 .. x
    BY <1>1, <1>2, <1>3
  <2>1. CASE j \in DOMAIN r /\ c[j] = r[j]
    <3>1. i \in DOMAIN r /\ c[i] = r[i]
      BY <1>2, <1>3, <1>6, <2>0, <2>1
    <3> QED BY <1>6, <2>1, <3>1 DEF Increasing
  <2>2. CASE j > x /\ j - x \in DOMAIN a /\ c[j] = a[j - x]
    <3>1. CASE i \in DOMAIN r /\ c[i] = r[i]
      BY <2>2, <3>1
    <3>2. CASE i > x /\ i - x \in DOMAIN a /\ c[i] = a[i - x]
      <4>1. i - x < j - x
        BY <1>6, <2>0
      <4> QED BY <2>2, <3>2, <4>1 DEF Increasing
    <3> QED BY <1>5, <3>1, <3>2
  <2> QED BY <1>5, <2>1, <2>2
<1>7. \A i \in DOMAIN r : i \in DOMAIN c /\ c[i] = r[i]
  BY <1>1, <1>2
<1>8. ASSUME NEW k \in DOMAIN a PROVE k + x \in DOMAIN c /\ c[k + x] = a[k]
  <2>1. k \in Nat /\ k >= 1 /\ k <= y /\ x \in Nat /\ y \in Nat
    BY <1>1, <1>3, <1>4
  <2>2. k + x \in x + 1 .. x + y /\ k + x \in 1 .. x + y /\ (k + x) - x = k
    BY <2>1
  <2> QED BY <1>2, <1>3, <1>4, <2>2
<1>9. Increasing(c)
  BY <1>6 DEF Increasing
<1> QED BY <1>2, <1>7, <1>8, <1>9 DEF c

\* A step of the handlers.
LEMMA HandlerConsumer ==
  ASSUME ConsumerInv, UNCHANGED timelineVars, links \subseteq links', documents \subseteq documents'
  PROVE  ConsumerInv'
<1>1. UNCHANGED <<stream, delivered, acked, consumer, recorded, failures, spoiled>>
  BY DEF timelineVars
<1>3. \A n \in DOMAIN stream' : LinkedInv(n)'
  BY <1>1 DEF ConsumerInv, LinkedInv, IsLinked
<1>4. TimelineTypeOK' /\ Len(stream') <= MaxStream /\ RowsFollowStream' /\ AckedIsRecorded'
  BY <1>1 DEF ConsumerInv, TimelineTypeOK, RowsFollowStream, AckedIsRecorded
<1>5. consumer'.at # "reading" => BatchInv'
  BY <1>1 DEF ConsumerInv, BatchInv, ProcessingInv, CommittedInv, Increasing
<1> QED BY <1>3, <1>4, <1>5 DEF ConsumerInv

\* A step that commits, acknowledges, delivers and spoils nothing, with the
\* consumer's types and batch left to show.
LEMMA HandStep ==
  ASSUME ConsumerInv, UNCHANGED <<stream, delivered, acked, recorded, spoiled, links, documents>>,
         failures' \in 0 .. MaxFailures, consumer' \in Hand, consumer'.at # "reading" => BatchInv'
  PROVE  ConsumerInv'
<1>1. TimelineTypeOK' /\ Len(stream') <= MaxStream /\ RowsFollowStream' /\ AckedIsRecorded'
  BY DEF ConsumerInv, TimelineTypeOK, RowsFollowStream, AckedIsRecorded, Hand
<1>2. \A n \in DOMAIN stream' : LinkedInv(n)'
  BY DEF ConsumerInv, LinkedInv, IsLinked
<1> QED BY <1>1, <1>2 DEF ConsumerInv

LEMMA EmitInv ==
  ASSUME ConsumerInv, FileTypeOK, Emit, UNCHANGED <<links, documents>> PROVE ConsumerInv'
<1>1. PICK x \in Linkable \cup Documents \cup {Nobody} :
        stream' = Append(stream, [about |-> x, linked |-> IsLinked(x)])
  BY DEF Emit
<1>2. /\ Len(stream) < MaxStream
      /\ UNCHANGED <<delivered, acked, consumer, recorded, failures, spoiled>>
  BY DEF Emit
<1>3. TimelineTypeOK
  BY DEF ConsumerInv
<1> DEFINE s == [about |-> x, linked |-> IsLinked(x)]
<1>4. s \in [about : Subject, linked : BOOLEAN] /\ s.about = x /\ s.linked = IsLinked(x)
  BY DEF IsLinked, Linkable, Subject, FileTypeOK
<1>5. stream' = Append(stream, s)
  BY <1>1
<1> HIDE DEF s
<1>6. PICK m : m = Len(stream) + 1
  OBVIOUS
<1>7. /\ stream' \in Seq([about : Subject, linked : BOOLEAN]) /\ Len(stream') = m
      /\ DOMAIN stream' = DOMAIN stream \cup {m} /\ stream'[m] = s
      /\ \A i \in DOMAIN stream : stream'[i] = stream[i]
  <2>1. /\ stream \in Seq([about : Subject, linked : BOOLEAN])
        /\ Len(stream) \in Nat /\ DOMAIN stream = 1 .. Len(stream)
    BY <1>3, HandTypes DEF TimelineTypeOK
  <2>2. /\ stream' \in Seq([about : Subject, linked : BOOLEAN]) /\ Len(stream') = Len(stream) + 1
        /\ stream'[Len(stream) + 1] = s
        /\ \A i \in 1 .. Len(stream) : stream'[i] = stream[i]
    BY <1>4, <1>5, <2>1, AppendProperties
  <2> QED BY <1>6, <2>1, <2>2
<1>8. \A n \in 1 .. delivered : n \in DOMAIN stream /\ stream'[n] = stream[n]
  <2>1. 1 .. delivered \subseteq DOMAIN stream
    BY <1>3, HandTypes
  <2> QED BY <1>7, <2>1
<1>9. TimelineTypeOK' /\ Len(stream') <= MaxStream
  BY <1>2, <1>3, <1>6, <1>7, HandTypes, Bounds DEF TimelineTypeOK
<1>10. RowsFollowStream' /\ AckedIsRecorded'
  BY <1>2, <1>3, <1>8, HandTypes DEF ConsumerInv, RowsFollowStream, AckedIsRecorded
<1>11. ASSUME NEW n \in DOMAIN stream' PROVE LinkedInv(n)'
  <2>1. CASE n = m
    BY <1>4, <1>7, <2>1 DEF LinkedInv, IsLinked
  <2>2. CASE n \in DOMAIN stream
    BY <1>7, <2>2 DEF ConsumerInv, LinkedInv, IsLinked
  <2> QED BY <1>7, <2>1, <2>2
<1>12. ASSUME consumer'.at # "reading" PROVE BatchInv'
  <2>1. BatchInv
    BY <1>2, <1>12 DEF ConsumerInv
  <2>2. \A n \in consumer.acks : n \in 1 .. delivered
    BY <1>3, <2>1, HandTypes DEF BatchInv
  <2>3. \A n \in consumer.acks : stream'[n] = stream[n]
    BY <1>8, <2>2
  <2> QED BY <1>2, <2>1, <2>3 DEF BatchInv, ProcessingInv, CommittedInv, Increasing
<1> QED BY <1>9, <1>10, <1>11, <1>12 DEF ConsumerInv

LEMMA ReadInv ==
  ASSUME ConsumerInv, Read, UNCHANGED <<links, documents>> PROVE ConsumerInv'
<1>1. PICK last :
        /\ last = IF delivered + Batch < Len(stream) THEN delivered + Batch ELSE Len(stream)
        /\ delivered' = last
        /\ consumer' = [Reading EXCEPT !.at = "processing", !.next = delivered + 1, !.last = last]
  BY DEF Read
<1>2. delivered < Len(stream) /\ UNCHANGED <<stream, acked, recorded, failures, spoiled>>
  BY DEF Read
<1>3. TimelineTypeOK /\ Len(stream) <= MaxStream
  BY DEF ConsumerInv
<1>4. last \in Nat /\ delivered < last /\ last <= Len(stream)
  BY <1>1, <1>2, <1>3, HandTypes, Bounds
<1>5. delivered + 1 \in 1 .. MaxStream + 1 /\ last \in 0 .. MaxStream
  BY <1>3, <1>4, HandTypes, Bounds
<1>6. consumer' \in Hand
  BY <1>1, <1>5, ReadingType DEF Hand
<1>7. /\ consumer'.at = "processing" /\ consumer'.next = delivered + 1 /\ consumer'.last = last
      /\ consumer'.acks = {} /\ consumer'.adds = <<>>
  BY <1>1, ReadingType DEF Hand
<1>8. TimelineTypeOK'
  <2>1. 1 .. delivered \subseteq 1 .. last
    BY <1>3, <1>4, HandTypes
  <2>2. recorded \in Seq(1 .. last)
    BY <1>3, <2>1, HandTypes, SeqMonotonic
  <2>3. delivered' \in 0 .. Len(stream)
    BY <1>1, <1>4
  <2> QED BY <1>1, <1>2, <1>3, <1>6, <2>1, <2>2, <2>3 DEF TimelineTypeOK, Hand
<1>9. RowsFollowStream' /\ AckedIsRecorded'
  BY <1>2 DEF ConsumerInv, RowsFollowStream, AckedIsRecorded
<1>10. \A n \in DOMAIN stream' : LinkedInv(n)'
  BY <1>2 DEF ConsumerInv, LinkedInv, IsLinked
<1>11. BatchInv'
  <2>1. \A i \in DOMAIN recorded : recorded[i] \in 1 .. delivered
    BY <1>3, HandTypes
  <2>2. \A i \in DOMAIN recorded : recorded[i] < delivered + 1
    BY <1>3, <2>1, HandTypes
  <2>3. DOMAIN consumer'.adds = {}
    BY <1>7
  <2>4. ProcessingInv'
    BY <1>2, <1>7, <2>2, <2>3 DEF ProcessingInv, Increasing
  <2>5. delivered + 1 <= delivered' + 1
    BY <1>1, <1>3, <1>4, HandTypes
  <2> QED BY <1>1, <1>7, <2>4, <2>5 DEF BatchInv
<1> QED BY <1>2, <1>3, <1>8, <1>9, <1>10, <1>11 DEF ConsumerInv

\* The batch is given up.
LEMMA DropInv ==
  ASSUME ConsumerInv, NothingToCommit \/ RefuseCommit \/ CommitFails \/ Crash,
         UNCHANGED <<links, documents>>
  PROVE  ConsumerInv'
<1>1. consumer' = Reading /\ UNCHANGED <<stream, delivered, acked, recorded, spoiled>>
  BY DEF NothingToCommit, RefuseCommit, CommitFails, Crash
<1>2. failures \in 0 .. MaxFailures
  BY DEF ConsumerInv, TimelineTypeOK
<1>3. failures' \in 0 .. MaxFailures
  BY <1>2, Bounds DEF NothingToCommit, RefuseCommit, CommitFails, Crash, May
<1> QED BY <1>1, <1>3, ReadingType, HandStep

LEMMA AckInv == ASSUME ConsumerInv, Ack, UNCHANGED <<links, documents>> PROVE ConsumerInv'
<1>1. /\ consumer.at = "committed" /\ acked' = acked \cup consumer.acks /\ consumer' = Reading
      /\ UNCHANGED <<stream, delivered, recorded, failures, spoiled>>
  BY DEF Ack
<1>2. TimelineTypeOK /\ BatchInv
  BY <1>1 DEF ConsumerInv
<1>3. consumer.acks \subseteq 1 .. delivered
  BY <1>2, HandTypes DEF BatchInv
<1>4. TimelineTypeOK'
  BY <1>1, <1>2, <1>3, ReadingType DEF TimelineTypeOK, Hand
<1>5. RowsFollowStream' /\ AckedIsRecorded'
  BY <1>1, <1>2 DEF ConsumerInv, RowsFollowStream, AckedIsRecorded, BatchInv, CommittedInv
<1>6. \A n \in DOMAIN stream' : LinkedInv(n)'
  BY <1>1 DEF ConsumerInv, LinkedInv, IsLinked
<1> QED BY <1>1, <1>4, <1>5, <1>6, ReadingType DEF ConsumerInv

LEMMA RowNumbers ==
  ASSUME TimelineTypeOK
  PROVE  /\ \A k \in DOMAIN consumer.adds : consumer.adds[k] \in Nat /\ consumer.adds[k] >= 1
         /\ \A i \in DOMAIN recorded : recorded[i] \in Nat
         /\ DOMAIN consumer.adds = 1 .. Len(consumer.adds) /\ Len(consumer.adds) \in Nat
         /\ DOMAIN recorded = 1 .. Len(recorded) /\ Len(recorded) \in Nat
<1>1. \A S, s : s \in Seq(S) => DOMAIN s = 1 .. Len(s) /\ Len(s) \in Nat /\ \A i \in DOMAIN s : s[i] \in S
  OBVIOUS
<1>2. consumer.adds \in Seq(1 .. MaxStream) /\ recorded \in Seq(1 .. delivered)
  BY HandTypes
<1>3. 1 .. MaxStream \subseteq Nat \ {0} /\ 1 .. delivered \subseteq Nat
  BY Bounds, HandTypes
<1>4. \A k \in DOMAIN consumer.adds : consumer.adds[k] \in Nat \ {0}
  BY <1>1, <1>2, <1>3
<1>5. \A i \in DOMAIN recorded : recorded[i] \in Nat
  BY <1>1, <1>2, <1>3
<1>6. \A k : k \in Nat \ {0} => k \in Nat /\ k >= 1
  OBVIOUS
<1>7. \A k \in DOMAIN consumer.adds : consumer.adds[k] \in Nat /\ consumer.adds[k] >= 1
  BY <1>4, <1>6
<1> QED BY <1>1, <1>2, <1>5, <1>7

\* What a batch in hand that is not through tells.
LEMMA HandFacts ==
  ASSUME ConsumerInv, InHand
  PROVE  /\ consumer.at = "processing" /\ consumer.next \in Nat /\ consumer.next >= 1
         /\ consumer.next <= delivered /\ consumer.last = delivered
         /\ delivered \in Nat /\ delivered <= Len(stream) /\ Len(stream) <= MaxStream
         /\ consumer.next \in DOMAIN stream /\ consumer.next \in 1 .. MaxStream
         /\ consumer.next + 1 \in 1 .. MaxStream + 1
         /\ \A n \in consumer.acks : n \in Nat /\ n < consumer.next
         /\ ProcessingInv
<1>1. TimelineTypeOK /\ BatchInv /\ consumer.at = "processing" /\ consumer.next <= consumer.last
  BY DEF ConsumerInv, InHand
<1>2. ProcessingInv /\ consumer.last = delivered /\ \A n \in consumer.acks : n < consumer.next
  BY <1>1 DEF BatchInv
<1>3. Len(stream) <= MaxStream
  BY DEF ConsumerInv
<1>4. consumer.next \in 1 .. MaxStream + 1
  BY <1>1, HandTypes DEF Hand
<1> QED BY <1>1, <1>2, <1>3, <1>4, HandTypes, Bounds

LEMMA SkipInv ==
  ASSUME ConsumerInv, FileTypeOK, Skip, UNCHANGED <<links, documents>> PROVE ConsumerInv'
<1>1. /\ InHand /\ ~Relevant
      /\ consumer' = [consumer EXCEPT !.next = @ + 1, !.acks = @ \cup {consumer.next}]
      /\ UNCHANGED <<stream, delivered, acked, recorded, failures, spoiled>>
  BY DEF Skip
<1>2. TimelineTypeOK
  BY DEF ConsumerInv
<1>3. consumer \in Hand
  BY <1>2, HandTypes
<1>4. /\ consumer'.next = consumer.next + 1 /\ consumer'.acks = consumer.acks \cup {consumer.next}
      /\ consumer'.adds = consumer.adds /\ consumer'.tx = consumer.tx /\ consumer'.at = consumer.at
      /\ consumer'.last = consumer.last /\ consumer'.unflushed = consumer.unflushed
  BY <1>1, <1>3 DEF Hand
<1>5. consumer' \in Hand
  BY <1>1, <1>3, HandFacts DEF Hand
<1>6. ~stream[consumer.next].linked
  <2>1. LinkedInv(consumer.next)
    BY <1>1, HandFacts DEF ConsumerInv
  <2>2. ~IsLinked(Nobody)
    BY UserAssumption DEF FileTypeOK, IsLinked, Linkable
  <2> QED BY <1>1, <2>1, <2>2 DEF LinkedInv, Relevant
<1>7. ProcessingInv'
  <2>1. \A k \in DOMAIN consumer.adds : consumer.adds[k] \in Nat
    BY <1>2, RowNumbers
  <2>2. \A i \in DOMAIN recorded : recorded[i] \in Nat
    BY <1>2, RowNumbers
  <2>3. \A k \in DOMAIN consumer.adds : consumer.adds[k] < consumer.next + 1
    BY <1>1, <2>1, HandFacts DEF ProcessingInv
  <2>4. \A i \in DOMAIN recorded : recorded[i] < consumer.next + 1
    BY <1>1, <2>2, HandFacts DEF ProcessingInv
  <2> QED BY <1>1, <1>4, <1>6, <2>3, <2>4, HandFacts DEF ProcessingInv, Increasing
<1>8. BatchInv'
  <2>1. \A n \in consumer'.acks : n < consumer'.next
    BY <1>1, <1>4, HandFacts
  <2> QED BY <1>1, <1>4, <1>7, <2>1, HandFacts DEF BatchInv
<1>9. failures' \in 0 .. MaxFailures
  BY <1>1, <1>2 DEF TimelineTypeOK
<1> QED BY <1>1, <1>5, <1>8, <1>9, HandStep

LEMMA ProcessInVainInv ==
  ASSUME ConsumerInv, ProcessInVain, UNCHANGED <<links, documents>> PROVE ConsumerInv'
<1>1. /\ InHand /\ consumer.tx # "ok" /\ consumer' = [consumer EXCEPT !.next = @ + 1]
      /\ UNCHANGED <<stream, delivered, acked, recorded, failures, spoiled>>
  BY DEF ProcessInVain
<1>2. TimelineTypeOK
  BY DEF ConsumerInv
<1>3. consumer \in Hand
  BY <1>2, HandTypes
<1>4. /\ consumer'.next = consumer.next + 1 /\ consumer'.acks = consumer.acks
      /\ consumer'.adds = consumer.adds /\ consumer'.tx = consumer.tx /\ consumer'.at = consumer.at
      /\ consumer'.last = consumer.last /\ consumer'.unflushed = consumer.unflushed
  BY <1>1, <1>3 DEF Hand
<1>5. consumer' \in Hand
  BY <1>1, <1>3, HandFacts DEF Hand
<1>7. ProcessingInv'
  <2>1. \A k \in DOMAIN consumer.adds : consumer.adds[k] \in Nat
    BY <1>2, RowNumbers
  <2>2. \A i \in DOMAIN recorded : recorded[i] \in Nat
    BY <1>2, RowNumbers
  <2>3. \A k \in DOMAIN consumer.adds : consumer.adds[k] < consumer.next + 1
    BY <1>1, <2>1, HandFacts DEF ProcessingInv
  <2>4. \A i \in DOMAIN recorded : recorded[i] < consumer.next + 1
    BY <1>1, <2>2, HandFacts DEF ProcessingInv
  <2> QED BY <1>1, <1>4, <2>3, <2>4, HandFacts DEF ProcessingInv, Increasing
<1>8. BatchInv'
  <2>1. \A n \in consumer'.acks : n < consumer'.next
    BY <1>1, <1>4, HandFacts
  <2> QED BY <1>1, <1>4, <1>7, <2>1, HandFacts DEF BatchInv
<1>9. failures' \in 0 .. MaxFailures
  BY <1>1, <1>2 DEF TimelineTypeOK
<1> QED BY <1>1, <1>5, <1>8, <1>9, HandStep

LEMMA ProcessInv ==
  ASSUME ConsumerInv, Process, UNCHANGED <<links, documents>> PROVE ConsumerInv'
<1> DEFINE linked == IsLinked(stream[consumer.next].about)
<1>1. /\ linked \in BOOLEAN
      /\ consumer' = [consumer EXCEPT !.next = @ + 1, !.acks = @ \cup {consumer.next},
                        !.adds = IF linked THEN Append(@, consumer.next) ELSE @,
                        !.unflushed = linked]
  BY DEF Process, IsLinked
<1>2. /\ InHand /\ consumer.tx = "ok"
      /\ UNCHANGED <<stream, delivered, acked, recorded, failures, spoiled>>
  BY DEF Process
<1>3. TimelineTypeOK
  BY DEF ConsumerInv
<1>4. consumer \in Hand
  BY <1>3, HandTypes
<1> DEFINE n == consumer.next
           a == consumer.adds
           b == IF linked THEN Append(a, n) ELSE a
<1>5. /\ a \in Seq(1 .. MaxStream) /\ DOMAIN a = 1 .. Len(a) /\ Len(a) \in Nat
      /\ \A k \in DOMAIN a : a[k] \in Nat /\ a[k] < n
      /\ \A i \in DOMAIN recorded : recorded[i] \in Nat /\ recorded[i] < n
  BY <1>2, <1>3, HandTypes, RowNumbers, HandFacts DEF ProcessingInv
<1>6. b \in Seq(1 .. MaxStream)
  BY <1>2, <1>5, HandFacts, AppendProperties
<1>7. /\ consumer'.next = n + 1 /\ consumer'.acks = consumer.acks \cup {n}
      /\ consumer'.adds = b /\ consumer'.tx = "ok" /\ consumer'.at = consumer.at
      /\ consumer'.last = consumer.last /\ consumer'.unflushed = linked
  BY <1>1, <1>2, <1>4 DEF Hand
<1>8. consumer' \in Hand
  BY <1>1, <1>2, <1>4, <1>6, <1>7, HandFacts DEF Hand
<1>9. PICK m : m = Len(a) + 1
  OBVIOUS
<1>10. /\ \A k \in DOMAIN a : k \in DOMAIN b /\ b[k] = a[k]
       /\ \A k \in DOMAIN b : k \in DOMAIN a \/ (k = m /\ b[k] = n)
       /\ linked => m \in DOMAIN b /\ b[m] = n
       /\ DOMAIN a \subseteq Nat /\ m \in Nat /\ \A k \in DOMAIN a : k < m
  <2>1. Len(Append(a, n)) = Len(a) + 1 /\ Append(a, n)[Len(a) + 1] = n
        /\ \A k \in 1 .. Len(a) : Append(a, n)[k] = a[k]
        /\ DOMAIN Append(a, n) = 1 .. Len(Append(a, n))
    BY <1>2, <1>5, HandFacts, AppendProperties
  <2>2. CASE linked
    BY <1>5, <1>9, <2>1, <2>2
  <2>3. CASE ~linked
    BY <1>5, <1>9, <2>3
  <2> QED BY <2>2, <2>3
<1>11. stream[n].linked => linked
  BY <1>2, HandFacts DEF ConsumerInv, LinkedInv
<1>12. n \in Nat /\ \A k \in consumer.acks : k # n
  BY <1>2, HandFacts
<1>13. Increasing(a) /\ \A i \in DOMAIN recorded, k \in DOMAIN a : recorded[i] < a[k]
  BY <1>2, HandFacts DEF ProcessingInv
<1>14. \A k \in consumer.acks : stream[k].linked /\ k \notin spoiled => \E j \in DOMAIN a : a[j] = k
  BY <1>2, HandFacts DEF ProcessingInv
<1> HIDE DEF n, a, b, linked
<1>15. Increasing(b)
  <2> SUFFICES ASSUME NEW i \in DOMAIN b, NEW j \in DOMAIN b, i < j PROVE b[i] < b[j]
    BY DEF Increasing
  <2>1. i \in DOMAIN a
    BY <1>10
  <2>2. CASE j \in DOMAIN a
    BY <1>10, <1>13, <2>1, <2>2 DEF Increasing
  <2>3. CASE j = m /\ b[j] = n
    BY <1>5, <1>10, <2>1, <2>3
  <2> QED BY <1>10, <2>2, <2>3
<1>16. ProcessingInv'
  <2>1. \A k \in DOMAIN b : b[k] < n + 1
    BY <1>5, <1>10, <1>12
  <2>2. \A i \in DOMAIN recorded : recorded[i] < n + 1
    BY <1>5, <1>12
  <2>3. \A i \in DOMAIN recorded, k \in DOMAIN b : recorded[i] < b[k]
    BY <1>5, <1>10, <1>13
  <2>4. \A k \in consumer.acks \cup {n} :
          stream[k].linked /\ k \notin spoiled => \E j \in DOMAIN b : b[j] = k
    BY <1>10, <1>11, <1>14
  <2> QED BY <1>2, <1>7, <1>15, <2>1, <2>2, <2>3, <2>4 DEF ProcessingInv, Increasing
<1>17. BatchInv'
  <2>1. n + 1 <= delivered + 1 /\ consumer.last = delivered
        /\ \A k \in consumer.acks \cup {n} : k < n + 1
    BY <1>2, HandFacts DEF n
  <2> QED BY <1>2, <1>7, <1>16, <2>1, HandFacts DEF BatchInv
<1>18. failures' \in 0 .. MaxFailures
  BY <1>2, <1>3 DEF TimelineTypeOK
<1> QED BY <1>2, <1>8, <1>17, <1>18, HandStep

\* PostgreSQL aborts the transaction: what it did so far is spoiled.
LEMMA FailStatementInv ==
  ASSUME ConsumerInv, FailStatement, UNCHANGED <<links, documents>> PROVE ConsumerInv'
<1>1. /\ InHand /\ spoiled' = spoiled \cup consumer.acks
      /\ UNCHANGED <<stream, delivered, acked, recorded>>
  BY DEF FailStatement
<1>2. PICK end \in {"aborted", "inactive"} : consumer' = [consumer EXCEPT !.next = @ + 1, !.tx = end]
  BY DEF FailStatement
<1>3. TimelineTypeOK
  BY DEF ConsumerInv
<1>4. consumer \in Hand
  BY <1>3, HandTypes
<1>5. /\ consumer'.next = consumer.next + 1 /\ consumer'.acks = consumer.acks
      /\ consumer'.adds = consumer.adds /\ consumer'.tx = end /\ consumer'.at = consumer.at
      /\ consumer'.last = consumer.last /\ consumer'.unflushed = consumer.unflushed
  BY <1>2, <1>4 DEF Hand
<1>6. consumer' \in Hand
  BY <1>1, <1>2, <1>4, HandFacts DEF Hand
<1>7. failures' \in 0 .. MaxFailures
  BY <1>3, Bounds DEF FailStatement, May, TimelineTypeOK
<1>8. TimelineTypeOK' /\ Len(stream') <= MaxStream
  <2>1. consumer.acks \subseteq 1 .. delivered
    BY <1>1, <1>3, HandTypes, HandFacts
  <2> QED BY <1>1, <1>3, <1>6, <1>7, <2>1 DEF TimelineTypeOK, Hand, ConsumerInv
<1>9. RowsFollowStream' /\ AckedIsRecorded'
  BY <1>1 DEF ConsumerInv, RowsFollowStream, AckedIsRecorded
<1>10. \A n \in DOMAIN stream' : LinkedInv(n)'
  BY <1>1 DEF ConsumerInv, LinkedInv, IsLinked
<1>11. ProcessingInv'
  <2>1. \A k \in DOMAIN consumer.adds : consumer.adds[k] < consumer.next + 1
    BY <1>1, <1>3, RowNumbers, HandFacts DEF ProcessingInv
  <2>2. \A i \in DOMAIN recorded : recorded[i] < consumer.next + 1
    BY <1>1, <1>3, RowNumbers, HandFacts DEF ProcessingInv
  <2> QED BY <1>1, <1>5, <2>1, <2>2, HandFacts DEF ProcessingInv, Increasing
<1>12. BatchInv'
  <2>1. \A n \in consumer'.acks : n < consumer'.next
    BY <1>1, <1>5, HandFacts
  <2> QED BY <1>1, <1>5, <1>11, <2>1, HandFacts DEF BatchInv
<1> QED BY <1>8, <1>9, <1>10, <1>12 DEF ConsumerInv

\* The rows of the batch follow all that are committed.
LEMMA CommitBatchInv ==
  ASSUME ConsumerInv, CommitBatch, UNCHANGED <<links, documents>> PROVE ConsumerInv'
<1> DEFINE a == consumer.adds
<1>1. /\ consumer.at = "processing" /\ consumer' = [consumer EXCEPT !.at = "committed"]
      /\ recorded' = IF consumer.tx = "ok" THEN recorded \o a ELSE recorded
      /\ UNCHANGED <<stream, delivered, acked, failures, spoiled>>
  BY DEF CommitBatch, BatchIsThrough
<1>2. TimelineTypeOK /\ BatchInv /\ ProcessingInv /\ Len(stream) <= MaxStream
  BY <1>1 DEF ConsumerInv, BatchInv
<1>3. consumer \in Hand
  BY <1>2, HandTypes
<1>4. consumer' \in Hand /\ consumer'.at = "committed"
      /\ consumer'.next = consumer.next /\ consumer'.last = consumer.last
      /\ consumer'.acks = consumer.acks
  BY <1>1, <1>3 DEF Hand
<1>5. a \in Seq(1 .. delivered)
  <2>1. \A k \in DOMAIN a : a[k] \in Nat /\ a[k] >= 1 /\ a[k] < consumer.next
    BY <1>2, RowNumbers, Bounds DEF ProcessingInv
  <2>2. \A k \in DOMAIN a : a[k] \in 1 .. delivered
    BY <1>2, <2>1, HandTypes DEF BatchInv
  <2>3. a \in [1 .. Len(a) -> 1 .. MaxStream]
    BY <1>2, HandTypes, LenProperties
  <2>4. a \in [1 .. Len(a) -> 1 .. delivered]
    BY <2>2, <2>3
  <2>5. \A S, n : n \in Nat => [1 .. n -> S] \subseteq Seq(S)
    OBVIOUS
  <2>6. Len(a) \in Nat
    BY <1>2, RowNumbers
  <2> HIDE DEF a
  <2> QED BY <2>4, <2>5, <2>6
<1>6. /\ Increasing(a) /\ Increasing(recorded)
      /\ \A i \in DOMAIN recorded, k \in DOMAIN a : recorded[i] < a[k]
      /\ \A n \in consumer.acks :
           stream[n].linked /\ n \notin spoiled => consumer.tx = "ok" /\ \E k \in DOMAIN a : a[k] = n
  BY <1>2 DEF ProcessingInv, ConsumerInv, RowsFollowStream, Increasing
<1>7. recorded \in Seq(1 .. delivered)
  BY <1>2, HandTypes
<1> HIDE DEF a
<1>8. /\ recorded' \in Seq(1 .. delivered) /\ Increasing(recorded)'
      /\ \A n : (\E i \in DOMAIN recorded : recorded[i] = n) => \E i \in DOMAIN recorded' : recorded'[i] = n
      /\ consumer.tx = "ok" =>
           \A n : (\E k \in DOMAIN a : a[k] = n) => \E i \in DOMAIN recorded' : recorded'[i] = n
  <2>1. CASE consumer.tx # "ok"
    BY <1>1, <1>6, <1>7, <2>1 DEF Increasing
  <2>2. CASE consumer.tx = "ok"
    <3>1. recorded' = recorded \o a
      BY <1>1, <2>2
    <3>2. /\ recorded \o a \in Seq(1 .. delivered) /\ Increasing(recorded \o a)
          /\ \A i \in DOMAIN recorded : \E j \in DOMAIN (recorded \o a) : (recorded \o a)[j] = recorded[i]
          /\ \A k \in DOMAIN a : \E j \in DOMAIN (recorded \o a) : (recorded \o a)[j] = a[k]
      <4>1. delivered \in Nat
        BY <1>2, HandTypes
      <4> QED BY <4>1, <1>5, <1>6, <1>7, Joined
    <3> QED BY <3>1, <3>2 DEF Increasing
  <2> QED BY <2>1, <2>2
<1>9. TimelineTypeOK' /\ Len(stream') <= MaxStream
  BY <1>1, <1>2, <1>4, <1>8 DEF TimelineTypeOK, Hand
<1>10. RowsFollowStream'
  BY <1>8 DEF RowsFollowStream, Increasing
<1>11. AckedIsRecorded'
  BY <1>1, <1>8 DEF ConsumerInv, AckedIsRecorded
<1>12. \A n \in DOMAIN stream' : LinkedInv(n)'
  BY <1>1 DEF ConsumerInv, LinkedInv, IsLinked
<1>13. CommittedInv'
  BY <1>1, <1>4, <1>6, <1>8 DEF CommittedInv
<1>14. BatchInv'
  BY <1>1, <1>2, <1>4, <1>13 DEF BatchInv
<1> QED BY <1>9, <1>10, <1>11, <1>12, <1>14 DEF ConsumerInv

-----------------------------------------------------------------------------
LEMMA TimelineStepInv ==
  ASSUME FileInv, ConsumerInv,
         [(FileNext /\ UNCHANGED timelineVars) \/ (TimelineStep /\ UNCHANGED fileVars)]_<<fileVars, timelineVars>>
  PROVE  FileInv' /\ ConsumerInv'
<1>1. FileInv'
  BY FileStepInv
<1> SUFFICES ConsumerInv'
  BY <1>1
<1>2. CASE FileNext /\ UNCHANGED timelineVars
  BY <1>2, LinksStay, HandlerConsumer
<1>3. CASE UNCHANGED fileVars /\ UNCHANGED timelineVars
  BY <1>3, HandlerConsumer DEF fileVars, rows
<1>4. CASE TimelineStep /\ UNCHANGED fileVars
  <2>1. UNCHANGED <<links, documents>>
    BY <1>4 DEF fileVars, rows
  <2>2. FileTypeOK
    BY DEF FileInv
  <2>3. CASE Emit \/ Read \/ Skip \/ Process \/ ProcessInVain
    BY <2>1, <2>2, <2>3, EmitInv, ReadInv, SkipInv, ProcessInv, ProcessInVainInv
  <2>4. CASE FailStatement \/ CommitBatch \/ Ack
    BY <2>1, <2>4, FailStatementInv, CommitBatchInv, AckInv
  <2>5. CASE NothingToCommit \/ RefuseCommit \/ CommitFails \/ Crash
    BY <2>1, <2>5, DropInv
  <2> QED BY <1>4, <2>3, <2>4, <2>5 DEF TimelineStep, ConsumerStep
<1> QED BY <1>2, <1>3, <1>4

\* The two invariants hold of the handlers and the consumer together: no lock
\* keeps the one from committing between the other's lookups.
\* (timeline.py:63-96)
THEOREM TimelineInvariant == TimelineSpec => [](FileInv /\ ConsumerInv)
<1>1. FileInit /\ TimelineInit => FileInv /\ ConsumerInv
  BY InitFile, InitConsumer
<1> QED BY <1>1, TimelineStepInv, PTL DEF TimelineSpec

\* The state of the file and of the consumer stays well formed.
THEOREM TimelineTypes == TimelineSpec => [](FileTypeOK /\ TimelineTypeOK)
<1>1. FileInv /\ ConsumerInv => FileTypeOK /\ TimelineTypeOK
  BY DEF FileInv, ConsumerInv
<1> QED BY <1>1, TimelineInvariant, PTL

\* The rows of a timeline follow the stream with no event twice, and an
\* acknowledged event of something linked has its row unless a later statement
\* of its batch failed, wherever commits fail and the process ends and for any
\* number of entries, batches and failures.  (timeline.py:63-96)
THEOREM EventsOnce == TimelineSpec => []EachEventOnce
<1>1. ConsumerInv => EachEventOnce
  BY DEF ConsumerInv, EachEventOnce
<1> QED BY <1>1, TimelineInvariant, PTL

-----------------------------------------------------------------------------
(* The parts in one specification.                                         *)

\* Together the parts do nothing that one of them alone could not do, so that
\* what is proved of each holds of all.  (cases.py, timeline.py)
THEOREM ServiceImplements == ServiceSpec => Spec /\ FileSpec /\ TimelineSpec
<1>1. ServiceInit => Init /\ FileInit /\ TimelineInit
  BY DEF ServiceInit
<1>2. ASSUME NEW r \in Linkers, LinkStep(r) PROVE FileNext
  BY <1>2, LinkersAssumption DEF LinkStep, FileNext, FileStep
<1>3. [ServiceNext]_serviceVars
        => /\ [Next]_vars /\ [FileNext]_fileVars
           /\ [(FileNext /\ UNCHANGED timelineVars) \/ (TimelineStep /\ UNCHANGED fileVars)]_<<fileVars, timelineVars>>
  BY <1>2 DEF ServiceNext, serviceVars
<1> QED BY <1>1, <1>3, PTL DEF ServiceSpec, Spec, FileSpec, TimelineSpec

\* Every part is well typed.
THEOREM ServiceTypes == ServiceSpec => []ServiceTypeOK
BY ServiceImplements, CaseTypes, TimelineTypes, PTL DEF ServiceTypeOK
=============================================================================
