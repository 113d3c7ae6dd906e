------------------------------ MODULE CaseFile ------------------------------
(***************************************************************************)
(* One case of case-service after its creation: its status, participants,  *)
(* notes and links, the handlers that change them, and the timeline that   *)
(* records every change.  A handler reads the case and checks that the     *)
(* caller may write (..Check), and commits later (..Commit): other         *)
(* requests commit in between.  start_workflow has a third step between    *)
(* the two, the call of workflow-service, which no rollback undoes.        *)
(*                                                                         *)
(* Title, priority, metadata and the text of notes are left out: they are  *)
(* written without being read.                                             *)
(***************************************************************************)
EXTENDS Integers, Sequences

CONSTANTS
  Requests,    \* the requests, each of one operation
  Users,
  UserOf,      \* UserOf[r]: who sends r
  Creator,     \* who created the case: its first participant
  Colleague,   \* whom the creator has added since
  Admins,      \* the users with gxp-admin
  Statuses,    \* the statuses that updates set, out of the valid ones
  NewRoles,    \* the roles that participants are added with, out of the valid ones
  Documents,   \* documents that may be linked
  Instances,   \* workflow instances that were started outside of any case
  TokenIsIssued, \* whether start_workflow gets past its call of ServiceTokenManager:
                 \* FALSE as long as it leaves out the argument that this needs
  Nobody, NoRow

Editors == {"owner", "collaborator"}
Roles == Editors \cup {"observer", "subject"}

ASSUME UserAssumption ==
  /\ UserOf \in [Requests -> Users] /\ Admins \subseteq Users
  /\ Creator \in Users /\ Colleague \in Users \ {Creator}
  /\ Nobody \notin Requests \cup Users \cup Documents \cup Instances
ASSUME TokenAssumption == TokenIsIssued \in BOOLEAN
ASSUME ValueAssumption ==
  /\ Statuses \subseteq {"open", "pending", "on_hold", "closed", "archived"}
  /\ NewRoles \subseteq Roles
  /\ NoRow \notin [id : Requests \cup {Nobody}, role : Roles]

VARIABLES
  status,        \* cases.status
  closedAt,      \* the request that wrote cases.closed_at
  participants,  \* participants[u]: the row of u, named by the request that inserted it
  notes,         \* the rows of case_notes
  links,         \* the linked workflow instances
  documents,     \* the linked documents
  timeline,      \* case_timeline_events in the order of their commits
  instances,     \* the requests whose instance exists in workflow-service
  req,           \* req[r]: how far request r is, and what it has read
  failed         \* history: the requests that ended with an error after their check

rows == <<status, closedAt, participants, notes, links, documents, timeline>>
fileVars == <<rows, instances, req, failed>>

\* An instance that start_workflow created carries the name of its request.
Linkable == Instances \cup instances

Events == {"case_created", "status_change", "participant_added", "participant_removed",
           "note_added", "workflow_linked", "workflow_started", "document_linked"}
Row == [id : Requests \cup {Nobody}, role : Roles]
Subject == Users \cup Requests \cup Documents \cup Instances \cup {Nobody}
Values == Statuses \cup Roles \cup {"", "open"}
Entry == [id : Requests \cup {Nobody}, event : Events, actor : Users,
          about : Subject, from : Values, to : Values]

NewEntry(r, event, about, from, to) ==
  [id |-> r, event |-> event, actor |-> UserOf[r], about |-> about, from |-> from, to |-> to]

Ops == {"none", "update", "add", "remove", "add_note", "update_note", "link", "link_document", "start"}
Idle == [at |-> "idle", op |-> "none", about |-> Nobody, to |-> "", status |-> "", closedAt |-> Nobody, row |-> NoRow]
Done == [Idle EXCEPT !.at = "done"]

FileInit ==
  /\ status = "open" /\ closedAt = Nobody
  /\ participants = [u \in Users |-> CASE u = Creator -> [id |-> Nobody, role |-> "owner"]
                                      [] u = Colleague -> [id |-> Nobody, role |-> "collaborator"]
                                      [] OTHER -> NoRow]
  /\ notes = {} /\ links = {} /\ documents = {}
  /\ timeline = <<[id |-> Nobody, event |-> "case_created", actor |-> Creator,
                   about |-> Creator, from |-> "", to |-> "owner"],
                  [id |-> Nobody, event |-> "participant_added", actor |-> Creator,
                   about |-> Colleague, from |-> "", to |-> "collaborator"]>>
  /\ instances = {}
  /\ req = [r \in Requests |-> Idle]
  /\ failed = {}

-----------------------------------------------------------------------------
(* The checks.                                                             *)

\* Faulty variant: being a participant is enough.
CanWriteAnyRole(u) == u \in Admins \/ participants[u] # NoRow

\* assert_can_write
CanWrite(u) == u \in Admins \/ (participants[u] # NoRow /\ participants[u].role \in Editors)

\* get_case_or_404, assert_can_write and what the handler has read by then.
Check(r, op, about, to, row) ==
  /\ req[r].at = "idle"
  /\ CanWrite(UserOf[r])
  /\ req' = [req EXCEPT ![r] = [at |-> "checked", op |-> op, about |-> about, to |-> to,
                                status |-> status, closedAt |-> closedAt, row |-> row]]
  /\ UNCHANGED <<rows, instances, failed>>

UpdateCheck(r) == \E s \in Statuses : Check(r, "update", Nobody, s, NoRow)

AddParticipantCheck(r) == \E u \in Users, role \in NewRoles : Check(r, "add", u, role, NoRow)

\* The row to delete is read with the check.
RemoveParticipantCheck(r) ==
  \E u \in Users : participants[u] # NoRow /\ Check(r, "remove", u, "", participants[u])

AddNoteCheck(r) == Check(r, "add_note", Nobody, "", NoRow)

\* One edits one's own notes, an admin all of them.
UpdateNoteCheck(r) ==
  \E n \in notes :
    /\ n.by = UserOf[r] \/ UserOf[r] \in Admins
    /\ Check(r, "update_note", n.id, "", NoRow)

LinkWorkflowCheck(r) == \E i \in Linkable : Check(r, "link", i, "", NoRow)
LinkDocumentCheck(r) == \E d \in Documents : Check(r, "link_document", d, "", NoRow)
StartWorkflowCheck(r) == Check(r, "start", r, "", NoRow)

-----------------------------------------------------------------------------
(* The commits.                                                            *)

Commits(r, op) == req[r].at = "checked" /\ req[r].op = op
Ends(r) == req' = [req EXCEPT ![r] = Done] /\ UNCHANGED failed
Report(e) == timeline' = Append(timeline, e)

\* Faulty variant: the new status is compared with the one just assigned, and
\* the change goes unreported.
UpdateCommitComparingLate(r) ==
  /\ Commits(r, "update")
  /\ Ends(r)
  /\ status' = req[r].to
  /\ closedAt' = IF req[r].to = "closed" /\ req[r].closedAt = Nobody THEN r ELSE closedAt
  /\ UNCHANGED <<participants, notes, links, documents, timeline, instances>>

\* The ORM writes the attributes that differ from what was loaded: a status
\* that was loaded with the new value is not written, nor is closed_at when it
\* was set.
UpdateCommit(r) ==
  /\ Commits(r, "update")
  /\ Ends(r)
  /\ \/ /\ req[r].to = req[r].status
        /\ UNCHANGED <<status, closedAt, timeline>>
     \/ /\ req[r].to # req[r].status
        /\ status' = req[r].to
        /\ closedAt' = IF req[r].to = "closed" /\ req[r].closedAt = Nobody THEN r ELSE closedAt
        /\ Report(NewEntry(r, "status_change", Nobody, req[r].status, req[r].to))
  /\ UNCHANGED <<participants, notes, links, documents, instances>>

\* Faulty variant: an upsert that writes no entry.
AddParticipantCommitSilently(r) ==
  /\ Commits(r, "add")
  /\ Ends(r)
  /\ participants' = [participants EXCEPT ![req[r].about] = [id |-> r, role |-> req[r].to]]
  /\ UNCHANGED <<status, closedAt, notes, links, documents, timeline, instances>>

\* uq_case_participant: a second row for the user fails (Fail).
AddParticipantCommit(r) ==
  /\ Commits(r, "add")
  /\ participants[req[r].about] = NoRow
  /\ Ends(r)
  /\ participants' = [participants EXCEPT ![req[r].about] = [id |-> r, role |-> req[r].to]]
  /\ Report(NewEntry(r, "participant_added", req[r].about, "", req[r].to))
  /\ UNCHANGED <<status, closedAt, notes, links, documents, instances>>

\* DELETE by the id that was read; a row that is gone only causes a warning.
RemoveParticipantCommit(r) ==
  /\ Commits(r, "remove")
  /\ Ends(r)
  /\ participants' = [u \in Users |-> IF u = req[r].about /\ participants[u] = req[r].row
                                      THEN NoRow ELSE participants[u]]
  /\ Report(NewEntry(r, "participant_removed", req[r].about, "", ""))
  /\ UNCHANGED <<status, closedAt, notes, links, documents, instances>>

AddNoteCommit(r) ==
  /\ Commits(r, "add_note")
  /\ Ends(r)
  /\ notes' = notes \cup {[id |-> r, by |-> UserOf[r], internal |-> TRUE]}
  /\ Report(NewEntry(r, "note_added", Nobody, "", ""))
  /\ UNCHANGED <<status, closedAt, participants, links, documents, instances>>

\* No entry is written for a change of a note.
UpdateNoteCommit(r) ==
  /\ Commits(r, "update_note")
  /\ Ends(r)
  /\ notes' = {IF n.id = req[r].about THEN [n EXCEPT !.internal = FALSE] ELSE n : n \in notes}
  /\ UNCHANGED <<status, closedAt, participants, links, documents, timeline, instances>>

\* uq_case_workflow_link
LinkCommit(r, event) ==
  /\ req[r].about \notin links
  /\ Ends(r)
  /\ links' = links \cup {req[r].about}
  /\ Report(NewEntry(r, event, req[r].about, "", ""))
  /\ UNCHANGED <<status, closedAt, participants, notes, documents, instances>>

LinkWorkflowCommit(r) == Commits(r, "link") /\ LinkCommit(r, "workflow_linked")

\* uq_case_document_link
LinkDocumentCommit(r) ==
  /\ Commits(r, "link_document")
  /\ req[r].about \notin documents
  /\ Ends(r)
  /\ documents' = documents \cup {req[r].about}
  /\ Report(NewEntry(r, "document_linked", req[r].about, "", ""))
  /\ UNCHANGED <<status, closedAt, participants, notes, links, instances>>

\* POST /workflow/instances: from now on the instance exists and runs.
StartWorkflowPost(r) ==
  /\ Commits(r, "start") /\ TokenIsIssued
  /\ instances' = instances \cup {r}
  /\ req' = [req EXCEPT ![r].at = "posted"]
  /\ UNCHANGED <<rows, failed>>

\* Faulty variant: the status of the answer is not looked at, and an error
\* carries no id to link.
StartWorkflowCommitBlindly(r) ==
  /\ req[r].at = "posted"
  /\ Ends(r)
  /\ links' = links \cup {Nobody}
  /\ Report(NewEntry(r, "workflow_started", Nobody, "", ""))
  /\ UNCHANGED <<status, closedAt, participants, notes, documents, instances>>

\* Faulty variant: the entry is committed without the link.
StartWorkflowCommitUnlinked(r) ==
  /\ req[r].at = "posted"
  /\ Ends(r)
  /\ Report(NewEntry(r, "workflow_started", r, "", ""))
  /\ UNCHANGED <<status, closedAt, participants, notes, links, documents, instances>>

StartWorkflowCommit(r) == req[r].at = "posted" /\ LinkCommit(r, "workflow_started")

\* The answer of workflow-service does not arrive within ten seconds, but the
\* instance was created.
StartWorkflowTimeout(r) ==
  /\ Commits(r, "start") /\ TokenIsIssued
  /\ instances' = instances \cup {r}
  /\ req' = [req EXCEPT ![r] = Done] /\ failed' = failed \cup {r}
  /\ UNCHANGED rows

\* A call or the commit fails (also on a constraint), or the process ends: the
\* transaction is rolled back.
Fail(r) ==
  /\ req[r].at \in {"checked", "posted"}
  /\ req' = [req EXCEPT ![r] = Done] /\ failed' = failed \cup {r}
  /\ UNCHANGED <<rows, instances>>

FileStep(r) ==
  \/ UpdateCheck(r) \/ UpdateCommit(r)
  \/ AddParticipantCheck(r) \/ AddParticipantCommit(r)
  \/ RemoveParticipantCheck(r) \/ RemoveParticipantCommit(r)
  \/ AddNoteCheck(r) \/ AddNoteCommit(r) \/ UpdateNoteCheck(r) \/ UpdateNoteCommit(r)
  \/ LinkWorkflowCheck(r) \/ LinkWorkflowCommit(r)
  \/ LinkDocumentCheck(r) \/ LinkDocumentCommit(r)
  \/ StartWorkflowCheck(r) \/ StartWorkflowPost(r) \/ StartWorkflowCommit(r) \/ StartWorkflowTimeout(r)
  \/ Fail(r)

FileNext == \E r \in Requests : FileStep(r)

-----------------------------------------------------------------------------
Entries(events) == {i \in DOMAIN timeline : timeline[i].event \in events}
LastOf(S) == CHOOSE i \in S : \A j \in S : j <= i

FileTypeOK ==
  /\ status \in Statuses \cup {"open"} /\ closedAt \in Requests \cup {Nobody}
  /\ participants \in [Users -> Row \cup {NoRow}]
  /\ notes \subseteq [id : Requests, by : Users, internal : BOOLEAN]
  /\ links \subseteq Instances \cup Requests /\ documents \subseteq Documents
  /\ timeline \in Seq(Entry)
  /\ instances \subseteq Requests /\ failed \subseteq Requests
  /\ req \in [Requests -> [at : {"idle", "checked", "posted", "done"}, op : Ops,
                           about : Subject, to : Values, status : Values,
                           closedAt : Requests \cup {Nobody}, row : Row \cup {NoRow}]]

\* The status is the one that the last entry about it reports, also when
\* updates that read the same status overwrite each other, and closed_at was
\* set with one of the entries that closed the case.  (cases.py:298-314)
StatusFollowsTimeline ==
  LET changes == Entries({"status_change"})
      closings == {timeline[i].id : i \in {j \in changes : timeline[j].to = "closed"}}
  IN /\ status = IF changes = {} THEN "open" ELSE timeline[LastOf(changes)].to
     /\ closedAt \in closings \cup {Nobody}
     /\ closedAt = Nobody => closings = {}

\* A participant's row is the one that the last entry about its addition
\* reports; a user without a row was never added, or an entry reports a
\* removal since.  Removals that cross with others may be reported twice, but
\* none takes away a row that it has not read.  (cases.py:346-382)
ParticipantsFollowTimeline ==
  \A u \in Users :
    LET added == {i \in Entries({"case_created", "participant_added"}) : timeline[i].about = u}
        removed == {i \in Entries({"participant_removed"}) : timeline[i].about = u}
    IN IF participants[u] = NoRow
       THEN \A i \in added : \E j \in removed : i < j
       ELSE /\ added # {}
            /\ participants[u] = [id |-> timeline[LastOf(added)].id, role |-> timeline[LastOf(added)].to]

\* Notes, documents and instances are on the case if and only if the timeline
\* reports them, and an instance that start_workflow created is linked unless
\* its request failed or still runs: only a failure leaves an instance behind
\* that no case shows.  (cases.py:487-524)
LinksFollowTimeline ==
  /\ links = {timeline[i].about : i \in Entries({"workflow_linked", "workflow_started"})}
  /\ documents = {timeline[i].about : i \in Entries({"document_linked"})}
  /\ {n.id : n \in notes} = {timeline[i].id : i \in Entries({"note_added"})}
  /\ \A r \in instances \ links : r \in failed \/ req[r].at = "posted"

\* Whoever an entry names as its actor had been allowed to write: an admin, or
\* somebody whom an earlier entry made an owner or a collaborator.  Their right
\* may have been taken away again between the check and the commit.
\* (permissions.py:47-57)
ActorsWereEditors ==
  \A i \in DOMAIN timeline :
    \/ timeline[i].actor \in Admins
    \/ timeline[i].event = "case_created"
    \/ \E j \in Entries({"case_created", "participant_added"}) :
         j < i /\ timeline[j].about = timeline[i].actor /\ timeline[j].to \in Editors

\* The timeline accounts for the case: what the case shows, and who was allowed
\* to make it so, is what the entries say in the order of their commits.
\* (models/case.py:154-155)
CaseFollowsTimeline ==
  /\ StatusFollowsTimeline
  /\ ParticipantsFollowTimeline
  /\ LinksFollowTimeline
  /\ ActorsWereEditors

FileSpec == FileInit /\ [][FileNext]_fileVars
=============================================================================
