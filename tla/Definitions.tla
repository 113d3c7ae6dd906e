----------------------------- MODULE Definitions -----------------------------
(***************************************************************************)
(* One row of workflow_definitions: uploaded, updated and retired by       *)
(* developers while users start instances of it.  Handlers read the row    *)
(* and commit later; the ORM then writes the columns that have changed.    *)
(* An instance keeps the engine state built from the content that was read *)
(* and the version read with it, and the workers never look at the content *)
(* again (their SELECT joins the definition and leaves it unused).         *)
(*                                                                         *)
(* BPMN and DMN definitions share table and handlers; only BPMN is started.*)
(* Whether a content is valid is the parser's business; what is refused    *)
(* changes nothing.                                                        *)
(***************************************************************************)
EXTENDS Naturals, Sequences

CONSTANTS
  Editings,     \* the requests; a content carries the name of its request
  NoDefinition  \* what has been read before anything is

ASSUME EditingAssumption == NoDefinition \notin [type : {"bpmn", "dmn"},
  content : Editings, version : Nat, active : BOOLEAN]

VARIABLES
  definition,  \* the row, NoDefinition before the upload
  editing,     \* editing[r]: how far request r is, and the row it has read
  written,     \* history: the contents committed, with their versions, in order
  overtaken,   \* history: the updates that committed over a row they had not read
  pinned       \* the instances: what they were started from

definitionVars == <<definition, editing, written, overtaken, pinned>>

NoEditing == [at |-> "idle", op |-> "none", read |-> NoDefinition]

DefinitionInit ==
  /\ definition = NoDefinition
  /\ editing = [r \in Editings |-> NoEditing]
  /\ written = <<>> /\ overtaken = {} /\ pinned = {}

-----------------------------------------------------------------------------
Reads(r, op) ==
  /\ editing[r].at = "idle"
  /\ definition # NoDefinition
  /\ editing' = [editing EXCEPT ![r] = [at |-> "read", op |-> op, read |-> definition]]
  /\ UNCHANGED <<definition, written, overtaken, pinned>>

Holds(r, op) == editing[r].at = "read" /\ editing[r].op = op
Ends(r) == editing' = [editing EXCEPT ![r].at = "done"]

\* create_definition, create_dmn_definition
CreateDefinition(r) ==
  /\ editing[r].at = "idle" /\ definition = NoDefinition
  /\ \E type \in {"bpmn", "dmn"} :
       definition' = [type |-> type, content |-> r, version |-> 1, active |-> TRUE]
  /\ written' = <<[content |-> r, version |-> 1]>>
  /\ Ends(r)
  /\ UNCHANGED <<overtaken, pinned>>

UpdateRead(r) == Reads(r, "update") /\ definition.active

\* Faulty variant: every column is written as it was read.
UpdateCommitAll(r) ==
  /\ Holds(r, "update")
  /\ definition' = [editing[r].read EXCEPT !.content = r, !.version = @ + 1]
  /\ written' = Append(written, [content |-> r, version |-> editing[r].read.version + 1])
  /\ overtaken' = IF editing[r].read.content # definition.content THEN overtaken \cup {r} ELSE overtaken
  /\ Ends(r)
  /\ UNCHANGED pinned

\* Faulty variant: the version counts releases and not uploads.
UpdateCommitSame(r) ==
  /\ Holds(r, "update")
  /\ definition' = [definition EXCEPT !.content = r]
  /\ written' = Append(written, [content |-> r, version |-> editing[r].read.version])
  /\ overtaken' = IF editing[r].read.content # definition.content THEN overtaken \cup {r} ELSE overtaken
  /\ Ends(r)
  /\ UNCHANGED pinned

\* A content and the successor of the version that was read.
UpdateCommit(r) ==
  /\ Holds(r, "update")
  /\ definition' = [definition EXCEPT !.content = r, !.version = editing[r].read.version + 1]
  /\ written' = Append(written, [content |-> r, version |-> editing[r].read.version + 1])
  /\ overtaken' = IF editing[r].read.content # definition.content THEN overtaken \cup {r} ELSE overtaken
  /\ Ends(r)
  /\ UNCHANGED pinned

DeleteRead(r) == Reads(r, "delete")

DeleteCommit(r) ==
  /\ Holds(r, "delete")
  /\ definition' = [definition EXCEPT !.active = FALSE]
  /\ Ends(r)
  /\ UNCHANGED <<written, overtaken, pinned>>

\* start_instance: the engine state is built from the row that was read.
StartRead(r) == Reads(r, "start") /\ definition.type = "bpmn" /\ definition.active

\* Faulty variant: the version is that of the row at the commit.
StartCommitLate(r) ==
  /\ Holds(r, "start")
  /\ pinned' = pinned \cup {[by |-> r, content |-> editing[r].read.content, version |-> definition.version]}
  /\ Ends(r)
  /\ UNCHANGED <<definition, written, overtaken>>

StartCommit(r) ==
  /\ Holds(r, "start")
  /\ pinned' = pinned \cup {[by |-> r, content |-> editing[r].read.content, version |-> editing[r].read.version]}
  /\ Ends(r)
  /\ UNCHANGED <<definition, written, overtaken>>

\* The content is invalid, a call fails, or the process ends.
EditingFails(r) ==
  /\ editing[r].at = "read"
  /\ editing' = [editing EXCEPT ![r] = [@ EXCEPT !.at = "done", !.op = "none"]]
  /\ UNCHANGED <<definition, written, overtaken, pinned>>

DefinitionStep(r) ==
  \/ CreateDefinition(r) \/ UpdateRead(r) \/ UpdateCommit(r)
  \/ DeleteRead(r) \/ DeleteCommit(r) \/ StartRead(r) \/ StartCommit(r) \/ EditingFails(r)

DefinitionNext == \E r \in Editings : DefinitionStep(r)
DefinitionSpec == DefinitionInit /\ [][DefinitionNext]_definitionVars

-----------------------------------------------------------------------------
Definition == [type : {"bpmn", "dmn"}, content : Editings, version : Nat, active : BOOLEAN]

DefinitionTypeOK ==
  /\ definition \in Definition \cup {NoDefinition}
  /\ editing \in [Editings -> [at : {"idle", "read", "done"},
       op : {"none", "update", "delete", "start"}, read : Definition \cup {NoDefinition}]]
  /\ written \in Seq([content : Editings, version : Nat])
  /\ overtaken \subseteq Editings
  /\ pinned \subseteq [by : Editings, content : Editings, version : Nat]

\* An instance names the version that its content was uploaded as, and a
\* version names one content, unless an update had read a row that others
\* changed before its commit.  Retiring holds however updates cross with it.
\* (definitions.py:131-167, instances.py:84-107)
VersionsNameContents ==
  /\ \A p \in pinned : \E i \in DOMAIN written :
       written[i] = [content |-> p.content, version |-> p.version]
  /\ \A i, j \in DOMAIN written :
       i < j /\ written[j].version <= written[i].version
         => \E k \in i + 1 .. j : written[k].content \in overtaken
  /\ definition # NoDefinition =>
       /\ [content |-> definition.content, version |-> definition.version] = written[Len(written)]
       /\ (\E r \in Editings : editing[r].at = "done" /\ editing[r].op = "delete") => ~definition.active
=============================================================================
