---------------------------- MODULE FolderAccess ----------------------------
(***************************************************************************)
(* Folders, documents and their permissions in document-service.  What a   *)
(* folder's permissions give is inherited along the chain of parent_id;    *)
(* permissions on a document take the place of what it inherits.  Handlers *)
(* check (..Check) and commit later (..Commit); there is no handler that   *)
(* moves a folder or takes a permission back.                              *)
(*                                                                         *)
(* Versions and their scan are in DocumentScan.                            *)
(***************************************************************************)
EXTENDS Integers, Sequences

CONSTANTS
  FolderRequests, \* the requests; what one of them creates carries its name
  FolderUsers, SenderOf,  \* SenderOf[r]: who sends r
  PrincipalsOf,   \* PrincipalsOf[u]: the user and the user's roles
  FolderAdmins,
  Grantable,      \* the sets of rights that are granted
  Top, TopGrantee, \* a root folder that exists, and the principal with all rights on it
  Root            \* parent_id and folder_id NULL

Rights == {"read", "write", "delete"}
Names == FolderRequests \cup {Top}
Principals == UNION {PrincipalsOf[u] : u \in FolderUsers}

ASSUME FolderAssumption ==
  /\ SenderOf \in [FolderRequests -> FolderUsers] /\ FolderAdmins \subseteq FolderUsers
  /\ Grantable \subseteq SUBSET Rights /\ TopGrantee \in Principals
  /\ Top \notin FolderRequests /\ Root \notin Names

VARIABLES
  kind,    \* kind[x]: whether x is the id of a folder, of a document, or of none
  parent,  \* parent[x]: folders.parent_id or documents.folder_id
  path,    \* path[x]: folders.path, or the path of a document's folder at the upload
  perms,   \* the rows of document_permissions in the order of their commits
  call,    \* call[r]: how far request r is and what it asks for
  crossed  \* history: what was inserted into a folder whose deletion had been checked

folderVars == <<kind, parent, path, perms, call, crossed>>

NoCall == [at |-> "idle", op |-> "none", on |-> Root, to |-> TopGrantee, may |-> {}]

FolderInit ==
  /\ kind = [x \in Names |-> IF x = Top THEN "folder" ELSE "none"]
  /\ parent = [x \in Names |-> Root]
  /\ path = [x \in Names |-> IF x = Top THEN <<Top>> ELSE <<>>]
  /\ perms = <<[on |-> Top, to |-> TopGrantee, may |-> Rights, by |-> Root]>>
  /\ call = [r \in FolderRequests |-> NoCall]
  /\ crossed = {}

-----------------------------------------------------------------------------
(* The rights.                                                             *)

Exists(x) == kind[x] \in {"folder", "document"}

\* The recursive query: x, its parent, the parent of that one, ...: the least
\* set with x that no parent_id of a row leads out of.
IsClosed(S) == \A x \in S : kind[x] = "gone" \/ parent[x] \in S \cup {Root}
Chain(x) == {y \in Names : \A S \in SUBSET Names : x \in S /\ IsClosed(S) => y \in S}
Ancestors(x) == {y \in Chain(x) : kind[y] = "folder"}

RowsFor(u, S) == {i \in DOMAIN perms : perms[i].on \in S /\ perms[i].to \in PrincipalsOf[u]}
GivenBy(I) == UNION {perms[i].may : i \in I}

\* Faulty variant: the nearest folder with permissions decides.
NearestFolderRights(u, S) ==
  LET withRows == {x \in S : RowsFor(u, {x}) # {}}
      nearest == {x \in withRows : \A y \in withRows : Len(path[y]) <= Len(path[x])}
  IN GivenBy(RowsFor(u, nearest))

FolderRights(u, S) == GivenBy(RowsFor(u, S))

\* get_effective_permissions
Effective(u, x) ==
  LET own == GivenBy(RowsFor(u, {x}))
  IN IF kind[x] = "document" /\ own # {} THEN own ELSE FolderRights(u, Ancestors(x))

\* check_permission
Allowed(r, right, x) == SenderOf[r] \in FolderAdmins \/ right \in Effective(SenderOf[r], x)

-----------------------------------------------------------------------------
(* The handlers.                                                           *)

Ask(r, op, on, to, may) ==
  /\ call[r].at = "idle"
  /\ call' = [call EXCEPT ![r] = [at |-> "checked", op |-> op, on |-> on, to |-> to, may |-> may]]
  /\ UNCHANGED <<kind, parent, path, perms, crossed>>

\* At the root anybody may create folders.
CreateCheck(r) ==
  \E p \in Names \cup {Root} :
    /\ p # Root => kind[p] = "folder" /\ Allowed(r, "write", p)
    /\ Ask(r, "create", p, TopGrantee, {})

\* An upload checks the folder, if one is given; it does not ask whether it
\* exists.
UploadCheck(r) ==
  \E p \in {x \in Names : kind[x] # "document" /\ x # r} \cup {Root} :
    /\ p # Root => Allowed(r, "write", p)
    /\ Ask(r, "upload", p, TopGrantee, {})

\* Faulty variant: subfolders are not looked for.
DeleteFolderCheckAny(r) ==
  \E f \in Names :
    /\ kind[f] = "folder" /\ Allowed(r, "delete", f)
    /\ Ask(r, "delete", f, TopGrantee, {})

DeleteFolderCheck(r) ==
  \E f \in Names :
    /\ kind[f] = "folder" /\ Allowed(r, "delete", f)
    /\ ~ \E x \in Names : kind[x] = "folder" /\ parent[x] = f
    /\ Ask(r, "delete", f, TopGrantee, {})

DeleteDocumentCheck(r) ==
  \E d \in Names :
    /\ kind[d] = "document" /\ Allowed(r, "delete", d)
    /\ Ask(r, "delete_document", d, TopGrantee, {})

\* Faulty variant: who may read may share.
GrantCheckRead(r) ==
  \E x \in Names, to \in Principals, may \in Grantable :
    /\ Exists(x) /\ Allowed(r, "read", x)
    /\ Ask(r, "grant", x, to, may)

GrantCheck(r) ==
  \E x \in Names, to \in Principals, may \in Grantable :
    /\ Exists(x) /\ Allowed(r, "write", x)
    /\ Ask(r, "grant", x, to, may)

-----------------------------------------------------------------------------
Due(r, op) == call[r].at = "checked" /\ call[r].op = op
Finish(r) == call' = [call EXCEPT ![r] = [NoCall EXCEPT !.at = "done"]]
BeingDeleted(f) == \E r \in FolderRequests : Due(r, "delete") /\ call[r].on = f

\* The foreign key refuses a folder that is gone (FolderCallFails).
Insert(r, what) ==
  LET p == call[r].on
  IN /\ p # Root => kind[p] = "folder"
     /\ kind' = [kind EXCEPT ![r] = what]
     /\ parent' = [parent EXCEPT ![r] = p]
     /\ path' = [path EXCEPT ![r] = (IF p = Root THEN <<>> ELSE path[p])
                                      \o IF what = "folder" THEN <<r>> ELSE <<>>]
     /\ crossed' = IF BeingDeleted(p) THEN crossed \cup {r} ELSE crossed
     /\ Finish(r)
     /\ UNCHANGED perms

CreateCommit(r) == Due(r, "create") /\ Insert(r, "folder")
UploadCommit(r) == Due(r, "upload") /\ Insert(r, "document")

\* Faulty variant: the rows below the folder are left as they are.
DeleteFolderCommitOnly(r) ==
  /\ Due(r, "delete")
  /\ kind' = [kind EXCEPT ![call[r].on] = "gone"]
  /\ Finish(r)
  /\ UNCHANGED <<parent, path, perms, crossed>>

\* The flush loads the subfolders and documents that are there by now, sets
\* their reference to NULL and deletes the folder.
DeleteFolderCommit(r) ==
  /\ Due(r, "delete")
  /\ kind' = [kind EXCEPT ![call[r].on] = "gone"]
  /\ parent' = [x \in Names |-> IF parent[x] = call[r].on THEN Root ELSE parent[x]]
  /\ Finish(r)
  /\ UNCHANGED <<path, perms, crossed>>

\* The row stays, with is_deleted.
DeleteDocumentCommit(r) ==
  /\ Due(r, "delete_document")
  /\ kind' = [kind EXCEPT ![call[r].on] = "deleted"]
  /\ Finish(r)
  /\ UNCHANGED <<parent, path, perms, crossed>>

\* resource_id is no foreign key: the resource may be gone.
GrantCommit(r) ==
  /\ Due(r, "grant")
  /\ perms' = Append(perms, [on |-> call[r].on, to |-> call[r].to, may |-> call[r].may, by |-> r])
  /\ Finish(r)
  /\ UNCHANGED <<kind, parent, path, crossed>>

FolderCallFails(r) ==
  /\ call[r].at = "checked"
  /\ Finish(r)
  /\ UNCHANGED <<kind, parent, path, perms, crossed>>

FolderStep(r) ==
  \/ CreateCheck(r) \/ CreateCommit(r) \/ UploadCheck(r) \/ UploadCommit(r)
  \/ DeleteFolderCheck(r) \/ DeleteFolderCommit(r)
  \/ DeleteDocumentCheck(r) \/ DeleteDocumentCommit(r)
  \/ GrantCheck(r) \/ GrantCommit(r) \/ FolderCallFails(r)

FolderNext == \E r \in FolderRequests : FolderStep(r)

-----------------------------------------------------------------------------
FolderTypeOK ==
  /\ kind \in [Names -> {"none", "folder", "document", "gone", "deleted"}]
  /\ parent \in [Names -> Names \cup {Root}]
  /\ path \in [Names -> Seq(Names)]
  /\ perms \in Seq([on : Names, to : Principals, may : SUBSET Rights, by : FolderRequests \cup {Root}])
  /\ call \in [FolderRequests -> [at : {"idle", "checked", "done"},
       op : {"none", "create", "upload", "delete", "delete_document", "grant"},
       on : Names \cup {Root}, to : Principals, may : SUBSET Rights]]
  /\ crossed \subseteq FolderRequests

\* However creations and deletions cross, what is there lies in a folder that
\* is there or at the root, and the path that a folder was given says where it
\* lies: the recursive query ends and misses nothing.  (folders.py:66-118)
TreeIsSound ==
  \A x \in {y \in Names : Exists(y)} :
    parent[x] # Root =>
      /\ kind[parent[x]] = "folder"
      /\ path[x] = path[parent[x]] \o IF kind[x] = "folder" THEN <<x>> ELSE <<>>

\* A folder that lost its parent was created after the deletion of the parent
\* had looked for subfolders: otherwise folders that are not empty stay.
\* (folders.py:112-115)
OrphansNeedRaces ==
  \A x \in Names : kind[x] = "folder" /\ parent[x] = Root /\ Len(path[x]) > 1 => x \in crossed

\* Every permission was given by an admin or by somebody to whom an earlier
\* one, on the resource or on a folder above it, gave the right to write: no
\* interleaving of calls lets anybody in whom nobody let in.
\* (folders.py:129-131, documents.py:335-340)
GrantsAreDelegated ==
  \A i \in DOMAIN perms :
    LET u == SenderOf[perms[i].by]
        x == perms[i].on
    IN \/ perms[i].by = Root
       \/ u \in FolderAdmins
       \/ \E j \in RowsFor(u, {x} \cup {path[x][n] : n \in DOMAIN path[x]}) :
            j < i /\ "write" \in perms[j].may

\* A user loses a right on something only when a permission on that document is
\* given to one of the user's principals, and takes the place of what was
\* inherited, or when a folder above it is deleted.  (permissions.py:55-132)
RightsAreNotLost ==
  \A u \in FolderUsers, x \in Names :
    Exists(x) /\ Exists(x)' /\ ~ (Effective(u, x) \subseteq Effective(u, x)')
      => \/ kind[x] = "document" /\ RowsFor(u, {x}) # RowsFor(u, {x})'
         \/ \E f \in Ancestors(x) : kind'[f] = "gone"

RightsStay == [][RightsAreNotLost]_folderVars

\* The folders stay a tree, and only a race makes a subfolder a root.
FoldersStayInTree == TreeIsSound /\ OrphansNeedRaces

FolderSpec == FolderInit /\ [][FolderNext]_folderVars
=============================================================================
