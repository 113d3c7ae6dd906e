---------------------------- MODULE AccessProofs ----------------------------
(***************************************************************************)
(* Proofs about who may see what.                                          *)
(*                                                                         *)
(* Grants, for every cache lifetime, delay, expiry and number of requests: *)
(* what the services answer is never staler than the cache lifetime and    *)
(* the delay of a cache fill together.                                     *)
(*                                                                         *)
(* Folders, for every set of nodes, users and requests: the tree stays a   *)
(* tree of folders and every right traces back to one who could write.     *)
(***************************************************************************)
EXTENDS AccessDecisions, SequenceTheorems, TLAPS

-----------------------------------------------------------------------------
(* The grants.                                                             *)

\* An answer on its way is one the database gave at check[k].since, not long
\* ago, and an entry of the cache ends when its answer gets too old.
FreshInv ==
  /\ last[DbAnswer] = now
  /\ \A v \in Answer : last[v] <= now
  /\ cache.val \in Answer => cache.until <= last[cache.val] + TTL + MaxDelay
  /\ \A k \in Checks : check[k].at = "answered" =>
       /\ check[k].since <= last[check[k].val]
       /\ check[k].since <= now /\ now <= check[k].since + MaxDelay

Inv == TypeOK /\ FreshInv

LEMMA DbAnswerType == DbAnswer \in Answer
BY DEF DbAnswer, Answer

LEMMA NeverType == Never \in Int /\ Never <= 0
BY TimeAssumption DEF Never

LEMMA InitInv == Init => Inv
<1> SUFFICES ASSUME Init PROVE Inv
  OBVIOUS
<1>1. TypeOK
  <2>1. cache \in [val : Answer \cup {"none"}, until : 0..(MaxTime + TTL)]
    BY TimeAssumption DEF Init, NoEntry
  <2>2. NoCheck \in [at : {"idle", "missed", "answered"}, val : Answer, since : 0..MaxTime]
    BY TimeAssumption DEF NoCheck, Answer
  <2>3. last \in [Answer -> 0..MaxTime \cup {Never}]
    BY TimeAssumption DEF Init
  <2>4. check \in [Checks -> [at : {"idle", "missed", "answered"}, val : Answer, since : 0..MaxTime]]
    BY <2>2 DEF Init
  <2>5. now \in 0..MaxTime
    BY TimeAssumption DEF Init
  <2>6. status \in Status /\ approving \in BOOLEAN /\ expiring \in {"idle", "found", "committed"}
    BY DEF Init, Status
  <2> QED BY <2>1, <2>3, <2>4, <2>5, <2>6 DEF TypeOK
<1>2. FreshInv
  BY NeverType DEF Init, FreshInv, DbAnswer, InForce, NoEntry, NoCheck, Answer
<1> QED BY <1>1, <1>2 DEF Inv

\* The clock does not go back, and neither does the history.
LEMMA RecordStep ==
  ASSUME Inv, now' \in 0..MaxTime, now <= now', Record
  PROVE  /\ last' \in [Answer -> 0..MaxTime \cup {Never}]
         /\ last'[DbAnswer'] = now'
         /\ \A v \in Answer : /\ last[v] \in Int /\ last'[v] \in Int
                             /\ last[v] <= last'[v] /\ last'[v] <= now'
<1>1. DbAnswer' \in Answer
  BY DEF DbAnswer, Answer
<1>2. \A v \in Answer : last[v] \in Int /\ last[v] <= now
  BY TimeAssumption, NeverType DEF Inv, TypeOK, FreshInv
<1> QED BY <1>1, <1>2 DEF Record, Inv, TypeOK

\* A step that leaves cache and checks alone, at the same time.
LEMMA TenantStep ==
  ASSUME Inv, Record, UNCHANGED <<now, check>>,
         status' \in Status, approving' \in BOOLEAN, expiring' \in {"idle", "found", "committed"},
         cache' = cache \/ cache' = NoEntry
  PROVE  Inv'
<1> USE DEF Inv
<1>1. /\ last' \in [Answer -> 0..MaxTime \cup {Never}] /\ last'[DbAnswer'] = now'
      /\ \A v \in Answer : /\ last[v] \in Int /\ last'[v] \in Int
                          /\ last[v] <= last'[v] /\ last'[v] <= now'
  <2> now' \in 0..MaxTime /\ now <= now'
    BY DEF TypeOK
  <2> QED BY RecordStep
<1>2. cache' \in [val : Answer \cup {"none"}, until : 0..(MaxTime + TTL)]
  BY TimeAssumption DEF TypeOK, NoEntry
<1>3. TypeOK'
  BY <1>1, <1>2 DEF TypeOK
<1>4. cache'.val \in Answer => cache'.until <= last'[cache'.val] + TTL + MaxDelay
  BY <1>1, TimeAssumption DEF TypeOK, FreshInv, NoEntry, Answer
<1>5. ASSUME NEW k \in Checks, check'[k].at = "answered"
      PROVE  /\ check'[k].since <= last'[check'[k].val]
             /\ check'[k].since <= now' /\ now' <= check'[k].since + MaxDelay
  <2>1. /\ check'[k] = check[k] /\ check[k].val \in Answer /\ check[k].since \in Int
    BY DEF TypeOK
  <2> QED BY <1>1, <1>5, <2>1 DEF FreshInv
<1> QED BY <1>1, <1>3, <1>4, <1>5 DEF FreshInv

\* A step of one check, at the same time.
LEMMA CheckStepInv ==
  ASSUME Inv, Record, NEW k \in Checks, CheckStep(k)
  PROVE  Inv'
<1> USE DEF Inv
<1>0. now' = now /\ UNCHANGED <<status, approving, expiring>>
  BY DEF CheckStep, CacheMiss, QueryGrant, StoreAnswer, CheckFails
<1>1. /\ last' \in [Answer -> 0..MaxTime \cup {Never}] /\ last'[DbAnswer'] = now'
      /\ \A v \in Answer : /\ last[v] \in Int /\ last'[v] \in Int
                          /\ last[v] <= last'[v] /\ last'[v] <= now'
  <2> now' \in 0..MaxTime /\ now <= now'
    BY <1>0 DEF TypeOK
  <2> QED BY RecordStep
<1>2. check' \in [Checks -> [at : {"idle", "missed", "answered"}, val : Answer, since : 0..MaxTime]]
  BY TimeAssumption, DbAnswerType
     DEF CheckStep, CacheMiss, QueryGrant, StoreAnswer, CheckFails, TypeOK, NoCheck, Answer
<1>3. cache' \in [val : Answer \cup {"none"}, until : 0..(MaxTime + TTL)]
  <2>1. CASE StoreAnswer(k)
    <3>1. check[k].val \in Answer /\ now + TTL \in 0..(MaxTime + TTL)
      BY TimeAssumption DEF TypeOK
    <3> QED BY <2>1, <3>1 DEF StoreAnswer
  <2> QED BY <2>1 DEF CheckStep, CacheMiss, QueryGrant, CheckFails, TypeOK
<1>4. TypeOK'
  BY <1>0, <1>1, <1>2, <1>3 DEF TypeOK
<1>5. cache'.val \in Answer => cache'.until <= last'[cache'.val] + TTL + MaxDelay
  <2>1. CASE StoreAnswer(k)
    <3>1. /\ check[k].val \in Answer /\ check[k].since \in Int /\ now \in Int
          /\ check[k].since <= last[check[k].val] /\ now <= check[k].since + MaxDelay
      BY <2>1 DEF StoreAnswer, TypeOK, FreshInv
    <3>2. cache'.val = check[k].val /\ cache'.until = now + TTL
      BY <2>1 DEF StoreAnswer
    <3> QED BY <1>1, <3>1, <3>2, TimeAssumption
  <2>2. CASE cache' = cache
    BY <1>1, <2>2, TimeAssumption DEF TypeOK, FreshInv
  <2> QED BY <2>1, <2>2 DEF CheckStep, CacheMiss, QueryGrant, CheckFails
<1>6. ASSUME NEW j \in Checks, check'[j].at = "answered"
      PROVE  /\ check'[j].since <= last'[check'[j].val]
             /\ check'[j].since <= now' /\ now' <= check'[j].since + MaxDelay
  <2>1. CASE check'[j] = check[j]
    <3>1. check[j].val \in Answer /\ check[j].since \in Int
      BY DEF TypeOK
    <3> QED BY <1>0, <1>1, <1>6, <2>1, <3>1 DEF FreshInv
  <2>2. CASE j = k /\ QueryGrant(k)
    <3>1. check'[k] = [at |-> "answered", val |-> DbAnswer, since |-> now]
      BY <2>2 DEF QueryGrant, TypeOK
    <3>2. now \in Int /\ last[DbAnswer] = now /\ last[DbAnswer] <= last'[DbAnswer]
      BY <1>1, DbAnswerType DEF TypeOK, FreshInv
    <3> QED BY <1>0, <2>2, <3>1, <3>2, TimeAssumption
  <2>3. CASE j = k /\ ~QueryGrant(k)
    BY <1>6, <2>3 DEF CheckStep, CacheMiss, StoreAnswer, CheckFails, TypeOK, NoCheck
  <2>4. CASE j # k
    <3> check'[j] = check[j]
      BY <2>4 DEF CheckStep, CacheMiss, QueryGrant, StoreAnswer, CheckFails, TypeOK
    <3> QED BY <2>1
  <2> QED BY <2>2, <2>3, <2>4
<1> QED BY <1>1, <1>4, <1>5, <1>6 DEF FreshInv

\* The clock: no answer on its way is older than MaxDelay.
LEMMA TickInv ==
  ASSUME Inv, Record, Tick
  PROVE  Inv'
<1> USE DEF Inv
<1>0. now \in Int /\ now' = now + 1 /\ now' \in 0..MaxTime
  BY TimeAssumption DEF Tick, TypeOK
<1>1. /\ last' \in [Answer -> 0..MaxTime \cup {Never}] /\ last'[DbAnswer'] = now'
      /\ \A v \in Answer : /\ last[v] \in Int /\ last'[v] \in Int
                          /\ last[v] <= last'[v] /\ last'[v] <= now'
  BY <1>0, RecordStep
<1>2. TypeOK'
  BY <1>0, <1>1 DEF Tick, TypeOK
<1>3. cache'.val \in Answer => cache'.until <= last'[cache'.val] + TTL + MaxDelay
  BY <1>1, TimeAssumption DEF Tick, TypeOK, FreshInv
<1>4. ASSUME NEW k \in Checks, check'[k].at = "answered"
      PROVE  /\ check'[k].since <= last'[check'[k].val]
             /\ check'[k].since <= now' /\ now' <= check'[k].since + MaxDelay
  <2>1. /\ check'[k] = check[k] /\ check[k].val \in Answer /\ check[k].since \in Int
        /\ now < check[k].since + MaxDelay
    BY <1>4 DEF Tick, TypeOK
  <2> QED BY <1>0, <1>1, <1>4, <2>1, TimeAssumption DEF FreshInv
<1> QED BY <1>1, <1>2, <1>3, <1>4 DEF FreshInv

LEMMA NextInv == Inv /\ [Next]_vars => Inv'
<1> SUFFICES ASSUME Inv, [Next]_vars PROVE Inv'
  OBVIOUS
<1>1. CASE Next /\ TenantService
  <2> Record
    BY <1>1 DEF Next
  <2>1. UNCHANGED <<now, check>> /\ (cache' = cache \/ cache' = NoEntry)
    BY <1>1 DEF TenantService, RequestGrant, ApproveRead, ApproveCommit, ApproveAbort, Revoke,
                ExpireFind, ExpireCommit, ExpireInvalidate, ExpireFails
  <2>2. /\ status' \in Status /\ approving' \in BOOLEAN
        /\ expiring' \in {"idle", "found", "committed"}
    BY <1>1 DEF TenantService, RequestGrant, ApproveRead, ApproveCommit, ApproveAbort, Revoke,
                ExpireFind, ExpireCommit, ExpireInvalidate, ExpireFails, Inv, TypeOK, Status
  <2> QED BY <2>1, <2>2, TenantStep
<1>2. CASE Next /\ Tick
  BY <1>2, TickInv DEF Next
<1>3. CASE Next /\ \E k \in Checks : CheckStep(k)
  BY <1>3, CheckStepInv DEF Next
<1>4. CASE UNCHANGED vars
  BY <1>4 DEF vars, Inv, TypeOK, FreshInv, DbAnswer, InForce
<1> QED BY <1>1, <1>2, <1>3, <1>4 DEF Next

LEMMA InvIsFresh == Inv => AnswersAreFresh
<1> SUFFICES ASSUME Inv PROVE AnswersAreFresh
  OBVIOUS
<1>1. Cached \in Answer => now < last[Cached] + TTL + MaxDelay
  <2> SUFFICES ASSUME Cached \in Answer PROVE now < last[Cached] + TTL + MaxDelay
    OBVIOUS
  <2>1. now < cache.until /\ Cached = cache.val
    BY DEF Cached, Answer
  <2>2. /\ now \in Int /\ cache.until \in Int /\ last[cache.val] \in Int
        /\ cache.until <= last[cache.val] + TTL + MaxDelay
    BY <2>1, NeverType, TimeAssumption DEF Inv, TypeOK, FreshInv
  <2> QED BY <2>1, <2>2, TimeAssumption
<1>2. \A k \in Checks : check[k].at = "answered" => now <= last[check[k].val] + MaxDelay
  <2> SUFFICES ASSUME NEW k \in Checks, check[k].at = "answered"
               PROVE  now <= last[check[k].val] + MaxDelay
    OBVIOUS
  <2>1. check[k].val \in Answer /\ check[k].since \in Int /\ now \in Int /\ last[check[k].val] \in Int
    BY NeverType, TimeAssumption DEF Inv, TypeOK
  <2> QED BY <2>1, TimeAssumption DEF Inv, FreshInv
<1> QED BY <1>1, <1>2 DEF AnswersAreFresh

\* The state of a grant and of its cache entry stays well formed.
THEOREM GrantTypes == Spec => []TypeOK
<1>1. Inv => TypeOK
  BY DEF Inv
<1> QED BY <1>1, InitInv, NextInv, PTL DEF Spec

\* Whatever the cache lifetime, the delay of a fill and the number of
\* requests, no service answers with something the database has not said for
\* longer than the two together.
THEOREM AnswersStayFresh == Spec => []AnswersAreFresh
BY InitInv, NextInv, InvIsFresh, PTL DEF Spec

-----------------------------------------------------------------------------
(* The folders.                                                            *)

\* What is not there yet has no parent, a folder's path ends with the folder,
\* and the tree is sound at x.
NodeInv(x) ==
  /\ kind[x] = "none" => parent[x] = Root
  /\ kind[x] = "folder" => \E n \in DOMAIN path[x] : path[x][n] = x
  /\ Exists(x) /\ parent[x] # Root =>
       /\ kind[parent[x]] = "folder"
       /\ path[x] = path[parent[x]] \o IF kind[x] = "folder" THEN <<x>> ELSE <<>>
  /\ kind[x] = "folder" /\ parent[x] = Root /\ Len(path[x]) > 1 => x \in crossed

\* u is an admin, or one of the first permissions lets u write on x or above.
MayGrant(u, x, i) ==
  \/ u \in FolderAdmins
  \/ \E j \in RowsFor(u, {x} \cup {path[x][n] : n \in DOMAIN path[x]}) :
       j < i /\ "write" \in perms[j].may

\* What a check has found and the commit still relies on.
CallInv(r) ==
  /\ call[r].at # "done" => kind[r] = "none"
  /\ Due(r, "delete") =>
       /\ call[r].on \in Names /\ kind[call[r].on] \in {"folder", "gone"}
       /\ \A x \in Names : kind[x] = "folder" /\ parent[x] = call[r].on => x \in crossed
  /\ Due(r, "delete_document") => call[r].on \in Names /\ kind[call[r].on] \in {"document", "deleted"}
  /\ Due(r, "grant") =>
       /\ call[r].on \in Names /\ kind[call[r].on] # "none"
       /\ MayGrant(SenderOf[r], call[r].on, Len(perms) + 1)

RowInv(i) ==
  /\ kind[perms[i].on] # "none"
  /\ perms[i].by = Root \/ MayGrant(SenderOf[perms[i].by], perms[i].on, i)

FolderInv ==
  /\ FolderTypeOK
  /\ \A x \in Names : NodeInv(x)
  /\ \A r \in FolderRequests : CallInv(r)
  /\ \A i \in DOMAIN perms : RowInv(i)

Kinds == {"none", "folder", "document", "gone", "deleted"}
Call == [at : {"idle", "checked", "done"},
         op : {"none", "create", "upload", "delete", "delete_document", "grant"},
         on : Names \cup {Root}, to : Principals, may : SUBSET Rights]
Row == [on : Names, to : Principals, may : SUBSET Rights, by : FolderRequests \cup {Root}]

LEMMA NamesAre ==
  /\ Top \in Names /\ Top # Root /\ Root \notin Names
  /\ \A r \in FolderRequests : r \in Names /\ r # Root /\ r # Top /\ SenderOf[r] \in FolderUsers
BY FolderAssumption DEF Names

LEMMA CallTypes ==
  /\ NoCall \in Call /\ NoCall.at = "idle" /\ NoCall.op = "none"
  /\ [NoCall EXCEPT !.at = "done"] \in Call /\ [NoCall EXCEPT !.at = "done"].at = "done"
BY FolderAssumption DEF NoCall, Call

LEMMA InitFolder == FolderInit => FolderInv
<1> SUFFICES ASSUME FolderInit PROVE FolderInv
  OBVIOUS
<1>1. /\ kind = [x \in Names |-> IF x = Top THEN "folder" ELSE "none"]
      /\ parent = [x \in Names |-> Root]
      /\ path = [x \in Names |-> IF x = Top THEN <<Top>> ELSE <<>>]
      /\ call = [r \in FolderRequests |-> NoCall] /\ crossed = {}
  BY DEF FolderInit
<1> DEFINE row == [on |-> Top, to |-> TopGrantee, may |-> Rights, by |-> Root]
<1>2. row \in Row /\ row.on = Top /\ row.by = Root
  BY NamesAre, FolderAssumption DEF Row
<1>3. perms = <<row>>
  BY DEF FolderInit
<1> HIDE DEF row
<1>4. perms \in Seq(Row) /\ DOMAIN perms = {1} /\ perms[1] = row
  BY <1>2, <1>3
<1>5. path \in [Names -> Seq(Names)]
  <2>1. <<Top>> \in Seq(Names) /\ <<>> \in Seq(Names)
    BY NamesAre
  <2> QED BY <1>1, <2>1
<1>6. FolderTypeOK
  BY <1>1, <1>4, <1>5, CallTypes DEF FolderTypeOK, Call, Row
<1>7. ASSUME NEW x \in Names PROVE NodeInv(x)
  <2>1. <<Top>>[1] = Top /\ DOMAIN <<Top>> = {1} /\ Len(<<Top>>) = 1
    OBVIOUS
  <2> QED BY <1>1, <2>1 DEF NodeInv
<1>8. ASSUME NEW r \in FolderRequests PROVE CallInv(r)
  BY <1>1, CallTypes, NamesAre DEF CallInv, Due
<1>9. \A i \in DOMAIN perms : RowInv(i)
  BY <1>1, <1>2, <1>4, NamesAre DEF RowInv
<1> QED BY <1>6, <1>7, <1>8, <1>9 DEF FolderInv

\* The permissions are only added to, and the path of what is there stays.
LEMMA GrantStays ==
  ASSUME NEW u, NEW x, NEW i, MayGrant(u, x, i), path'[x] = path[x],
         DOMAIN perms \subseteq DOMAIN perms', \A j \in DOMAIN perms : perms'[j] = perms[j]
  PROVE  MayGrant(u, x, i)'
BY DEF MayGrant, RowsFor

\* A step that leaves the tree and the permissions alone.
LEMMA CallStep ==
  ASSUME FolderInv, NEW r \in FolderRequests, UNCHANGED <<kind, parent, path, perms, crossed>>,
         call' \in [FolderRequests -> Call], \A q \in FolderRequests : q # r => call'[q] = call[q],
         CallInv(r)'
  PROVE  FolderInv'
<1>1. FolderTypeOK'
  <2>1. FolderTypeOK
    BY DEF FolderInv
  <2> QED BY <2>1 DEF FolderTypeOK, Call
<1>2. \A x \in Names : NodeInv(x)'
  BY DEF FolderInv, NodeInv, Exists
<1>3. ASSUME NEW q \in FolderRequests, q # r PROVE CallInv(q)'
  <2>1. CallInv(q) /\ call'[q] = call[q]
    BY <1>3 DEF FolderInv
  <2> QED BY <2>1 DEF CallInv, Due, MayGrant, RowsFor
<1>4. \A i \in DOMAIN perms' : RowInv(i)'
  BY DEF FolderInv, RowInv, MayGrant, RowsFor
<1> QED BY <1>1, <1>2, <1>3, <1>4 DEF FolderInv

LEMMA FailsInv == ASSUME FolderInv, NEW r \in FolderRequests, FolderCallFails(r) PROVE FolderInv'
<1>1. /\ call' = [call EXCEPT ![r] = [NoCall EXCEPT !.at = "done"]]
      /\ UNCHANGED <<kind, parent, path, perms, crossed>>
  BY DEF FolderCallFails, Finish
<1>2. call \in [FolderRequests -> Call]
  BY DEF FolderInv, FolderTypeOK, Call
<1>3. call'[r].at = "done" /\ call' \in [FolderRequests -> Call]
  BY <1>1, <1>2, CallTypes
<1>4. CallInv(r)'
  BY <1>3 DEF CallInv, Due
<1> QED BY <1>1, <1>2, <1>3, <1>4, CallStep

-----------------------------------------------------------------------------
\* The recursive query stays in the path of what it starts from, and finds only
\* what is there.
LEMMA ChainInPath ==
  ASSUME FolderInv, NEW x \in Names, Exists(x)
  PROVE  \A y \in Chain(x) : Exists(y) /\ y \in {x} \cup {path[x][n] : n \in DOMAIN path[x]}
<1> DEFINE P(y) == {path[y][n] : n \in DOMAIN path[y]}
           S == {y \in Names : Exists(y) /\ P(y) \subseteq P(x) /\ y \in {x} \cup P(x)}
<1>1. x \in S
  OBVIOUS
<1>2. ASSUME NEW y \in S, parent[y] # Root PROVE parent[y] \in S
  <2>1. /\ Exists(y) /\ P(y) \subseteq P(x) /\ NodeInv(y)
        /\ parent[y] \in Names /\ NodeInv(parent[y])
    BY <1>2 DEF FolderInv, FolderTypeOK
  <2>2. PICK z \in Names : z = parent[y]
    BY <2>1
  <2>3. PICK s : s = IF kind[y] = "folder" THEN <<y>> ELSE <<>>
    OBVIOUS
  <2>4. kind[z] = "folder" /\ path[y] = path[z] \o s
    BY <1>2, <2>1, <2>2, <2>3 DEF NodeInv
  <2>5. z \in P(z)
    BY <2>1, <2>2, <2>4 DEF NodeInv
  <2>6. P(z) \subseteq P(y)
    <3>1. path[z] \in Seq(Names) /\ s \in Seq(Names)
      BY <2>3 DEF FolderInv, FolderTypeOK
    <3>2. \A n \in DOMAIN path[z] : n \in DOMAIN (path[z] \o s) /\ (path[z] \o s)[n] = path[z][n]
      BY <3>1, ConcatProperties
    <3> QED BY <2>4, <3>2
  <2>7. Exists(z)
    BY <2>4 DEF Exists
  <2> QED BY <2>1, <2>2, <2>5, <2>6, <2>7
<1>3. S \in SUBSET Names /\ IsClosed(S)
  BY <1>2 DEF IsClosed
<1>4. \A y \in Chain(x) : y \in S
  BY <1>1, <1>3 DEF Chain
<1> QED BY <1>4

LEMMA WriteIsGiven ==
  ASSUME FolderInv, NEW u, NEW x \in Names, Exists(x), "write" \in Effective(u, x)
  PROVE  MayGrant(u, x, Len(perms) + 1)
<1>1. PICK S, j :
        /\ j \in RowsFor(u, S) /\ "write" \in perms[j].may
        /\ S \subseteq {x} \cup {path[x][n] : n \in DOMAIN path[x]}
  <2>1. CASE "write" \in GivenBy(RowsFor(u, {x}))
    BY <2>1 DEF GivenBy
  <2>2. CASE "write" \in GivenBy(RowsFor(u, Ancestors(x)))
    <3>1. Ancestors(x) \subseteq {x} \cup {path[x][n] : n \in DOMAIN path[x]}
      BY ChainInPath DEF Ancestors
    <3> QED BY <2>2, <3>1 DEF GivenBy
  <2> QED BY <2>1, <2>2 DEF Effective, FolderRights
<1>2. j \in DOMAIN perms /\ perms \in Seq(Row)
  BY <1>1 DEF RowsFor, FolderInv, FolderTypeOK, Row
<1>3. Len(perms) \in Nat /\ DOMAIN perms = 1 .. Len(perms)
  BY <1>2
<1>4. j \in 1 .. Len(perms)
  BY <1>2, <1>3
<1>5. j < Len(perms) + 1
  BY <1>3, <1>4
<1> QED BY <1>1, <1>5 DEF MayGrant, RowsFor

-----------------------------------------------------------------------------
(* The checks.                                                             *)

LEMMA AskInv ==
  ASSUME FolderInv, NEW r \in FolderRequests, NEW op \in {"create", "upload", "delete", "delete_document", "grant"},
         NEW on \in Names \cup {Root}, NEW to \in Principals, NEW may \in SUBSET Rights,
         Ask(r, op, on, to, may),
         op = "delete" => on \in Names /\ kind[on] = "folder"
                          /\ ~ \E x \in Names : kind[x] = "folder" /\ parent[x] = on,
         op = "delete_document" => on \in Names /\ kind[on] = "document",
         op = "grant" => on \in Names /\ kind[on] # "none" /\ MayGrant(SenderOf[r], on, Len(perms) + 1)
  PROVE  FolderInv'
<1> DEFINE c == [at |-> "checked", op |-> op, on |-> on, to |-> to, may |-> may]
<1>1. /\ call[r].at = "idle" /\ call' = [call EXCEPT ![r] = c]
      /\ UNCHANGED <<kind, parent, path, perms, crossed>>
  BY DEF Ask
<1>2. c \in Call /\ c.at = "checked" /\ c.op = op /\ c.on = on
  BY DEF Call
<1> HIDE DEF c
<1>3. call \in [FolderRequests -> Call]
  BY DEF FolderInv, FolderTypeOK, Call
<1>4. /\ call' \in [FolderRequests -> Call] /\ call'[r] = c
      /\ \A q \in FolderRequests : q # r => call'[q] = call[q]
  BY <1>1, <1>2, <1>3
<1>5. CallInv(r)'
  <2>1. kind[r] = "none"
    BY <1>1 DEF FolderInv, CallInv
  <2>2. op = "grant" => MayGrant(SenderOf[r], on, Len(perms) + 1)'
    BY <1>1 DEF MayGrant, RowsFor
  <2> QED BY <1>1, <1>2, <1>4, <2>1, <2>2 DEF CallInv, Due, MayGrant, RowsFor
<1> QED BY <1>1, <1>4, <1>5, CallStep

FolderCheckStep(r) ==
  CreateCheck(r) \/ UploadCheck(r) \/ DeleteFolderCheck(r) \/ DeleteDocumentCheck(r) \/ GrantCheck(r)

LEMMA CheckInv == ASSUME FolderInv, NEW r \in FolderRequests, FolderCheckStep(r) PROVE FolderInv'
<1>0. TopGrantee \in Principals /\ {} \in SUBSET Rights
  BY FolderAssumption
<1>1. CASE CreateCheck(r)
  BY <1>0, <1>1, AskInv DEF CreateCheck
<1>2. CASE UploadCheck(r)
  BY <1>0, <1>2, AskInv DEF UploadCheck
<1>3. CASE DeleteFolderCheck(r)
  BY <1>0, <1>3, AskInv DEF DeleteFolderCheck
<1>4. CASE DeleteDocumentCheck(r)
  BY <1>0, <1>4, AskInv DEF DeleteDocumentCheck
<1>5. CASE GrantCheck(r)
  <2>1. PICK x \in Names, to \in Principals, may \in Grantable :
          Exists(x) /\ Allowed(r, "write", x) /\ Ask(r, "grant", x, to, may)
    BY <1>5 DEF GrantCheck
  <2>2. MayGrant(SenderOf[r], x, Len(perms) + 1)
    BY <2>1, WriteIsGiven DEF Allowed, MayGrant
  <2>3. kind[x] # "none" /\ may \in SUBSET Rights
    BY <2>1, FolderAssumption DEF Exists
  <2> QED BY <2>1, <2>2, <2>3, AskInv
<1> QED BY <1>1, <1>2, <1>3, <1>4, <1>5 DEF FolderCheckStep

-----------------------------------------------------------------------------
(* The commits.                                                            *)

\* A commit that ends request r keeps what it leaves alone.
LEMMA Finished ==
  ASSUME FolderInv, NEW r \in FolderRequests, Finish(r)
  PROVE  /\ call' \in [FolderRequests -> Call] /\ CallInv(r)'
         /\ \A q \in FolderRequests : q # r => call'[q] = call[q]
<1>1. call' = [call EXCEPT ![r] = [NoCall EXCEPT !.at = "done"]] /\ call \in [FolderRequests -> Call]
  BY DEF Finish, FolderInv, FolderTypeOK, Call
<1>2. call'[r].at = "done" /\ call' \in [FolderRequests -> Call]
  BY <1>1, CallTypes
<1>3. CallInv(r)'
  BY <1>2 DEF CallInv, Due
<1> QED BY <1>1, <1>2, <1>3

LEMMA GrantCommitInv == ASSUME FolderInv, NEW r \in FolderRequests, GrantCommit(r) PROVE FolderInv'
<1> DEFINE row == [on |-> call[r].on, to |-> call[r].to, may |-> call[r].may, by |-> r]
<1>1. /\ Due(r, "grant") /\ perms' = Append(perms, row) /\ Finish(r)
      /\ UNCHANGED <<kind, parent, path, crossed>>
  BY DEF GrantCommit
<1>2. CallInv(r) /\ FolderTypeOK /\ call[r] \in Call
  BY DEF FolderInv, FolderTypeOK, Call
<1>3. PICK x \in Names : x = call[r].on
  BY <1>1, <1>2 DEF CallInv
<1>4. PICK m : m = Len(perms) + 1
  OBVIOUS
<1>5. kind[x] # "none" /\ MayGrant(SenderOf[r], x, m)
  BY <1>1, <1>2, <1>3, <1>4 DEF CallInv
<1>6. row \in Row /\ row.on = x /\ row.by = r
  BY <1>2, <1>3 DEF Row, Call
<1> HIDE DEF row
<1>7. /\ perms' \in Seq(Row) /\ m \in Nat /\ Len(perms') = m /\ perms'[m] = row
      /\ DOMAIN perms' = DOMAIN perms \cup {m} /\ m \notin DOMAIN perms
      /\ \A j \in DOMAIN perms : perms'[j] = perms[j]
  <2>1. perms \in Seq(Row) /\ Len(perms) \in Nat /\ DOMAIN perms = 1 .. Len(perms)
    BY <1>2 DEF FolderTypeOK, Row
  <2> QED BY <1>1, <1>4, <1>6, <2>1, AppendProperties
<1>8. FolderTypeOK'
  BY <1>1, <1>2, <1>7, Finished DEF FolderTypeOK, Row, Call
<1>9. \A y \in Names : NodeInv(y)'
  BY <1>1 DEF FolderInv, NodeInv, Exists
<1>10. ASSUME NEW q \in FolderRequests, q # r PROVE CallInv(q)'
  <2>1. CallInv(q) /\ call'[q] = call[q]
    BY <1>1, <1>10, Finished DEF FolderInv
  <2>2. PICK y : y = call[q].on
    OBVIOUS
  <2>3. MayGrant(SenderOf[q], y, m) => MayGrant(SenderOf[q], y, m + 1)'
    <3>1. \A j \in DOMAIN perms : j < m => j < m + 1
      <4>1. DOMAIN perms \subseteq Nat
        BY <1>2 DEF FolderTypeOK
      <4> QED BY <1>7, <4>1
    <3> QED BY <1>1, <1>7, <3>1 DEF MayGrant, RowsFor
  <2> QED BY <1>1, <1>4, <1>7, <2>1, <2>2, <2>3 DEF CallInv, Due, MayGrant, RowsFor
<1>11. ASSUME NEW i \in DOMAIN perms' PROVE RowInv(i)'
  <2>1. CASE i = m
    <3>1. MayGrant(SenderOf[r], x, m)'
      BY <1>1, <1>5, <1>7, GrantStays
    <3> QED BY <1>1, <1>5, <1>6, <1>7, <2>1, <3>1 DEF RowInv
  <2>2. CASE i \in DOMAIN perms
    <3>1. RowInv(i) /\ perms'[i] = perms[i]
      BY <1>7, <2>2 DEF FolderInv
    <3>2. PICK y, u : y = perms[i].on /\ u = SenderOf[perms[i].by]
      OBVIOUS
    <3>3. MayGrant(u, y, i) => MayGrant(u, y, i)'
      BY <1>1, <1>7, GrantStays
    <3> QED BY <1>1, <3>1, <3>2, <3>3 DEF RowInv
  <2> QED BY <1>7, <2>1, <2>2
<1>12. CallInv(r)'
  BY <1>1, Finished
<1> QED BY <1>8, <1>9, <1>10, <1>11, <1>12 DEF FolderInv

\* What is there stays known under its path, so that permissions stay given.
LEMMA RowsStay ==
  ASSUME FolderInv, perms' = perms,
         \A x \in Names : kind[x] # "none" => kind'[x] # "none" /\ path'[x] = path[x]
  PROVE  /\ \A i \in DOMAIN perms' : RowInv(i)'
         /\ \A x \in Names : \A u, i : kind[x] # "none" /\ MayGrant(u, x, i) => MayGrant(u, x, i)'
<1>1. ASSUME NEW x \in Names, NEW u, NEW i, kind[x] # "none", MayGrant(u, x, i) PROVE MayGrant(u, x, i)'
  BY <1>1, GrantStays
<1>2. ASSUME NEW i \in DOMAIN perms' PROVE RowInv(i)'
  <2>1. RowInv(i) /\ perms[i].on \in Names
    <3>1. i \in DOMAIN perms /\ perms \in Seq(Row)
      BY <1>2 DEF FolderInv, FolderTypeOK, Row
    <3>2. perms[i] \in Row
      BY <3>1
    <3> QED BY <3>1, <3>2 DEF FolderInv, Row
  <2>2. PICK x, u : x = perms[i].on /\ u = SenderOf[perms[i].by]
    OBVIOUS
  <2> QED BY <1>1, <2>1, <2>2 DEF RowInv
<1> QED BY <1>1, <1>2

\* A call under way keeps what it has found, if deletions only delete.
LEMMA CallsStay ==
  ASSUME FolderInv, NEW r \in FolderRequests, NEW q \in FolderRequests, q # r, call'[q] = call[q],
         perms' = perms, crossed \subseteq crossed',
         \A x \in Names : kind[x] # "none" => kind'[x] # "none" /\ path'[x] = path[x],
         kind[q] = "none" => kind'[q] = "none",
         \A x \in Names : kind[x] \in {"folder", "gone"} => kind'[x] \in {"folder", "gone"},
         \A x \in Names : kind[x] \in {"document", "deleted"} => kind'[x] \in {"document", "deleted"},
         Due(q, "delete") => \A x \in Names : kind'[x] = "folder" /\ parent'[x] = call[q].on
                               => x \in crossed' \/ (kind[x] = "folder" /\ parent[x] = call[q].on)
  PROVE  CallInv(q)'
<1>1. CallInv(q)
  BY DEF FolderInv
<1>2. PICK y : y = call[q].on
  OBVIOUS
<1>3. PICK m : m = Len(perms) + 1
  OBVIOUS
<1>4. Due(q, "grant") => MayGrant(SenderOf[q], y, m)'
  BY <1>1, <1>2, <1>3, RowsStay DEF CallInv
<1>5. Due(q, "grant")' => MayGrant(SenderOf[q], call[q].on, Len(perms) + 1)'
  BY <1>2, <1>3, <1>4 DEF Due, MayGrant, RowsFor
<1> QED BY <1>1, <1>5 DEF CallInv, Due

LEMMA InsertInv ==
  ASSUME FolderInv, NEW r \in FolderRequests, call[r].at = "checked", NEW what \in {"folder", "document"},
         Insert(r, what), ~Due(r, "delete")
  PROVE  FolderInv'
<1>1. PICK p : p = call[r].on
  OBVIOUS
<1> DEFINE base == IF p = Root THEN <<>> ELSE path[p]
           end == IF what = "folder" THEN <<r>> ELSE <<>>
<1>2. /\ p # Root => kind[p] = "folder"
      /\ kind' = [kind EXCEPT ![r] = what] /\ parent' = [parent EXCEPT ![r] = p]
      /\ path' = [path EXCEPT ![r] = base \o end]
      /\ crossed' = IF BeingDeleted(p) THEN crossed \cup {r} ELSE crossed
      /\ Finish(r) /\ perms' = perms
  BY <1>1 DEF Insert
<1>3. FolderTypeOK /\ CallInv(r) /\ NodeInv(r) /\ r \in Names /\ r # Root
  BY NamesAre DEF FolderInv
<1>4. kind[r] = "none" /\ p \in Names \cup {Root} /\ p # r
  BY <1>1, <1>2, <1>3 DEF CallInv, FolderTypeOK
<1>5. base \in Seq(Names) /\ end \in Seq(Names)
  BY <1>3, <1>4 DEF FolderTypeOK
<1>6. base \o end \in Seq(Names)
  BY <1>5, ConcatProperties
<1>7. /\ kind'[r] = what /\ parent'[r] = p /\ path'[r] = base \o end
      /\ \A x \in Names : x # r => kind'[x] = kind[x] /\ parent'[x] = parent[x] /\ path'[x] = path[x]
  BY <1>2, <1>3 DEF FolderTypeOK
<1>8. FolderTypeOK'
  BY <1>2, <1>3, <1>4, <1>6, Finished DEF FolderTypeOK, Call
<1>9. ASSUME NEW x \in Names PROVE NodeInv(x)'
  <2>1. CASE x = r
    <3>1. what = "folder" => \E n \in DOMAIN path'[r] : path'[r][n] = r
      <4>1. Len(base) \in Nat /\ Len(<<r>>) = 1 /\ <<r>>[1] = r /\ <<r>> \in Seq(Names)
        BY <1>3, <1>5
      <4>2. /\ DOMAIN (base \o <<r>>) = 1 .. Len(base) + 1
            /\ (base \o <<r>>)[Len(base) + 1] = <<r>>[Len(base) + 1 - Len(base)]
        BY <1>5, <4>1, ConcatProperties
      <4>3. Len(base) + 1 \in 1 .. Len(base) + 1 /\ Len(base) + 1 - Len(base) = 1
        BY <4>1
      <4> HIDE DEF base
      <4> QED BY <1>7, <4>1, <4>2, <4>3
    <3>2. p # Root => kind'[p] = "folder" /\ path'[p] = path[p]
      BY <1>2, <1>4, <1>7
    <3>3. p # Root => path'[r] = path'[p] \o end
      BY <1>7, <3>2
    <3>4. what = "folder" /\ p = Root => ~(Len(path'[r]) > 1)
      <4>1. <<>> \o <<r>> = <<r>> /\ Len(<<r>>) = 1
        OBVIOUS
      <4> QED BY <1>7, <4>1
    <3> HIDE DEF base
    <3>5. kind'[r] # "none" /\ (kind'[r] = "folder" <=> what = "folder")
      BY <1>7
    <3>6. p # Root => path'[r] = path'[p] \o IF kind'[r] = "folder" THEN <<r>> ELSE <<>>
      BY <3>3, <3>5
    <3>7. kind'[r] = "folder" => \E n \in DOMAIN path'[r] : path'[r][n] = r
      BY <3>1, <3>5
    <3>8. kind'[r] = "folder" /\ p = Root => ~(Len(path'[r]) > 1)
      BY <3>4, <3>5
    <3> HIDE DEF end
    <3>9. parent'[r] = p /\ kind'[r] # "none"
      BY <1>7, <3>5
    <3> QED BY <2>1, <3>2, <3>6, <3>7, <3>8, <3>9 DEF NodeInv
  <2>2. CASE x # r
    <3>1. /\ NodeInv(x) /\ kind'[x] = kind[x] /\ parent'[x] = parent[x] /\ path'[x] = path[x]
          /\ crossed \subseteq crossed'
      BY <1>2, <1>7, <2>2 DEF FolderInv
    <3>2. PICK z : z = parent[x]
      OBVIOUS
    <3>3. Exists(x) /\ z # Root => z # r /\ z \in Names
      BY <1>3, <1>4, <3>1, <3>2 DEF NodeInv, FolderTypeOK
    <3>4. Exists(x) /\ z # Root => kind'[z] = kind[z] /\ path'[z] = path[z]
      BY <1>7, <3>3
    <3> QED BY <3>1, <3>2, <3>4 DEF NodeInv, Exists
  <2> QED BY <2>1, <2>2
<1>10. \A x \in Names : kind[x] # "none" => kind'[x] # "none" /\ path'[x] = path[x]
  BY <1>4, <1>7
<1>11. \A i \in DOMAIN perms' : RowInv(i)'
  BY <1>2, <1>10, RowsStay
<1>12. ASSUME NEW q \in FolderRequests, q # r PROVE CallInv(q)'
  <2>1. call'[q] = call[q] /\ q \in Names /\ CallInv(q)
    BY <1>2, <1>12, Finished, NamesAre DEF FolderInv
  <2>2. kind[q] = "none" => kind'[q] = "none"
    BY <1>7, <1>12, <2>1
  <2>3. Due(q, "delete") => \A x \in Names : kind'[x] = "folder" /\ parent'[x] = call[q].on
                              => x \in crossed' \/ (kind[x] = "folder" /\ parent[x] = call[q].on)
    <3> SUFFICES ASSUME Due(q, "delete"), NEW x \in Names, kind'[x] = "folder", parent'[x] = call[q].on
                 PROVE  x \in crossed' \/ (kind[x] = "folder" /\ parent[x] = call[q].on)
      OBVIOUS
    <3>1. CASE x = r
      <4>1. BeingDeleted(p)
        BY <1>7, <3>1 DEF BeingDeleted
      <4> QED BY <1>2, <3>1, <4>1
    <3>2. CASE x # r
      BY <1>7, <3>2
    <3> QED BY <3>1, <3>2
  <2>4. /\ \A x \in Names : kind[x] \in {"folder", "gone"} => kind'[x] \in {"folder", "gone"}
        /\ \A x \in Names : kind[x] \in {"document", "deleted"} => kind'[x] \in {"document", "deleted"}
    BY <1>4, <1>7
  <2>5. crossed \subseteq crossed'
    BY <1>2
  <2> QED BY <1>2, <1>10, <1>12, <2>1, <2>2, <2>3, <2>4, <2>5, CallsStay
<1>13. CallInv(r)'
  BY <1>2, Finished
<1> QED BY <1>8, <1>9, <1>11, <1>12, <1>13 DEF FolderInv

LEMMA InsertCommitInv ==
  ASSUME FolderInv, NEW r \in FolderRequests, CreateCommit(r) \/ UploadCommit(r) PROVE FolderInv'
BY InsertInv DEF CreateCommit, UploadCommit, Due

\* The children of the folder were cut off from it after the check.
LEMMA DeleteFolderInv == ASSUME FolderInv, NEW r \in FolderRequests, DeleteFolderCommit(r) PROVE FolderInv'
<1>1. PICK f : f = call[r].on
  OBVIOUS
<1>2. /\ Due(r, "delete") /\ kind' = [kind EXCEPT ![f] = "gone"]
      /\ parent' = [x \in Names |-> IF parent[x] = f THEN Root ELSE parent[x]]
      /\ Finish(r) /\ UNCHANGED <<path, perms, crossed>>
  BY <1>1 DEF DeleteFolderCommit
<1>3. FolderTypeOK /\ CallInv(r)
  BY DEF FolderInv
<1>4. /\ f \in Names /\ kind[f] \in {"folder", "gone"} /\ f # Root
      /\ \A x \in Names : kind[x] = "folder" /\ parent[x] = f => x \in crossed
  BY <1>1, <1>2, <1>3, NamesAre DEF CallInv
<1>5. /\ kind'[f] = "gone" /\ \A x \in Names : x # f => kind'[x] = kind[x]
      /\ \A x \in Names : parent'[x] = IF parent[x] = f THEN Root ELSE parent[x]
  BY <1>2, <1>3, <1>4 DEF FolderTypeOK
<1>6. FolderTypeOK'
  <2>1. kind' \in [Names -> Kinds] /\ parent' \in [Names -> Names \cup {Root}]
    BY <1>2, <1>3 DEF FolderTypeOK, Kinds
  <2> QED BY <1>2, <1>3, <2>1, Finished DEF FolderTypeOK, Call, Kinds
<1>7. ASSUME NEW x \in Names PROVE NodeInv(x)'
  <2>1. NodeInv(x)
    BY DEF FolderInv
  <2>2. CASE x = f
    BY <1>4, <1>5, <2>2 DEF NodeInv, Exists
  <2>3. CASE x # f /\ parent[x] = f
    BY <1>2, <1>4, <1>5, <2>1, <2>3 DEF NodeInv, Exists
  <2>4. CASE x # f /\ parent[x] # f
    <3>1. kind'[x] = kind[x] /\ parent'[x] = parent[x] /\ path' = path /\ crossed' = crossed
      BY <1>2, <1>5, <2>4
    <3>2. PICK z : z = parent[x]
      OBVIOUS
    <3>3. z # Root => kind'[z] = kind[z]
      BY <1>3, <1>5, <2>4, <3>2 DEF FolderTypeOK
    <3> QED BY <2>1, <3>1, <3>2, <3>3 DEF NodeInv, Exists
  <2> QED BY <2>2, <2>3, <2>4
<1>8. \A x \in Names : kind[x] # "none" => kind'[x] # "none" /\ path'[x] = path[x]
  BY <1>2, <1>5
<1>9. \A i \in DOMAIN perms' : RowInv(i)'
  BY <1>2, <1>8, RowsStay
<1>10. ASSUME NEW q \in FolderRequests, q # r PROVE CallInv(q)'
  <2>1. call'[q] = call[q] /\ q \in Names /\ CallInv(q)
    BY <1>2, <1>10, Finished, NamesAre DEF FolderInv
  <2>2. kind[q] = "none" => kind'[q] = "none"
    BY <1>4, <1>5, <2>1
  <2>3. Due(q, "delete") => \A x \in Names : kind'[x] = "folder" /\ parent'[x] = call[q].on
                              => kind[x] = "folder" /\ parent[x] = call[q].on
    BY <1>5, <2>1, NamesAre DEF CallInv
  <2>4. /\ \A x \in Names : kind[x] \in {"folder", "gone"} => kind'[x] \in {"folder", "gone"}
        /\ \A x \in Names : kind[x] \in {"document", "deleted"} => kind'[x] \in {"document", "deleted"}
    BY <1>4, <1>5
  <2>5. crossed \subseteq crossed' /\ perms' = perms
    BY <1>2
  <2> QED BY <1>8, <1>10, <2>1, <2>2, <2>3, <2>4, <2>5, CallsStay
<1>11. CallInv(r)'
  BY <1>2, Finished
<1> QED BY <1>6, <1>7, <1>9, <1>10, <1>11 DEF FolderInv

LEMMA DeleteDocumentInv == ASSUME FolderInv, NEW r \in FolderRequests, DeleteDocumentCommit(r) PROVE FolderInv'
<1>1. PICK d : d = call[r].on
  OBVIOUS
<1>2. /\ Due(r, "delete_document") /\ kind' = [kind EXCEPT ![d] = "deleted"]
      /\ Finish(r) /\ UNCHANGED <<parent, path, perms, crossed>>
  BY <1>1 DEF DeleteDocumentCommit
<1>3. FolderTypeOK /\ CallInv(r)
  BY DEF FolderInv
<1>4. d \in Names /\ kind[d] \in {"document", "deleted"}
  BY <1>1, <1>2, <1>3 DEF CallInv
<1>5. kind'[d] = "deleted" /\ \A x \in Names : x # d => kind'[x] = kind[x]
  BY <1>2, <1>3, <1>4 DEF FolderTypeOK
<1>6. FolderTypeOK'
  <2>1. kind' \in [Names -> Kinds]
    BY <1>2, <1>3 DEF FolderTypeOK, Kinds
  <2> QED BY <1>2, <1>3, <2>1, Finished DEF FolderTypeOK, Call, Kinds
<1>7. ASSUME NEW x \in Names PROVE NodeInv(x)'
  <2>1. NodeInv(x)
    BY DEF FolderInv
  <2>2. PICK z : z = parent[x]
    OBVIOUS
  <2>3. kind[z] = "folder" /\ z \in Names => kind'[z] = "folder"
    BY <1>4, <1>5
  <2>4. z = Root \/ z \in Names
    BY <1>3, <2>2 DEF FolderTypeOK
  <2> QED BY <1>2, <1>4, <1>5, <2>1, <2>2, <2>3, <2>4 DEF NodeInv, Exists
<1>8. \A x \in Names : kind[x] # "none" => kind'[x] # "none" /\ path'[x] = path[x]
  BY <1>2, <1>5
<1>9. \A i \in DOMAIN perms' : RowInv(i)'
  BY <1>2, <1>8, RowsStay
<1>10. ASSUME NEW q \in FolderRequests, q # r PROVE CallInv(q)'
  <2>1. call'[q] = call[q] /\ q \in Names /\ CallInv(q)
    BY <1>2, <1>10, Finished, NamesAre DEF FolderInv
  <2>2. kind[q] = "none" => kind'[q] = "none"
    BY <1>4, <1>5, <2>1
  <2>3. \A x \in Names : kind'[x] = "folder" => kind[x] = "folder" /\ parent'[x] = parent[x]
    BY <1>2, <1>5
  <2>4. /\ \A x \in Names : kind[x] \in {"folder", "gone"} => kind'[x] \in {"folder", "gone"}
        /\ \A x \in Names : kind[x] \in {"document", "deleted"} => kind'[x] \in {"document", "deleted"}
    BY <1>4, <1>5
  <2>5. crossed \subseteq crossed' /\ perms' = perms
    BY <1>2
  <2> QED BY <1>8, <1>10, <2>1, <2>2, <2>3, <2>4, <2>5, CallsStay
<1>11. CallInv(r)'
  BY <1>2, Finished
<1> QED BY <1>6, <1>7, <1>9, <1>10, <1>11 DEF FolderInv

LEMMA FolderStepInv == FolderInv /\ [FolderNext]_folderVars => FolderInv'
<1> SUFFICES ASSUME FolderInv, [FolderNext]_folderVars PROVE FolderInv'
  OBVIOUS
<1>1. ASSUME NEW r \in FolderRequests, FolderStep(r) PROVE FolderInv'
  <2>1. CASE FolderCheckStep(r)
    BY <2>1, CheckInv
  <2>2. CASE CreateCommit(r) \/ UploadCommit(r) \/ DeleteFolderCommit(r)
    BY <2>2, InsertCommitInv, DeleteFolderInv
  <2>3. CASE DeleteDocumentCommit(r) \/ GrantCommit(r) \/ FolderCallFails(r)
    BY <2>3, DeleteDocumentInv, GrantCommitInv, FailsInv
  <2> QED BY <1>1, <2>1, <2>2, <2>3 DEF FolderStep, FolderCheckStep
<1>2. CASE UNCHANGED folderVars
  <2>1. UNCHANGED <<kind, parent, path, perms, call, crossed>>
    BY <1>2 DEF folderVars
  <2>2. FolderTypeOK'
    <3>1. FolderTypeOK
      BY DEF FolderInv
    <3> QED BY <2>1, <3>1 DEF FolderTypeOK
  <2>3. \A x \in Names : NodeInv(x)'
    BY <2>1 DEF FolderInv, NodeInv, Exists
  <2>4. \A r \in FolderRequests : CallInv(r)'
    BY <2>1 DEF FolderInv, CallInv, Due, MayGrant, RowsFor
  <2>5. \A i \in DOMAIN perms' : RowInv(i)'
    BY <2>1 DEF FolderInv, RowInv, MayGrant, RowsFor
  <2> QED BY <2>2, <2>3, <2>4, <2>5 DEF FolderInv
<1> QED BY <1>1, <1>2 DEF FolderNext

-----------------------------------------------------------------------------
(* What a user may do stays.                                               *)

LEMMA ClosedChain ==
  ASSUME FolderTypeOK, NEW x \in Names
  PROVE  /\ x \in Chain(x) /\ Chain(x) \subseteq Names
         /\ \A y \in Chain(x) : kind[y] # "gone" /\ parent[y] # Root => parent[y] \in Chain(x)
BY DEF Chain, IsClosed, FolderTypeOK

\* A right is given by the same permissions as long as the folders above stay.
LEMMA RightsByRows ==
  ASSUME NEW u, NEW S, NEW T, S \subseteq T, perms \in Seq(Row),
         DOMAIN perms \subseteq DOMAIN perms', \A j \in DOMAIN perms : perms'[j] = perms[j]
  PROVE  GivenBy(RowsFor(u, S)) \subseteq GivenBy(RowsFor(u, T))'
BY DEF GivenBy, RowsFor

LEMMA EffectiveStays ==
  ASSUME NEW u, NEW x \in Names, Exists(x), Exists(x)', kind'[x] = kind[x], perms \in Seq(Row),
         DOMAIN perms \subseteq DOMAIN perms', \A j \in DOMAIN perms : perms'[j] = perms[j],
         Ancestors(x) \subseteq Ancestors(x)',
         kind[x] = "document" => RowsFor(u, {x}) = RowsFor(u, {x})'
  PROVE  Effective(u, x) \subseteq Effective(u, x)'
<1>1. PICK S : S = Ancestors(x)
  OBVIOUS
<1>2. PICK T : T = Ancestors(x)'
  OBVIOUS
<1>3. GivenBy(RowsFor(u, S)) \subseteq GivenBy(RowsFor(u, T))'
  BY <1>1, <1>2, RightsByRows
<1>4. FolderRights(u, Ancestors(x)) \subseteq FolderRights(u, Ancestors(x))'
  BY <1>1, <1>2, <1>3 DEF FolderRights, GivenBy, RowsFor
<1>5. kind[x] = "document" => GivenBy(RowsFor(u, {x})) = GivenBy(RowsFor(u, {x}))'
  BY DEF GivenBy, RowsFor
<1> QED BY <1>4, <1>5 DEF Effective

\* What a step of a handler may change.
StepKeeps ==
  /\ perms \in Seq(Row) /\ DOMAIN perms \subseteq DOMAIN perms' /\ \A j \in DOMAIN perms : perms'[j] = perms[j]
  /\ \A y \in Names : Exists(y) =>
       /\ kind'[y] \in {kind[y], "gone", "deleted"} /\ (kind[y] = "folder" => kind'[y] # "deleted")
       /\ kind[y] = "document" => kind'[y] # "gone"
       /\ parent'[y] = parent[y] \/ (parent[y] # Root /\ kind'[parent[y]] = "gone")

LEMMA FolderStepKeeps == ASSUME FolderInv, [FolderNext]_folderVars PROVE StepKeeps
<1>0. FolderTypeOK /\ perms \in Seq(Row)
  BY DEF FolderInv, FolderTypeOK, Row
<1>1. CASE UNCHANGED <<kind, parent, perms>>
  BY <1>0, <1>1 DEF StepKeeps, Exists
<1>2. ASSUME NEW r \in FolderRequests, CreateCommit(r) \/ UploadCommit(r) PROVE StepKeeps
  <2>1. PICK what, p : /\ kind' = [kind EXCEPT ![r] = what] /\ parent' = [parent EXCEPT ![r] = p]
                       /\ perms' = perms
    BY <1>2 DEF CreateCommit, UploadCommit, Insert
  <2>2. kind[r] = "none" /\ r \in Names
    BY <1>2, NamesAre DEF CreateCommit, UploadCommit, Due, FolderInv, CallInv
  <2>3. \A y \in Names : Exists(y) => kind'[y] = kind[y] /\ parent'[y] = parent[y]
    BY <1>0, <2>1, <2>2 DEF FolderTypeOK, Exists
  <2> QED BY <1>0, <2>1, <2>3 DEF StepKeeps, Exists
<1>3. ASSUME NEW r \in FolderRequests, DeleteFolderCommit(r) PROVE StepKeeps
  <2>1. PICK f : /\ f = call[r].on /\ Due(r, "delete") /\ kind' = [kind EXCEPT ![f] = "gone"]
                 /\ parent' = [x \in Names |-> IF parent[x] = f THEN Root ELSE parent[x]]
                 /\ perms' = perms
    BY <1>3 DEF DeleteFolderCommit
  <2>2. f \in Names /\ f # Root /\ kind[f] # "document"
    BY <2>1, NamesAre DEF FolderInv, CallInv
  <2>3. kind'[f] = "gone" /\ \A y \in Names : kind'[y] = IF y = f THEN "gone" ELSE kind[y]
    BY <1>0, <2>1, <2>2 DEF FolderTypeOK
  <2>4. \A y \in Names : parent'[y] = IF parent[y] = f THEN Root ELSE parent[y]
    BY <2>1
  <2> QED BY <1>0, <2>1, <2>2, <2>3, <2>4 DEF StepKeeps
<1>4. ASSUME NEW r \in FolderRequests, DeleteDocumentCommit(r) PROVE StepKeeps
  <2>1. PICK d : /\ d = call[r].on /\ Due(r, "delete_document") /\ kind' = [kind EXCEPT ![d] = "deleted"]
                 /\ parent' = parent /\ perms' = perms
    BY <1>4 DEF DeleteDocumentCommit
  <2>2. d \in Names /\ kind[d] # "folder"
    BY <2>1 DEF FolderInv, CallInv
  <2>3. \A y \in Names : kind'[y] = IF y = d THEN "deleted" ELSE kind[y]
    BY <1>0, <2>1, <2>2 DEF FolderTypeOK
  <2> QED BY <1>0, <2>1, <2>2, <2>3 DEF StepKeeps
<1>5. ASSUME NEW r \in FolderRequests, GrantCommit(r) PROVE StepKeeps
  <2>1. PICK row : perms' = Append(perms, row) /\ kind' = kind /\ parent' = parent
    BY <1>5 DEF GrantCommit
  <2>2. FolderInv'
    BY FolderStepInv
  <2>3. perms' \in Seq(Row)
    BY <2>2 DEF FolderInv, FolderTypeOK, Row
  <2>4. DOMAIN perms \subseteq DOMAIN perms' /\ \A j \in DOMAIN perms : perms'[j] = perms[j]
    BY <1>0, <2>1
  <2> QED BY <1>0, <2>1, <2>4 DEF StepKeeps, Exists
<1>6. ASSUME NEW r \in FolderRequests, FolderCheckStep(r) \/ FolderCallFails(r) PROVE StepKeeps
  <2>1. UNCHANGED <<kind, parent, perms>>
    BY <1>6 DEF FolderCheckStep, FolderCallFails, CreateCheck, UploadCheck, DeleteFolderCheck,
                DeleteDocumentCheck, GrantCheck, Ask
  <2> QED BY <1>1, <2>1
<1>7. CASE FolderNext
  BY <1>2, <1>3, <1>4, <1>5, <1>6, <1>7 DEF FolderNext, FolderStep, FolderCheckStep
<1>8. CASE UNCHANGED folderVars
  BY <1>1, <1>8 DEF folderVars
<1> QED BY <1>7, <1>8

\* If no folder above x goes, the chain above x stays.
LEMMA AncestorsStay ==
  ASSUME FolderInv, StepKeeps, NEW x \in Names, Exists(x), \A f \in Ancestors(x) : kind'[f] # "gone"
  PROVE  Ancestors(x) \subseteq Ancestors(x)'
<1>1. \A y \in Chain(x) : Exists(y)
  BY ChainInPath
<1>2. FolderTypeOK /\ x \in Chain(x) /\ Chain(x) \subseteq Names
      /\ \A y \in Chain(x) : parent[y] # Root => parent[y] \in Chain(x)
  BY <1>1, ClosedChain DEF FolderInv, Exists
<1>3. \A y \in Chain(x) : kind'[y] # "gone" /\ (kind[y] = "folder" => kind'[y] = "folder")
  <2> SUFFICES ASSUME NEW y \in Chain(x)
               PROVE  kind'[y] # "gone" /\ (kind[y] = "folder" => kind'[y] = "folder")
    OBVIOUS
  <2>1. CASE kind[y] = "folder"
    BY <1>1, <1>2, <2>1 DEF StepKeeps, Ancestors
  <2>2. CASE kind[y] = "document"
    BY <1>1, <1>2, <2>2 DEF StepKeeps
  <2> QED BY <1>1, <2>1, <2>2 DEF Exists
<1>4. ASSUME NEW y \in Chain(x) PROVE parent'[y] = parent[y]
  <2>1. CASE parent[y] = Root
    BY <1>1, <1>2, <2>1 DEF StepKeeps
  <2>2. CASE parent[y] # Root
    <3>1. kind[parent[y]] = "folder" /\ parent[y] \in Ancestors(x)
      BY <1>1, <1>2, <2>2 DEF FolderInv, NodeInv, Ancestors
    <3> QED BY <1>1, <1>2, <3>1 DEF StepKeeps
  <2> QED BY <2>1, <2>2
<1>5. ASSUME NEW S \in SUBSET Names, x \in S, IsClosed(S)' PROVE Chain(x) \subseteq S
  <2> DEFINE T == S \cap Chain(x)
  <2>1. ASSUME NEW y \in T PROVE parent[y] \in T \cup {Root}
    <3>1. kind'[y] # "gone"
      BY <1>3
    <3>2. parent'[y] \in S \cup {Root} /\ parent'[y] = parent[y]
      BY <1>4, <1>5, <3>1 DEF IsClosed
    <3> QED BY <1>2, <3>2
  <2>2. IsClosed(T) /\ x \in T /\ T \in SUBSET Names
    BY <1>2, <1>5, <2>1 DEF IsClosed
  <2>3. Chain(x) \subseteq T
    BY <2>2 DEF Chain
  <2> QED BY <2>3
<1>6. Chain(x) \subseteq Chain(x)'
  BY <1>2, <1>5 DEF Chain, IsClosed
<1> QED BY <1>3, <1>6 DEF Ancestors

LEMMA RightsStep == FolderInv /\ [FolderNext]_folderVars => RightsAreNotLost
<1> SUFFICES ASSUME FolderInv, [FolderNext]_folderVars, NEW u \in FolderUsers, NEW x \in Names,
                    Exists(x), Exists(x)',
                    ~(kind[x] = "document" /\ RowsFor(u, {x}) # RowsFor(u, {x})'),
                    ~ \E f \in Ancestors(x) : kind'[f] = "gone"
             PROVE  Effective(u, x) \subseteq Effective(u, x)'
  BY DEF RightsAreNotLost
<1>1. StepKeeps
  BY FolderStepKeeps
<1>2. Ancestors(x) \subseteq Ancestors(x)'
  BY <1>1, AncestorsStay
<1>3. kind'[x] = kind[x]
  BY <1>1 DEF StepKeeps, Exists
<1> QED BY <1>1, <1>2, <1>3, EffectiveStays DEF StepKeeps

\* The inductive invariant of folders and permissions: what a check has found
\* and its commit relies on still holds, or the race is on record.
\* (folders.py:66-143)
THEOREM FolderInvariant == FolderSpec => []FolderInv
BY InitFolder, FolderStepInv, PTL DEF FolderSpec

\* Folders, documents and permissions stay well formed.
THEOREM FolderTypes == FolderSpec => []FolderTypeOK
<1>1. FolderInv => FolderTypeOK
  BY DEF FolderInv
<1> QED BY <1>1, FolderInvariant, PTL

\* For any number of folders, documents and calls that cross: what is there
\* lies in a folder that is there, under that folder's path, and a folder
\* becomes a root only when its creation crossed with the deletion of its
\* parent.  (folders.py:66-118)
THEOREM TreeStays == FolderSpec => []FoldersStayInTree
<1>1. FolderInv => FoldersStayInTree
  BY DEF FolderInv, NodeInv, FoldersStayInTree, TreeIsSound, OrphansNeedRaces
<1> QED BY <1>1, FolderInvariant, PTL

\* No interleaving of calls lets in anybody whom nobody entitled let in.
\* (folders.py:129-131, documents.py:335-340)
THEOREM GrantsComeFromWriters == FolderSpec => []GrantsAreDelegated
<1>1. FolderInv => GrantsAreDelegated
  BY DEF FolderInv, RowInv, MayGrant, GrantsAreDelegated
<1> QED BY <1>1, FolderInvariant, PTL

\* No step takes a right away but a permission on the document itself and the
\* deletion of a folder above.  (permissions.py:55-132)
THEOREM RightsAreKept == FolderSpec => RightsStay
BY FolderInvariant, RightsStep, PTL DEF FolderSpec, RightsStay

-----------------------------------------------------------------------------
(* The two in one specification.                                           *)

\* Together the two do nothing that one alone could not do, so that what is
\* proved of each holds of both.  (cross_tenant.py, folders.py)
THEOREM AccessImplements == AccessSpec => Spec /\ FolderSpec
<1>1. AccessInit => Init /\ FolderInit
  BY DEF AccessInit
<1>2. [AccessNext]_accessVars => [Next]_vars /\ [FolderNext]_folderVars
  BY DEF AccessNext, accessVars
<1> QED BY <1>1, <1>2, PTL DEF AccessSpec, Spec, FolderSpec

\* Both decisions are taken on a well-typed state.
THEOREM AccessTypes == AccessSpec => []AccessTypeOK
BY AccessImplements, GrantTypes, FolderTypes, PTL DEF AccessTypeOK
=============================================================================
