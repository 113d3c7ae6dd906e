----------------------------- MODULE CaseNumbers -----------------------------
(***************************************************************************)
(* Creation of cases in one tenant of case-service.  create_case draws the *)
(* number from the row (org_id, year) of case_counters: it reads the row   *)
(* with SELECT ... FOR UPDATE, or inserts it when there is none, and       *)
(* commits the counter together with the case.  Requests interleave at     *)
(* every statement, and any of them may be rolled back.                    *)
(***************************************************************************)
EXTENDS Integers

CONSTANTS
  Cases,     \* the cases that may be created, one request each (retried on failure)
  Years,     \* the years of the run
  FirstYear, \* the year in which it starts
  NoCase, NoNumber

ASSUME YearAssumption == Years \subseteq Nat /\ FirstYear \in Years
ASSUME CaseAssumption == NoCase \notin Cases /\ NoNumber \notin [year : Years, seq : Nat]

VARIABLES
  year,     \* the year of the clock
  counter,  \* counter[y]: last_seq of the committed row of year y, 0 without one
  holder,   \* holder[y]: whose transaction has the row of year y locked
  tx,       \* tx[c]: the transaction that creates c
  number    \* number[c]: cases.case_number of the committed case c

vars == <<year, counter, holder, tx, number>>

NoTx == [at |-> "idle", year |-> FirstYear, seq |-> 0]

TypeOK ==
  /\ year \in Years
  /\ counter \in [Years -> Nat]
  /\ holder \in [Years -> Cases \cup {NoCase}]
  /\ tx \in [Cases -> [at : {"idle", "asked", "missing", "locked", "numbered"}, year : Years, seq : Nat]]
  /\ number \in [Cases -> [year : Years, seq : Nat] \cup {NoNumber}]

Init ==
  /\ year = FirstYear
  /\ counter = [y \in Years |-> 0]
  /\ holder = [y \in Years |-> NoCase]
  /\ tx = [c \in Cases |-> NoTx]
  /\ number = [c \in Cases |-> NoNumber]

-----------------------------------------------------------------------------
At(c, at) == tx[c].at = at
Release(c) == [y \in Years |-> IF holder[y] = c THEN NoCase ELSE holder[y]]

\* next_case_number takes the year first: the SELECT that follows may have to
\* wait into the next one.
ReadClock(c) ==
  /\ At(c, "idle") /\ number[c] = NoNumber
  /\ tx' = [tx EXCEPT ![c] = [at |-> "asked", year |-> year, seq |-> 0]]
  /\ UNCHANGED <<year, counter, holder, number>>

\* Faulty variant: SELECT without FOR UPDATE.
LockCounterShared(c) ==
  /\ At(c, "asked")
  /\ counter[tx[c].year] > 0
  /\ tx' = [tx EXCEPT ![c].at = "locked", ![c].seq = counter[tx[c].year]]
  /\ UNCHANGED <<year, counter, holder, number>>

\* SELECT ... FOR UPDATE finds the row.  It waits for a transaction that has
\* the row locked, and then reads what that transaction committed.
LockCounter(c) ==
  /\ At(c, "asked")
  /\ counter[tx[c].year] > 0 /\ holder[tx[c].year] = NoCase
  /\ holder' = [holder EXCEPT ![tx[c].year] = c]
  /\ tx' = [tx EXCEPT ![c].at = "locked", ![c].seq = counter[tx[c].year]]
  /\ UNCHANGED <<year, counter, number>>

\* ... or finds no row: there is nothing to lock.
FindNoCounter(c) ==
  /\ At(c, "asked")
  /\ counter[tx[c].year] = 0
  /\ tx' = [tx EXCEPT ![c].at = "missing"]
  /\ UNCHANGED <<year, counter, holder, number>>

\* Faulty variant: the increment is committed before the case.
IncrementCounterAtOnce(c) ==
  /\ At(c, "locked")
  /\ tx' = [tx EXCEPT ![c].at = "numbered", ![c].seq = @ + 1]
  /\ counter' = [counter EXCEPT ![tx[c].year] = @ + 1]
  /\ UNCHANGED <<year, holder, number>>

IncrementCounter(c) ==
  /\ At(c, "locked")
  /\ tx' = [tx EXCEPT ![c].at = "numbered", ![c].seq = @ + 1]
  /\ UNCHANGED <<year, counter, holder, number>>

\* The flush inserts the first row of the year; it waits while another
\* transaction has inserted one and not ended.
InsertCounter(c) ==
  /\ At(c, "missing")
  /\ counter[tx[c].year] = 0 /\ holder[tx[c].year] = NoCase
  /\ holder' = [holder EXCEPT ![tx[c].year] = c]
  /\ tx' = [tx EXCEPT ![c].at = "numbered", ![c].seq = 1]
  /\ UNCHANGED <<year, counter, number>>

\* The row was committed meanwhile: the primary key refuses a second one and
\* the request ends with an error.
RejectInsert(c) ==
  /\ At(c, "missing")
  /\ counter[tx[c].year] > 0
  /\ tx' = [tx EXCEPT ![c] = NoTx]
  /\ UNCHANGED <<year, counter, holder, number>>

\* Faulty variant: the case is committed and the counter is not.
CommitCaseOnly(c) ==
  /\ At(c, "numbered")
  /\ number' = [number EXCEPT ![c] = [year |-> tx[c].year, seq |-> tx[c].seq]]
  /\ holder' = Release(c)
  /\ tx' = [tx EXCEPT ![c] = NoTx]
  /\ UNCHANGED <<year, counter>>

\* Case, owner, timeline entry and counter in one commit.  The UNIQUE on
\* case_number is left out: NumbersAreUnique shows that it never refuses.
CommitCase(c) ==
  /\ At(c, "numbered")
  /\ number' = [number EXCEPT ![c] = [year |-> tx[c].year, seq |-> tx[c].seq]]
  /\ counter' = [counter EXCEPT ![tx[c].year] = tx[c].seq]
  /\ holder' = Release(c)
  /\ tx' = [tx EXCEPT ![c] = NoTx]
  /\ UNCHANGED year

\* Faulty variant: a failed request takes its number back by hand.
RollbackGivingBack(c) ==
  /\ ~At(c, "idle")
  /\ counter' = [counter EXCEPT ![tx[c].year] = @ - 1]
  /\ holder' = Release(c)
  /\ tx' = [tx EXCEPT ![c] = NoTx]
  /\ UNCHANGED <<year, number>>

\* Any statement fails, the client goes away or the process dies.
Rollback(c) ==
  /\ ~At(c, "idle")
  /\ holder' = Release(c)
  /\ tx' = [tx EXCEPT ![c] = NoTx]
  /\ UNCHANGED <<year, counter, number>>

NewYear ==
  /\ year + 1 \in Years
  /\ year' = year + 1
  /\ UNCHANGED <<counter, holder, tx, number>>

Next ==
  \/ NewYear
  \/ \E c \in Cases :
       \/ ReadClock(c) \/ LockCounter(c) \/ FindNoCounter(c)
       \/ IncrementCounter(c) \/ InsertCounter(c) \/ RejectInsert(c)
       \/ CommitCase(c) \/ Rollback(c)

Spec == Init /\ [][Next]_vars

-----------------------------------------------------------------------------
Existing(y) == {c \in Cases : number[c] # NoNumber /\ number[c].year = y}

\* Two cases never carry the same number, however their requests interleave
\* and fail, also when the first two cases of a year race for the counter row
\* that does not exist yet.  (case_numbers.py:4-5)
NumbersAreUnique ==
  \A c, d \in Cases : number[c] # NoNumber /\ number[c] = number[d] => c = d

\* The numbers of a year are 1..last_seq: a request that is rolled back leaves
\* no gap.  (README.md:11, "to prevent gaps or duplicates")
NumbersAreDense == \A y \in Years : {number[c].seq : c \in Existing(y)} = 1..counter[y]

\* The code implements CaseNumbering, with the counter row as its count.
Numbering == INSTANCE CaseNumbering WITH issued <- counter
NumberingSpec == Numbering!Spec
=============================================================================
