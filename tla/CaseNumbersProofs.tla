-------------------------- MODULE CaseNumbersProofs --------------------------
(***************************************************************************)
(* For any number of cases, requests and years: case numbers are unique    *)
(* and dense, and CaseNumbers implements CaseNumbering.                    *)
(***************************************************************************)
EXTENDS CaseNumbers, TLAPS

\* What the lock is worth: a transaction that has a number holds the row of
\* its year, and the committed counter cannot have moved since it was read.
LockInv ==
  \A c \in Cases :
    /\ At(c, "locked") => holder[tx[c].year] = c /\ tx[c].seq = counter[tx[c].year]
    /\ At(c, "numbered") => holder[tx[c].year] = c /\ tx[c].seq = counter[tx[c].year] + 1
    /\ ~At(c, "idle") => number[c] = NoNumber

Inv == TypeOK /\ LockInv /\ NumbersAreUnique /\ NumbersAreDense

\* A record of the set of numbers is never NoNumber.
LEMMA NumberIsSomething ==
  ASSUME NEW y \in Years, NEW s \in Nat
  PROVE  [year |-> y, seq |-> s] # NoNumber
BY CaseAssumption

LEMMA ReleaseType ==
  ASSUME TypeOK, NEW c \in Cases
  PROVE  Release(c) \in [Years -> Cases \cup {NoCase}]
BY DEF TypeOK, Release

LEMMA NoTxType == NoTx \in [at : {"idle", "asked", "missing", "locked", "numbered"}, year : Years, seq : Nat]
BY YearAssumption DEF NoTx

LEMMA InitInv == Init => Inv
<1> SUFFICES ASSUME Init PROVE Inv
  OBVIOUS
<1>1. TypeOK
  BY NoTxType, YearAssumption DEF Init, TypeOK
<1>2. LockInv
  BY DEF Init, LockInv, At, NoTx
<1>3. NumbersAreUnique
  BY DEF Init, NumbersAreUnique
<1>4. NumbersAreDense
  BY DEF Init, NumbersAreDense, Existing
<1> QED BY <1>1, <1>2, <1>3, <1>4 DEF Inv

\* Steps that commit nothing keep what is said of committed rows.
LEMMA QuietStep ==
  ASSUME Inv, UNCHANGED <<counter, number>>
  PROVE  NumbersAreUnique' /\ NumbersAreDense'
<1>1. \A y \in Years : Existing(y)' = Existing(y)
  BY DEF Existing
<1>2. NumbersAreUnique'
  BY DEF Inv, NumbersAreUnique
<1>3. NumbersAreDense'
  BY <1>1 DEF Inv, NumbersAreDense
<1> QED BY <1>2, <1>3

\* A commit appends the next number of its year.
LEMMA CommitStep ==
  ASSUME Inv, NEW c \in Cases, CommitCase(c)
  PROVE  Inv'
<1> DEFINE y == tx[c].year
           n == counter[y]
<1>1. /\ y \in Years /\ n \in Nat /\ tx[c].seq = n + 1
      /\ holder[y] = c /\ number[c] = NoNumber
  BY DEF Inv, TypeOK, LockInv, CommitCase, At
<1>2. /\ number' = [number EXCEPT ![c] = [year |-> y, seq |-> n + 1]]
      /\ counter' = [counter EXCEPT ![y] = n + 1]
      /\ tx' = [tx EXCEPT ![c] = NoTx]
      /\ holder' = Release(c) /\ year' = year
  BY <1>1 DEF CommitCase
<1>3. TypeOK'
  BY <1>1, <1>2, ReleaseType, NoTxType DEF Inv, TypeOK
<1>4. LockInv'
  <2> SUFFICES ASSUME NEW d \in Cases, ~At(d, "idle")'
               PROVE  /\ At(d, "locked")' => holder'[tx'[d].year] = d /\ tx'[d].seq = counter'[tx'[d].year]
                      /\ At(d, "numbered")' => holder'[tx'[d].year] = d /\ tx'[d].seq = counter'[tx'[d].year] + 1
                      /\ number'[d] = NoNumber
    BY DEF LockInv, At
  <2>1. d # c /\ tx'[d] = tx[d] /\ number'[d] = number[d]
    BY <1>2 DEF Inv, TypeOK, At, NoTx
  <2>2. At(d, "locked") \/ At(d, "numbered") => tx[d].year # y /\ holder'[tx[d].year] = d
    BY <1>1, <1>2, <2>1 DEF Inv, TypeOK, LockInv, At, Release
  <2>3. At(d, "locked") \/ At(d, "numbered") => counter'[tx[d].year] = counter[tx[d].year]
    BY <1>2, <2>2 DEF Inv, TypeOK
  <2> QED BY <2>1, <2>2, <2>3 DEF Inv, LockInv, At
<1>5. \A d \in Cases : number[d] # NoNumber /\ number[d].year = y => number[d].seq # n + 1
  <2> SUFFICES ASSUME NEW d \in Cases, number[d] # NoNumber, number[d].year = y
               PROVE  number[d].seq # n + 1
    OBVIOUS
  <2>1. d \in Existing(y)
    BY DEF Existing
  <2>2. number[d].seq \in 1..n
    BY <1>1, <2>1 DEF Inv, NumbersAreDense
  <2> QED BY <1>1, <2>2
<1>6. number'[c] = [year |-> y, seq |-> n + 1] /\ \A d \in Cases \ {c} : number'[d] = number[d]
  BY <1>2 DEF Inv, TypeOK
<1>7. NumbersAreUnique'
  <2> SUFFICES ASSUME NEW d \in Cases, NEW e \in Cases,
                      number'[d] # NoNumber, number'[d] = number'[e], d # e
               PROVE  FALSE
    BY DEF NumbersAreUnique
  <2>1. CASE d = c
    BY <1>5, <1>6, <2>1
  <2>2. CASE e = c
    BY <1>5, <1>6, <2>2
  <2>3. CASE d # c /\ e # c
    BY <1>6, <2>3 DEF Inv, NumbersAreUnique
  <2> QED BY <2>1, <2>2, <2>3
<1>8. NumbersAreDense'
  <2> SUFFICES ASSUME NEW z \in Years
               PROVE  {number'[d].seq : d \in Existing(z)'} = 1..counter'[z]
    BY DEF NumbersAreDense
  <2>1. [year |-> y, seq |-> n + 1] # NoNumber
    BY <1>1, NumberIsSomething
  <2>2. CASE z # y
    <3>1. Existing(z)' = Existing(z)
      BY <1>1, <1>6, <2>2 DEF Existing
    <3>2. \A d \in Existing(z) : number'[d] = number[d]
      BY <1>1, <1>6 DEF Existing
    <3>3. counter'[z] = counter[z]
      BY <1>2, <2>2 DEF Inv, TypeOK
    <3> QED BY <3>1, <3>2, <3>3 DEF Inv, NumbersAreDense
  <2>3. CASE z = y
    <3>1. Existing(z)' = Existing(z) \cup {c} /\ c \notin Existing(z)
      BY <1>1, <1>6, <2>1, <2>3 DEF Existing
    <3>2. {number'[d].seq : d \in Existing(z)'} = {number[d].seq : d \in Existing(z)} \cup {n + 1}
      BY <3>1, <1>6 DEF Existing
    <3>3. counter'[z] = n + 1
      BY <1>1, <1>2, <2>3 DEF Inv, TypeOK
    <3>4. 1..(n + 1) = 1..n \cup {n + 1}
      BY <1>1
    <3> QED BY <1>1, <2>3, <3>2, <3>3, <3>4 DEF Inv, NumbersAreDense
  <2> QED BY <2>2, <2>3
<1> QED BY <1>3, <1>4, <1>7, <1>8 DEF Inv

LEMMA NextInv == Inv /\ [Next]_vars => Inv'
<1> SUFFICES ASSUME Inv, [Next]_vars PROVE Inv'
  OBVIOUS
<1>1. CASE NewYear
  <2>1. TypeOK' /\ LockInv'
    BY <1>1 DEF NewYear, Inv, TypeOK, LockInv, At
  <2> QED BY <1>1, <2>1, QuietStep DEF NewYear, Inv
<1>2. ASSUME NEW c \in Cases, LockCounter(c) PROVE Inv'
  <2>1. TypeOK'
    BY <1>2 DEF LockCounter, Inv, TypeOK
  <2>2. LockInv'
    BY <1>2, CaseAssumption DEF LockCounter, Inv, TypeOK, LockInv, At
  <2> QED BY <1>2, <2>1, <2>2, QuietStep DEF LockCounter, Inv
<1>3. ASSUME NEW c \in Cases, FindNoCounter(c) PROVE Inv'
  <2>1. TypeOK'
    BY <1>3 DEF FindNoCounter, Inv, TypeOK
  <2>2. LockInv'
    BY <1>3 DEF FindNoCounter, Inv, TypeOK, LockInv, At
  <2> QED BY <1>3, <2>1, <2>2, QuietStep DEF FindNoCounter, Inv
<1>4. ASSUME NEW c \in Cases, IncrementCounter(c) PROVE Inv'
  <2>1. TypeOK'
    BY <1>4 DEF IncrementCounter, Inv, TypeOK
  <2>2. LockInv'
    BY <1>4 DEF IncrementCounter, Inv, TypeOK, LockInv, At
  <2> QED BY <1>4, <2>1, <2>2, QuietStep DEF IncrementCounter, Inv
<1>5. ASSUME NEW c \in Cases, InsertCounter(c) PROVE Inv'
  <2>1. TypeOK'
    BY <1>5 DEF InsertCounter, Inv, TypeOK
  <2>2. LockInv'
    BY <1>5, CaseAssumption DEF InsertCounter, Inv, TypeOK, LockInv, At
  <2> QED BY <1>5, <2>1, <2>2, QuietStep DEF InsertCounter, Inv
<1>6. ASSUME NEW c \in Cases, RejectInsert(c) PROVE Inv'
  <2>1. TypeOK'
    BY <1>6, NoTxType DEF RejectInsert, Inv, TypeOK
  <2>2. LockInv'
    BY <1>6 DEF RejectInsert, Inv, TypeOK, LockInv, At, NoTx
  <2> QED BY <1>6, <2>1, <2>2, QuietStep DEF RejectInsert, Inv
<1>7. ASSUME NEW c \in Cases, CommitCase(c) PROVE Inv'
  BY <1>7, CommitStep
<1>8. ASSUME NEW c \in Cases, Rollback(c) PROVE Inv'
  <2>1. TypeOK'
    BY <1>8, NoTxType, ReleaseType DEF Rollback, Inv, TypeOK
  <2>2. LockInv'
    BY <1>8 DEF Rollback, Inv, TypeOK, LockInv, At, NoTx, Release
  <2> QED BY <1>8, <2>1, <2>2, QuietStep DEF Rollback, Inv
<1>9. ASSUME NEW c \in Cases, ReadClock(c) PROVE Inv'
  <2>1. TypeOK'
    BY <1>9 DEF ReadClock, Inv, TypeOK
  <2>2. LockInv'
    BY <1>9 DEF ReadClock, Inv, TypeOK, LockInv, At
  <2> QED BY <1>9, <2>1, <2>2, QuietStep DEF ReadClock, Inv
<1>10. CASE UNCHANGED vars
  <2>1. TypeOK' /\ LockInv'
    BY <1>10 DEF vars, Inv, TypeOK, LockInv, At
  <2> QED BY <1>10, <2>1, QuietStep DEF vars, Inv
<1> QED BY <1>1, <1>2, <1>3, <1>4, <1>5, <1>6, <1>7, <1>8, <1>9, <1>10 DEF Next

LEMMA SpecInv == Spec => []Inv
BY InitInv, NextInv, PTL DEF Spec

\* The state of a creation stays well formed.
THEOREM CaseTypes == Spec => []TypeOK
BY SpecInv, PTL DEF Inv

\* No two cases of a tenant ever carry the same number.
THEOREM UniqueNumbers == Spec => []NumbersAreUnique
BY SpecInv, PTL DEF Inv

\* The numbers of a year have no gap, whatever was rolled back.
THEOREM DenseNumbers == Spec => []NumbersAreDense
BY SpecInv, PTL DEF Inv

\* Every commit is one Issue of CaseNumbering, every other step changes
\* neither the cases nor the committed counters.
THEOREM ImplementsNumbering == Spec => NumberingSpec
<1>1. Init => Numbering!Init
  BY DEF Init, Numbering!Init
<1>2. Inv /\ [Next]_vars => [Numbering!Next]_<<counter, number>>
  <2> SUFFICES ASSUME Inv, Next PROVE Numbering!Next \/ UNCHANGED <<counter, number>>
    BY DEF vars
  <2>1. ASSUME NEW c \in Cases, CommitCase(c) PROVE Numbering!Next
    <3>1. /\ tx[c].year \in Years /\ number[c] = NoNumber
          /\ tx[c].seq = counter[tx[c].year] + 1
      BY <2>1 DEF Inv, TypeOK, LockInv, CommitCase, At
    <3>2. Numbering!Issue(c, tx[c].year)
      BY <2>1, <3>1 DEF CommitCase, Numbering!Issue, Inv, TypeOK
    <3> QED BY <3>1, <3>2 DEF Numbering!Next
  <2> QED BY <2>1 DEF Next, NewYear, ReadClock, LockCounter, FindNoCounter, IncrementCounter,
                      InsertCounter, RejectInsert, Rollback
<1> QED BY <1>1, <1>2, SpecInv, PTL DEF Spec, NumberingSpec, Numbering!Spec, Numbering!vars
=============================================================================
