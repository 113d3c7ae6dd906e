-------------------------- MODULE AuditStreamProofs --------------------------
(***************************************************************************)
(* For any events, consumers, batch size, retention and faults: what was   *)
(* acknowledged is stored or archived, copies need faults, and partitions  *)
(* are kept for their time.                                                *)
(***************************************************************************)
EXTENDS AuditStream, FiniteSetTheorems, TLAPS

\* The entries at the positions after m, up to n.
Between(m, n) == {e \in Events : id[e] > m /\ id[e] <= n}

\* The stream is a sequence: its positions are 1, 2, 3, ... and each holds
\* one entry.
StreamInv ==
  /\ \A e, f \in Entries : id[e] = id[f] => e = f
  /\ {id[e] : e \in Entries} = 1 .. Cardinality(Entries)

-----------------------------------------------------------------------------
(* Counting entries.                                                       *)

LEMMA EntriesFinite ==
  /\ IsFiniteSet(Entries) /\ Cardinality(Entries) \in Nat
  /\ Cardinality(Entries) <= Cardinality(Events) /\ Cardinality(Events) \in Nat
<1>1. Entries \in SUBSET Events
  BY DEF Entries
<1> QED BY <1>1, FS_Subset, FS_CardinalityType, StreamAssumption

\* Between two positions there are as many entries as positions.
LEMMA BetweenCounts ==
  ASSUME StreamInv, id \in [Events -> Nat],
         NEW m \in Nat, NEW n \in Nat, m <= n, n <= Cardinality(Entries)
  PROVE  IsFiniteSet(Between(m, n)) /\ Cardinality(Between(m, n)) = n - m
<1> DEFINE S == Between(m, n)
           f == [e \in S |-> id[e]]
<1>1. S \subseteq Entries
  BY DEF Between, Entries
<1>2. f \in [S -> m + 1 .. n]
  BY DEF Between
<1>3. \A e, g \in S : f[e] = f[g] => e = g
  BY <1>1 DEF StreamInv
<1>4. \A k \in m + 1 .. n : \E e \in S : f[e] = k
  <2> SUFFICES ASSUME NEW k \in m + 1 .. n PROVE \E e \in S : f[e] = k
    OBVIOUS
  <2>1. k \in 1 .. Cardinality(Entries)
    BY EntriesFinite
  <2>2. PICK e \in Entries : id[e] = k
    BY <2>1 DEF StreamInv
  <2>3. e \in S
    BY <2>2 DEF Between, Entries
  <2> QED BY <2>2, <2>3
<1>5. f \in Bijection(S, m + 1 .. n)
  BY <1>2, <1>3, <1>4 DEF Bijection, Injection, Surjection, IsInjective
<1>6. IsFiniteSet(S)
  BY <1>1, EntriesFinite, FS_Subset
<1>7. Cardinality(m + 1 .. n) = Cardinality(S)
  BY <1>5, <1>6, FS_Bijection DEF ExistsBijection
<1>8. Cardinality(m + 1 .. n) = n - m
  <2>1. m + 1 \in Int /\ n \in Int
    OBVIOUS
  <2>2. Cardinality(m + 1 .. n) = IF m + 1 > n THEN 0 ELSE n - (m + 1) + 1
    BY <2>1, FS_Interval
  <2> QED BY <2>2
<1> QED BY <1>6, <1>7, <1>8

\* What XREADGROUP > delivers is the next stretch of the stream, and the
\* group's position moves to its end.
LEMMA OldestUndelivered ==
  ASSUME StreamInv, id \in [Events -> Nat], cursor \in 0 .. Cardinality(Entries)
  PROVE  \E m \in Nat :
           /\ cursor <= m /\ m <= Cardinality(Entries)
           /\ Oldests(Undelivered) = Between(cursor, m)
           /\ cursor + Cardinality(Oldests(Undelivered)) = m
           /\ IsFiniteSet(Oldests(Undelivered))
           /\ Cardinality(Oldests(Undelivered)) <= BatchSize
<1> DEFINE n == Cardinality(Entries)
           m == IF cursor + BatchSize <= n THEN cursor + BatchSize ELSE n
<1>1. n \in Nat /\ cursor \in Nat /\ BatchSize \in Nat \ {0}
  BY EntriesFinite, StreamAssumption
<1>2. m \in Nat /\ cursor <= m /\ m <= n /\ m - cursor <= BatchSize
  BY <1>1
<1>3. \A e \in Undelivered : id[e] \in Nat /\ id[e] > cursor /\ id[e] <= n
  <2> SUFFICES ASSUME NEW e \in Undelivered PROVE id[e] \in Nat /\ id[e] > cursor /\ id[e] <= n
    OBVIOUS
  <2>1. id[e] \in Nat /\ id[e] > cursor /\ e \in Entries
    BY <1>1 DEF Undelivered, Entries
  <2>2. id[e] \in 1 .. n
    BY <2>1 DEF StreamInv
  <2> QED BY <2>1, <2>2
<1>4. ASSUME NEW e \in Undelivered
      PROVE  Cardinality({f \in Undelivered : id[f] < id[e]}) = id[e] - cursor - 1
  <2>1. {f \in Undelivered : id[f] < id[e]} = Between(cursor, id[e] - 1)
    BY <1>1, <1>3 DEF Undelivered, Between
  <2>2. id[e] - 1 \in Nat /\ cursor <= id[e] - 1 /\ id[e] - 1 <= n
    BY <1>1, <1>3
  <2>3. Cardinality(Between(cursor, id[e] - 1)) = (id[e] - 1) - cursor
    BY <1>1, <2>2, BetweenCounts
  <2> QED BY <1>1, <1>3, <2>1, <2>3
<1>5. ASSUME NEW e \in Undelivered
      PROVE  e \in Oldests(Undelivered) <=> id[e] <= m
  <2>1. e \in Oldests(Undelivered) <=> id[e] - cursor - 1 < BatchSize
    BY <1>4 DEF Oldests
  <2> QED BY <1>1, <1>3, <2>1
<1>6. Oldests(Undelivered) = Between(cursor, m)
  BY <1>5 DEF Oldests, Undelivered, Between
<1>7. IsFiniteSet(Between(cursor, m)) /\ Cardinality(Between(cursor, m)) = m - cursor
  BY <1>1, <1>2, BetweenCounts
<1> QED BY <1>1, <1>2, <1>6, <1>7

\* A set that is no larger than a batch is a batch.
LEMMA WholeBatch ==
  ASSUME NEW S, IsFiniteSet(S), Cardinality(S) <= BatchSize, \A e \in S : id[e] \in Nat
  PROVE  Oldests(S) = S
<1> SUFFICES ASSUME NEW e \in S PROVE Cardinality({f \in S : id[f] < id[e]}) < BatchSize
  BY DEF Oldests
<1> DEFINE T == {f \in S : id[f] < id[e]}
<1>1. T \in SUBSET S /\ e \notin T
  OBVIOUS
<1>2. Cardinality(T) <= Cardinality(S) /\ (Cardinality(S) = Cardinality(T) => S = T) /\ IsFiniteSet(T)
  BY <1>1, FS_Subset
<1>3. Cardinality(S) \in Nat /\ Cardinality(T) \in Nat
  BY <1>2, FS_CardinalityType
<1> QED BY <1>1, <1>2, <1>3, StreamAssumption

\* A new entry goes to the end of the stream.
LEMMA EmitStream ==
  ASSUME StreamInv, id \in [Events -> 0 .. Cardinality(Events)], NEW e \in Events, id[e] = 0,
         id' = [id EXCEPT ![e] = Cardinality(Entries) + 1]
  PROVE  /\ Entries' = Entries \cup {e}
         /\ Cardinality(Entries') = Cardinality(Entries) + 1
         /\ id' \in [Events -> 0 .. Cardinality(Events)]
         /\ StreamInv'
<1> DEFINE n == Cardinality(Entries)
<1>1. e \notin Entries /\ n \in Nat /\ Cardinality(Events) \in Nat
  BY EntriesFinite DEF Entries
<1>2. id'[e] = n + 1 /\ \A f \in Events \ {e} : id'[f] = id[f]
  OBVIOUS
<1>3. Entries' = Entries \cup {e}
  BY <1>1, <1>2 DEF Entries
<1>4. Cardinality(Entries \cup {e}) = n + 1
  BY <1>1, EntriesFinite, FS_AddElement
<1>5. n + 1 <= Cardinality(Events)
  <2>1. Entries \cup {e} \in SUBSET Events
    BY DEF Entries
  <2> QED BY <1>4, <2>1, FS_Subset, StreamAssumption
<1>6. id' \in [Events -> 0 .. Cardinality(Events)]
  BY <1>1, <1>5
<1>7. \A f \in Entries : f \in Events /\ id[f] \in 1..n
  BY DEF StreamInv, Entries
<1>8. \A f, g \in Entries' : id'[f] = id'[g] => f = g
  <2> SUFFICES ASSUME NEW f \in Entries \cup {e}, NEW g \in Entries \cup {e}, id'[f] = id'[g] PROVE f = g
    BY <1>3
  <2>1. CASE f = e
    BY <1>1, <1>2, <1>7, <2>1
  <2>2. CASE g = e
    BY <1>1, <1>2, <1>7, <2>2
  <2>3. CASE f # e /\ g # e
    BY <1>2, <1>7, <2>3 DEF StreamInv
  <2> QED BY <2>1, <2>2, <2>3
<1>9. {id'[f] : f \in Entries'} = 1 .. (n + 1)
  <2>1. {id'[f] : f \in Entries'} = {id[f] : f \in Entries} \cup {n + 1}
    BY <1>1, <1>2, <1>3, <1>7
  <2>2. 1 .. (n + 1) = 1 .. n \cup {n + 1}
    BY <1>1
  <2> QED BY <2>1, <2>2 DEF StreamInv
<1> QED BY <1>3, <1>4, <1>6, <1>8, <1>9 DEF StreamInv
-----------------------------------------------------------------------------
(* The inductive invariant.                                                *)

\* An entry is stored after it was delivered, as often as calls failed and
\* once more; an archived one has its rows until its partition is gone; one
\* that may still be inserted is younger than what the archiver takes.
EventInv(e) ==
  /\ rows[e] > 0 \/ e \in archive => id[e] \in 1 .. cursor
  /\ rows[e] <= 1 + faults
  /\ e \in archive => rows[e] > 0 \/ time[e] \notin partitions
  /\ time[e] <= month
  /\ e \in InFlight => month <= time[e] + Lag
  /\ Acked(e) /\ e \notin Malformed => Kept(e)

\* What is pending for c fits into a batch, was delivered and is pending for
\* no other consumer.  What c has not inserted has rows only from failures;
\* what it has inserted is kept.
ConsumerInv(c) ==
  /\ IsFiniteSet(pending[c]) /\ Cardinality(pending[c]) <= BatchSize
  /\ \A e \in pending[c] :
       /\ id[e] \in 1 .. cursor
       /\ consumer[c] = "reading" => rows[e] <= faults
       /\ consumer[c] = "inserted" /\ e \notin Malformed => Kept(e)
       /\ \A d \in Consumers \ {c} : e \notin pending[d]

\* The archiver works on partitions older than the retention, and what it is
\* about to drop is in the bucket.
ArchiverInv ==
  archiver # NoArchiver =>
    /\ archiver.keep + Retention <= month + 1
    /\ archiver.at = "exported" =>
         /\ archiver.part < archiver.keep
         /\ \A e \in Events : time[e] = archiver.part /\ rows[e] > 0 => e \in archive

AuditInv ==
  /\ TypeOK
  /\ StreamInv
  /\ \A e \in Events : EventInv(e)
  /\ \A c \in Consumers : ConsumerInv(c)
  /\ ArchiverInv

LEMMA InitAudit == Init => AuditInv
<1> SUFFICES ASSUME Init PROVE AuditInv
  OBVIOUS
<1> USE MonthAssumption, RetentionAssumption, StreamAssumption
<1>1. Entries = {}
  BY DEF Init, Entries
<1>2. Cardinality(Entries) = 0 /\ Cardinality(Events) \in Nat
  BY <1>1, FS_EmptySet, FS_CardinalityType
<1>3. archiver = NoArchiver /\ NoArchiver.at = "idle" /\ NoArchiver.keep = 0 /\ NoArchiver.part = 0
  BY DEF Init, PartitionInit, NoArchiver
<1>4. tasks \in SUBSET Task
  BY DEF Init, PartitionInit, Task
<1>5. PartitionTypeOK
  <2>1. archiver \in [at : {"idle", "selecting", "exported"}, keep : Int, part : Nat]
    BY DEF Init, PartitionInit, NoArchiver
  <2> QED BY <1>4, <2>1 DEF Init, PartitionInit, PartitionTypeOK
<1>6. TypeOK
  BY <1>2, <1>5 DEF Init, TypeOK
<1>7. StreamInv
  BY <1>1, <1>2 DEF StreamInv
<1>8. ASSUME NEW e \in Events PROVE EventInv(e)
  <2>1. rows[e] = 0 /\ time[e] = 0 /\ id[e] = 0 /\ archive = {} /\ cursor = 0 /\ month \in Nat /\ faults = 0
    BY DEF Init, PartitionInit
  <2> QED BY <1>1, <2>1 DEF EventInv, InFlight, Acked
<1>9. ASSUME NEW c \in Consumers PROVE ConsumerInv(c)
  <2>1. pending[c] = {}
    BY DEF Init
  <2> QED BY <2>1, FS_EmptySet DEF ConsumerInv
<1> QED BY <1>3, <1>6, <1>7, <1>8, <1>9 DEF AuditInv, ArchiverInv

\* The types of the state, spelled out for the provers.
LEMMA Types ==
  ASSUME AuditInv
  PROVE  /\ month \in Nat /\ cursor \in Nat /\ faults \in Nat
         /\ \A e \in Events : time[e] \in Nat /\ rows[e] \in Nat /\ id[e] \in Nat
         /\ archiver.keep \in Int /\ archiver.part \in Nat
         /\ Retention \in Nat /\ Lag \in Nat /\ BatchSize \in Nat
         /\ archive \in SUBSET Events
         /\ \A c \in Consumers : pending[c] \in SUBSET Events
         /\ Cardinality(Entries) \in Nat /\ cursor <= Cardinality(Entries)
<1>1. Cardinality(Entries) \in Nat
  BY EntriesFinite
<1> QED BY <1>1, MonthAssumption, RetentionAssumption, StreamAssumption DEF AuditInv, TypeOK, PartitionTypeOK

LEMMA EmitInv == ASSUME AuditInv, NEW e \in Events, Emit(e) PROVE AuditInv'
<1> DEFINE n == Cardinality(Entries)
<1>1. /\ id[e] = 0 /\ id' = [id EXCEPT ![e] = n + 1] /\ time' = [time EXCEPT ![e] = month]
      /\ UNCHANGED <<month, partitions, tasks, archiver, archive, rows, faults, cursor, pending, consumer>>
  BY DEF Emit, partitionVars
<1>2. id \in [Events -> 0 .. Cardinality(Events)] /\ StreamInv /\ TypeOK
  BY DEF AuditInv, TypeOK
<1>3. /\ Entries' = Entries \cup {e} /\ Cardinality(Entries') = n + 1
      /\ id' \in [Events -> 0 .. Cardinality(Events)] /\ StreamInv'
  BY <1>1, <1>2, EmitStream
<1>4. e \notin Entries /\ e \in Entries' /\ id'[e] = n + 1 /\ time'[e] = month /\ rows[e] = 0 /\ e \notin archive
  BY <1>1, <1>2, <1>3, Types DEF AuditInv, EventInv, Entries, TypeOK, PartitionTypeOK
<1>5. \A f \in Events \ {e} : id'[f] = id[f] /\ time'[f] = time[f] /\ (f \in Entries' <=> f \in Entries)
  BY <1>1, <1>2, <1>3 DEF TypeOK, PartitionTypeOK
<1>6. \A c \in Consumers : e \notin pending[c]
  BY <1>1, Types DEF AuditInv, ConsumerInv
<1>7. TypeOK'
  <2>1. time' \in [Events -> 0 .. LastMonth]
    BY <1>1, <1>2, MonthAssumption DEF TypeOK, PartitionTypeOK
  <2>2. PartitionTypeOK'
    BY <1>1, <1>2, <2>1 DEF TypeOK, PartitionTypeOK
  <2> QED BY <1>1, <1>2, <1>3, <2>2, Types DEF TypeOK
<1>8. ASSUME NEW f \in Events PROVE EventInv(f)'
  <2>1. CASE f = e
    <3>1. id'[f] > cursor'
      BY <1>1, <1>4, <2>1, Types
    <3> QED BY <1>1, <1>4, <2>1, <3>1, Types DEF EventInv, InFlight, Acked
  <2>2. CASE f # e
    <3>1. EventInv(f)
      BY DEF AuditInv
    <3>2. f \in InFlight' <=> f \in InFlight
      BY <1>1, <1>5, <2>2 DEF InFlight
    <3>3. Acked(f)' <=> Acked(f)
      BY <1>1, <1>5, <2>2 DEF Acked
    <3> QED BY <1>1, <1>5, <2>2, <3>1, <3>2, <3>3 DEF EventInv, Kept
  <2> QED BY <2>1, <2>2
<1>9. ASSUME NEW c \in Consumers PROVE ConsumerInv(c)'
  <2>1. ConsumerInv(c) /\ pending[c] \in SUBSET Events
    BY Types DEF AuditInv
  <2> QED BY <1>1, <1>5, <1>6, <2>1 DEF ConsumerInv, Kept
<1>10. ArchiverInv'
  <2>1. CASE archiver = NoArchiver
    BY <1>1, <2>1 DEF ArchiverInv
  <2>2. CASE archiver # NoArchiver
    BY <1>1, <1>4, <1>5, <2>2 DEF AuditInv, ArchiverInv
  <2> QED BY <2>1, <2>2
<1> QED BY <1>3, <1>7, <1>8, <1>9, <1>10 DEF AuditInv

LEMMA ReadNewInv == ASSUME AuditInv, NEW c \in Consumers, ReadNew(c) PROVE AuditInv'
<1> DEFINE O == Oldests(Undelivered)
<1>1. /\ consumer[c] = "reading" /\ pending[c] = {} /\ pending' = [pending EXCEPT ![c] = O]
      /\ cursor' = cursor + Cardinality(O)
      /\ UNCHANGED <<month, partitions, tasks, archiver, archive, time, rows, faults, id, consumer>>
  BY DEF ReadNew, Deliver, allPartitionVars, partitionVars
<1>2. TypeOK /\ StreamInv /\ id \in [Events -> Nat] /\ cursor \in 0 .. Cardinality(Entries)
  BY Types DEF AuditInv, TypeOK
<1>3. PICK m \in Nat : /\ cursor <= m /\ m <= Cardinality(Entries) /\ O = Between(cursor, m) /\ cursor' = m
                       /\ IsFiniteSet(O) /\ Cardinality(O) <= BatchSize
  BY <1>1, <1>2, OldestUndelivered
<1>4. Entries' = Entries
  BY <1>1 DEF Entries
<1>5. pending'[c] = O /\ \A d \in Consumers \ {c} : pending'[d] = pending[d]
  BY <1>1, <1>2 DEF TypeOK
<1>6. O \in SUBSET Events /\ \A e \in O : id[e] \in Nat /\ id[e] > cursor /\ id[e] <= m
  BY <1>2, <1>3 DEF Between
<1>7. ASSUME NEW e \in O PROVE rows[e] = 0 /\ \A d \in Consumers : e \notin pending[d]
  <2>1. e \in Events /\ id[e] \notin 1 .. cursor
    BY <1>6, Types
  <2>2. rows[e] = 0
    BY <2>1, Types DEF AuditInv, EventInv
  <2>3. \A d \in Consumers : e \notin pending[d]
    BY <2>1 DEF AuditInv, ConsumerInv
  <2> QED BY <2>2, <2>3
<1>8. TypeOK'
  <2>1. PartitionTypeOK'
    BY <1>1, <1>2 DEF TypeOK, PartitionTypeOK
  <2>2. pending' \in [Consumers -> SUBSET Events]
    BY <1>1, <1>2, <1>6 DEF TypeOK
  <2> QED BY <1>1, <1>2, <1>3, <1>4, <2>1, <2>2 DEF TypeOK
<1>9. StreamInv'
  BY <1>1, <1>2, <1>4 DEF StreamInv
<1>10. ASSUME NEW e \in Events PROVE EventInv(e)'
  <2>1. EventInv(e) /\ id[e] \in Nat
    BY Types DEF AuditInv
  <2>2. e \in InFlight' => e \in InFlight
    <3>1. ASSUME e \in Entries, NEW d \in Consumers, consumer[d] # "dead", e \in pending'[d] PROVE e \in InFlight
      BY <1>5, <1>6, <3>1 DEF InFlight
    <3>2. ASSUME e \in Entries, id[e] > cursor' PROVE e \in InFlight
      BY <1>3, <2>1, <3>2, Types DEF InFlight
    <3> QED BY <1>1, <1>4, <3>1, <3>2 DEF InFlight
  <2>3. Acked(e)' => Acked(e)
    <3> SUFFICES ASSUME Acked(e)' PROVE Acked(e)
      OBVIOUS
    <3>1. id[e] \in 1 .. m /\ \A d \in Consumers : e \notin pending'[d]
      BY <1>1, <1>3 DEF Acked
    <3>2. id[e] <= cursor
      BY <1>3, <1>5, <3>1, Types DEF Between
    <3> QED BY <1>1, <1>5, <3>1, <3>2, Types DEF Acked
  <2> QED BY <1>1, <1>3, <2>1, <2>2, <2>3, Types DEF EventInv, Kept
<1>11. ASSUME NEW d \in Consumers PROVE ConsumerInv(d)'
  <2>1. CASE d = c
    <3>1. \A e \in O : /\ id'[e] \in 1 .. cursor' /\ rows'[e] <= faults'
                       /\ \A f \in Consumers \ {c} : e \notin pending'[f]
      BY <1>1, <1>3, <1>5, <1>6, <1>7, Types
    <3> QED BY <1>1, <1>3, <1>5, <2>1, <3>1 DEF ConsumerInv
  <2>2. CASE d # c
    <3>1. ConsumerInv(d) /\ pending'[d] = pending[d] /\ pending[d] \in SUBSET Events
      BY <1>5, <2>2, Types DEF AuditInv
    <3>2. \A e \in pending[d] : e \notin O
      BY <1>7
    <3>3. \A e \in pending[d] : \A f \in Consumers \ {d} : e \notin pending'[f]
      BY <1>5, <3>1, <3>2 DEF ConsumerInv
    <3>4. \A e \in pending[d] : id'[e] \in 1 .. cursor'
      BY <1>1, <1>3, <3>1, Types DEF ConsumerInv
    <3>5. \A e \in pending[d] : Kept(e)' <=> Kept(e)
      BY <1>1 DEF Kept
    <3> QED BY <1>1, <3>1, <3>3, <3>4, <3>5 DEF ConsumerInv
  <2> QED BY <2>1, <2>2
<1>12. ArchiverInv'
  BY <1>1 DEF AuditInv, ArchiverInv
<1> QED BY <1>8, <1>9, <1>10, <1>11, <1>12 DEF AuditInv

\* What a batch that is inserted changes.
LEMMA InsertRows ==
  ASSUME AuditInv, NEW c \in Consumers, consumer[c] = "reading", Insert(Batch(c))
  PROVE  /\ Batch(c) = pending[c]
         /\ rows' \in [Events -> Nat]
         /\ \A e \in Events \ Valid(pending[c]) : rows'[e] = rows[e]
         /\ \A e \in Valid(pending[c]) :
              /\ rows'[e] = rows[e] + 1 /\ rows'[e] > 0 /\ rows'[e] <= faults + 1
              /\ id[e] \in 1 .. cursor
              /\ archiver # NoArchiver /\ archiver.at = "exported" => time[e] # archiver.part
         /\ \A d \in Consumers \ {c} : \A e \in pending[d] : e \notin Valid(pending[c])
<1>1. Batch(c) = pending[c]
  BY WholeBatch, Types DEF AuditInv, ConsumerInv, Batch
<1>2. rows' = [e \in Events |-> IF e \in Valid(pending[c]) THEN rows[e] + 1 ELSE rows[e]]
  BY <1>1 DEF Insert
<1>3. Valid(pending[c]) \in SUBSET Events
  BY Types DEF Valid
<1>4. ASSUME NEW e \in Valid(pending[c])
      PROVE  /\ rows[e] <= faults /\ rows[e] \in Nat /\ id[e] \in 1 .. cursor
             /\ archiver # NoArchiver /\ archiver.at = "exported" => time[e] # archiver.part
  <2>1. e \in pending[c] /\ e \in Events
    BY <1>3 DEF Valid
  <2>2. rows[e] <= faults /\ rows[e] \in Nat /\ id[e] \in 1 .. cursor
    BY <2>1, Types DEF AuditInv, ConsumerInv
  <2>3. month <= time[e] + Lag
    <3>1. e \in Entries
      BY <2>1, <2>2, Types DEF Entries
    <3>2. e \in InFlight
      BY <2>1, <3>1 DEF InFlight
    <3> QED BY <2>1, <3>2 DEF AuditInv, EventInv
  <2>4. ASSUME archiver # NoArchiver, archiver.at = "exported" PROVE time[e] # archiver.part
    <3>1. archiver.keep + Retention <= month + 1 /\ archiver.part < archiver.keep
      BY <2>4 DEF AuditInv, ArchiverInv
    <3> QED BY <2>1, <2>3, <3>1, Types, StreamAssumption
  <2> QED BY <2>2, <2>4
<1>5. \A d \in Consumers \ {c} : \A e \in pending[d] : e \notin Valid(pending[c])
  BY DEF AuditInv, ConsumerInv, Valid
<1>6. \A e \in Events : rows[e] \in Nat
  BY Types
<1>7. rows' \in [Events -> Nat]
  BY <1>2, <1>6
<1>8. \A e \in Valid(pending[c]) : rows'[e] = rows[e] + 1 /\ rows'[e] > 0 /\ rows'[e] <= faults + 1
  BY <1>2, <1>3, <1>4, Types
<1> QED BY <1>1, <1>2, <1>3, <1>4, <1>5, <1>7, <1>8

\* A batch in the table, with or without the answer to the commit.
LEMMA InsertInv ==
  ASSUME AuditInv, NEW c \in Consumers, consumer[c] = "reading", Insert(Batch(c)),
         UNCHANGED <<month, partitions, tasks, archiver, archive, time, id, cursor, pending>>,
         \/ consumer' = [consumer EXCEPT ![c] = "inserted"] /\ faults' = faults
         \/ consumer' = consumer /\ faults' = faults + 1 /\ faults < MaxFaults
  PROVE  AuditInv'
<1>1. /\ rows' \in [Events -> Nat]
      /\ \A e \in Events \ Valid(pending[c]) : rows'[e] = rows[e]
      /\ \A e \in Valid(pending[c]) :
           /\ rows'[e] = rows[e] + 1 /\ rows'[e] > 0 /\ rows'[e] <= faults + 1
           /\ id[e] \in 1 .. cursor
           /\ archiver # NoArchiver /\ archiver.at = "exported" => time[e] # archiver.part
      /\ \A d \in Consumers \ {c} : \A e \in pending[d] : e \notin Valid(pending[c])
  BY InsertRows
<1>2. TypeOK /\ StreamInv /\ Entries' = Entries
  BY DEF AuditInv, Entries
<1>3. faults' \in Nat /\ faults <= faults'
  BY Types
<1>4. \A d \in Consumers : (consumer'[d] = "dead" <=> consumer[d] = "dead") /\ (d # c => consumer'[d] = consumer[d])
  BY <1>2 DEF TypeOK
<1>5. consumer'[c] = "reading" => faults' = faults + 1
  BY <1>2 DEF TypeOK
<1>6. TypeOK'
  <2>1. consumer' \in [Consumers -> {"reading", "inserted", "dead"}]
    BY <1>2 DEF TypeOK
  <2>2. faults' \in 0 .. MaxFaults
    BY <1>2, RetentionAssumption, Types DEF TypeOK, PartitionTypeOK
  <2>3. PartitionTypeOK'
    BY <1>1, <1>2, <2>2 DEF TypeOK, PartitionTypeOK
  <2> QED BY <1>2, <2>1, <2>3 DEF TypeOK
<1>7. StreamInv'
  BY <1>2 DEF StreamInv
<1>8. \A e \in Events : rows[e] > 0 => rows'[e] > 0
  BY <1>1, Types
<1>9. ASSUME NEW e \in Events PROVE EventInv(e)'
  <2>1. EventInv(e)
    BY DEF AuditInv
  <2>2. (e \in InFlight' <=> e \in InFlight) /\ (Acked(e)' <=> Acked(e))
    BY <1>2, <1>4 DEF InFlight, Acked
  <2>3. rows'[e] > 0 \/ e \in archive => id[e] \in 1 .. cursor
    BY <1>1, <2>1 DEF EventInv
  <2>4. rows'[e] <= 1 + faults'
    BY <1>1, <1>3, <2>1, Types DEF EventInv
  <2> QED BY <1>8, <2>1, <2>2, <2>3, <2>4 DEF EventInv, Kept
<1>10. ASSUME NEW d \in Consumers PROVE ConsumerInv(d)'
  <2>1. ConsumerInv(d) /\ pending[d] \in SUBSET Events
    BY Types DEF AuditInv
  <2>2. ASSUME NEW e \in pending[d], consumer'[d] = "reading" PROVE rows'[e] <= faults'
    <3>1. CASE e \in Valid(pending[c])
      <4>1. d = c
        BY <1>1, <3>1
      <4> QED BY <1>1, <1>5, <2>2, <3>1, <4>1
    <3>2. CASE e \notin Valid(pending[c])
      BY <1>1, <1>3, <1>4, <1>5, <2>1, <2>2, <3>2, Types DEF ConsumerInv
    <3> QED BY <3>1, <3>2
  <2>3. ASSUME NEW e \in pending[d], consumer'[d] = "inserted", e \notin Malformed PROVE Kept(e)'
    <3>1. CASE d = c
      BY <1>1, <2>3, <3>1 DEF Valid, Kept
    <3>2. CASE d # c
      BY <1>4, <1>8, <2>1, <2>3, <3>2 DEF ConsumerInv, Kept
    <3> QED BY <3>1, <3>2
  <2> QED BY <2>1, <2>2, <2>3 DEF ConsumerInv
<1>11. ArchiverInv'
  <2> SUFFICES ASSUME archiver # NoArchiver PROVE ArchiverInv'
    BY DEF ArchiverInv
  <2>1. ASSUME archiver.at = "exported", NEW e \in Events, time[e] = archiver.part, rows'[e] > 0 PROVE e \in archive
    BY <1>1, <2>1 DEF AuditInv, ArchiverInv
  <2> QED BY <2>1 DEF AuditInv, ArchiverInv
<1> QED BY <1>6, <1>7, <1>9, <1>10, <1>11 DEF AuditInv

LEMMA AckInv == ASSUME AuditInv, NEW c \in Consumers, Ack(c) PROVE AuditInv'
<1>1. /\ consumer[c] = "inserted" /\ pending' = [pending EXCEPT ![c] = @ \ Batch(c)]
      /\ consumer' = [consumer EXCEPT ![c] = "reading"]
      /\ UNCHANGED <<month, partitions, tasks, archiver, archive, time, rows, faults, id, cursor>>
  BY DEF Ack, Goto, allPartitionVars, partitionVars
<1>2. TypeOK /\ StreamInv /\ Entries' = Entries
  BY <1>1 DEF AuditInv, Entries
<1>3. Batch(c) = pending[c]
  BY WholeBatch, Types DEF AuditInv, ConsumerInv, Batch
<1>4. /\ pending'[c] = {} /\ consumer'[c] = "reading"
      /\ \A d \in Consumers \ {c} : pending'[d] = pending[d] /\ consumer'[d] = consumer[d]
  BY <1>1, <1>2, <1>3 DEF TypeOK
<1>5. TypeOK'
  <2>1. pending' \in [Consumers -> SUBSET Events] /\ consumer' \in [Consumers -> {"reading", "inserted", "dead"}]
    BY <1>1, <1>2, <1>3 DEF TypeOK
  <2>2. PartitionTypeOK'
    BY <1>1, <1>2 DEF TypeOK, PartitionTypeOK
  <2> QED BY <1>1, <1>2, <2>1, <2>2 DEF TypeOK
<1>6. StreamInv'
  BY <1>1, <1>2 DEF StreamInv
<1>7. ASSUME NEW e \in Events PROVE EventInv(e)'
  <2>1. EventInv(e)
    BY DEF AuditInv
  <2>2. e \in InFlight' => e \in InFlight
    BY <1>1, <1>2, <1>4 DEF InFlight
  <2>3. Acked(e)' /\ e \notin Malformed => Kept(e)
    <3> SUFFICES ASSUME Acked(e)', e \notin Malformed PROVE Kept(e)
      OBVIOUS
    <3>1. CASE e \in pending[c]
      BY <1>1, <3>1 DEF AuditInv, ConsumerInv
    <3>2. CASE e \notin pending[c]
      <4>1. Acked(e)
        BY <1>1, <1>4, <3>2 DEF Acked
      <4> QED BY <2>1, <4>1 DEF EventInv
    <3> QED BY <3>1, <3>2
  <2> QED BY <1>1, <2>1, <2>2, <2>3 DEF EventInv, Kept
<1>8. ASSUME NEW d \in Consumers PROVE ConsumerInv(d)'
  <2>1. CASE d = c
    <3>1. IsFiniteSet({}) /\ Cardinality({}) <= BatchSize
      BY FS_EmptySet, Types
    <3>2. pending'[d] = {} /\ BatchSize' = BatchSize
      BY <1>4, <2>1
    <3> QED BY <3>1, <3>2 DEF ConsumerInv
  <2>2. CASE d # c
    BY <1>1, <1>4, <2>2 DEF AuditInv, ConsumerInv, Kept
  <2> QED BY <2>1, <2>2
<1>9. ArchiverInv'
  BY <1>1 DEF AuditInv, ArchiverInv
<1> QED BY <1>5, <1>6, <1>7, <1>8, <1>9 DEF AuditInv

\* An acknowledgement that is lost, and a crash: a failure is counted.
LEMMA FailInv ==
  ASSUME AuditInv, NEW c \in Consumers, AckFails(c) \/ Crash(c) PROVE AuditInv'
<1>1. /\ faults < MaxFaults /\ faults' = faults + 1
      /\ UNCHANGED <<month, partitions, tasks, archiver, archive, time, rows, id, cursor, pending>>
  BY DEF AckFails, Crash, Fault, partitionVars
<1>0. \/ consumer[c] = "inserted" /\ consumer' = [consumer EXCEPT ![c] = "reading"]
      \/ consumer' = [consumer EXCEPT ![c] = "dead"]
  BY Zenon DEF AckFails, Crash, Goto
<1>2. TypeOK /\ StreamInv /\ Entries' = Entries
  BY <1>1 DEF AuditInv, Entries
<1>3. \A d \in Consumers : consumer'[d] # consumer[d] =>
        consumer'[d] = "dead" \/ (consumer[d] = "inserted" /\ consumer'[d] = "reading")
  <2> SUFFICES ASSUME NEW d \in Consumers, consumer'[d] # consumer[d]
               PROVE  consumer'[d] = "dead" \/ (consumer[d] = "inserted" /\ consumer'[d] = "reading")
    OBVIOUS
  <2>1. consumer \in [Consumers -> {"reading", "inserted", "dead"}]
    BY <1>2 DEF TypeOK
  <2>2. CASE consumer[c] = "inserted" /\ consumer' = [consumer EXCEPT ![c] = "reading"]
    BY <2>1, <2>2
  <2>3. CASE consumer' = [consumer EXCEPT ![c] = "dead"]
    BY <2>1, <2>3
  <2> QED BY <1>0, <2>2, <2>3
<1>4. faults' \in 0 .. MaxFaults
  BY <1>1, RetentionAssumption, Types
<1>5. TypeOK'
  <2>1. consumer' \in [Consumers -> {"reading", "inserted", "dead"}]
    BY <1>0, <1>2 DEF TypeOK
  <2>2. PartitionTypeOK'
    BY <1>1, <1>2, <1>4 DEF TypeOK, PartitionTypeOK
  <2> QED BY <1>1, <1>2, <2>1, <2>2 DEF TypeOK
<1>6. StreamInv'
  BY <1>1, <1>2 DEF StreamInv
<1>7. ASSUME NEW e \in Events PROVE EventInv(e)'
  <2>1. EventInv(e) /\ rows[e] \in Nat
    BY Types DEF AuditInv
  <2>2. e \in InFlight' => e \in InFlight
    BY <1>1, <1>2, <1>3 DEF InFlight
  <2>3. Acked(e)' <=> Acked(e)
    BY <1>1 DEF Acked
  <2>4. rows[e] <= 1 + faults'
    BY <1>1, <2>1, Types DEF EventInv
  <2> QED BY <1>1, <2>1, <2>2, <2>3, <2>4 DEF EventInv, Kept
<1>8. ASSUME NEW d \in Consumers PROVE ConsumerInv(d)'
  <2>1. ConsumerInv(d) /\ pending[d] \in SUBSET Events
    BY Types DEF AuditInv
  <2>2. \A e \in pending[d] : rows[e] <= 1 + faults /\ rows[e] \in Nat
    BY <2>1, Types DEF AuditInv, EventInv
  <2>3. \A e \in pending[d] : consumer'[d] = "reading" => rows[e] <= faults'
    BY <1>1, <1>3, <2>1, <2>2, Types DEF ConsumerInv
  <2>4. \A e \in pending[d] : consumer'[d] = "inserted" /\ e \notin Malformed => Kept(e)
    BY <1>3, <2>1 DEF ConsumerInv
  <2> QED BY <1>1, <2>1, <2>3, <2>4 DEF ConsumerInv, Kept
<1>9. ArchiverInv'
  BY <1>1 DEF AuditInv, ArchiverInv
<1> QED BY <1>5, <1>6, <1>7, <1>8, <1>9 DEF AuditInv

-----------------------------------------------------------------------------
(* The clock and the tasks leave the stream alone.                         *)

LEMMA StreamFrame ==
  ASSUME AuditInv, UNCHANGED streamVars
  PROVE  /\ UNCHANGED <<id, cursor, pending, consumer>>
         /\ Entries' = Entries /\ InFlight' = InFlight /\ StreamInv'
         /\ \A e \in Events : Acked(e)' <=> Acked(e)
         /\ PartitionTypeOK' => TypeOK'
<1>1. UNCHANGED <<id, cursor, pending, consumer>>
  BY DEF streamVars
<1>2. Entries' = Entries
  BY <1>1 DEF Entries
<1> QED BY <1>1, <1>2 DEF InFlight, Acked, AuditInv, StreamInv, TypeOK

\* A task that leaves rows and archive alone, and adds no partition that holds
\* an event: only the archiver is left to check.
LEMMA TaskFrame ==
  ASSUME AuditInv, UNCHANGED streamVars, UNCHANGED <<time, rows, archive>>, PartitionTypeOK',
         month' \in Nat, month <= month',
         \A e \in InFlight : month' <= time[e] + Lag,
         \A e \in Events : time[e] \in partitions' => time[e] \in partitions,
         faults' \in Nat, faults <= faults', ArchiverInv'
  PROVE  AuditInv'
<1>1. UNCHANGED <<id, cursor, pending, consumer>>
  BY DEF streamVars
<1>2. /\ Entries' = Entries /\ InFlight' = InFlight /\ StreamInv' /\ TypeOK'
      /\ \A e \in Events : Acked(e)' <=> Acked(e)
  BY StreamFrame
<1>3. ASSUME NEW e \in Events PROVE EventInv(e)'
  <2>1. EventInv(e) /\ rows[e] \in Nat /\ time[e] \in Nat
    BY Types DEF AuditInv
  <2>2. rows[e] <= 1 + faults'
    BY <2>1, Types DEF EventInv
  <2>3. time[e] <= month'
    BY <2>1, Types DEF EventInv
  <2> QED BY <1>1, <1>2, <2>1, <2>2, <2>3 DEF EventInv, Kept
<1>4. ASSUME NEW c \in Consumers PROVE ConsumerInv(c)'
  <2>1. ConsumerInv(c) /\ pending[c] \in SUBSET Events
    BY Types DEF AuditInv
  <2>2. \A e \in pending[c] : consumer[c] = "reading" => rows[e] <= faults'
    BY <2>1, Types DEF ConsumerInv
  <2> QED BY <1>1, <2>1, <2>2 DEF ConsumerInv, Kept
<1> QED BY <1>2, <1>3, <1>4 DEF AuditInv

LEMMA NewMonthInv ==
  ASSUME AuditInv, NewMonth, \A e \in InFlight : month < time[e] + Lag, UNCHANGED streamVars
  PROVE  AuditInv'
<1>1. /\ month < LastMonth /\ archiver = NoArchiver /\ month' = month + 1 /\ tasks' = Task
      /\ UNCHANGED <<partitions, archiver, time, rows, archive, faults>>
  BY DEF NewMonth
<1>2. month' \in Nat /\ month <= month' /\ faults' \in Nat /\ faults <= faults'
  BY <1>1, Types
<1>3. InFlight \subseteq Events
  BY DEF InFlight, Entries
<1>4. \A e \in InFlight : month' <= time[e] + Lag
  BY <1>1, <1>3, Types
<1>5. PartitionTypeOK'
  <2>1. month' \in InstallMonth .. LastMonth
    BY <1>1, MonthAssumption DEF AuditInv, TypeOK, PartitionTypeOK
  <2> QED BY <1>1, <2>1 DEF AuditInv, TypeOK, PartitionTypeOK
<1>6. ArchiverInv'
  BY <1>1 DEF ArchiverInv
<1> QED BY <1>1, <1>2, <1>4, <1>5, <1>6, TaskFrame

LEMMA InFlightIsYoung == AuditInv => \A e \in InFlight : month <= time[e] + Lag
<1>1. InFlight \subseteq Events
  BY DEF InFlight, Entries
<1> QED BY <1>1 DEF AuditInv, EventInv

LEMMA CreateInv ==
  ASSUME AuditInv, CreateNextPartition \/ CreateFails, UNCHANGED streamVars PROVE AuditInv'
<1>1. /\ UNCHANGED <<month, archiver, time, rows, archive>>
      /\ tasks' \in SUBSET Task
      /\ partitions' \in {partitions, partitions \cup {month + 2}}
      /\ faults' \in 0 .. MaxFaults /\ faults <= faults'
  <2>1. tasks \in SUBSET Task /\ faults \in 0 .. MaxFaults
    BY DEF AuditInv, TypeOK, PartitionTypeOK
  <2>2. CASE CreateNextPartition
    BY <2>1, <2>2, RetentionAssumption DEF CreateNextPartition
  <2>3. CASE CreateFails
    BY <2>1, <2>3, RetentionAssumption DEF CreateFails
  <2> QED BY <2>2, <2>3
<1>2. month' \in Nat /\ month <= month' /\ faults' \in Nat
  BY <1>1, Types, RetentionAssumption
<1>3. ASSUME NEW e \in Events, time[e] \in partitions' PROVE time[e] \in partitions
  BY <1>1, <1>3, Types DEF AuditInv, EventInv
<1>4. PartitionTypeOK'
  <2>1. partitions' \in SUBSET (InstallMonth .. (LastMonth + 2))
    BY <1>1, MonthAssumption DEF AuditInv, TypeOK, PartitionTypeOK
  <2> QED BY <1>1, <2>1 DEF AuditInv, TypeOK, PartitionTypeOK
<1>5. ArchiverInv'
  BY <1>1 DEF AuditInv, ArchiverInv
<1> QED BY <1>1, <1>2, <1>3, <1>4, <1>5, InFlightIsYoung, TaskFrame

\* The archiver that starts, ends or fails.
LEMMA ArchiverInvKept ==
  ASSUME AuditInv, StartArchive \/ EndArchive \/ ArchiveFails, UNCHANGED streamVars PROVE AuditInv'
<1>1. /\ UNCHANGED <<month, partitions, time, rows, archive>>
      /\ tasks' \in SUBSET Task
      /\ faults' \in 0 .. MaxFaults /\ faults <= faults'
  <2>1. tasks \in SUBSET Task /\ faults \in 0 .. MaxFaults
    BY DEF AuditInv, TypeOK, PartitionTypeOK
  <2>2. CASE StartArchive
    BY <2>1, <2>2, RetentionAssumption DEF StartArchive
  <2>3. CASE EndArchive
    BY <2>1, <2>3, RetentionAssumption DEF EndArchive
  <2>4. CASE ArchiveFails
    BY <2>1, <2>4, RetentionAssumption DEF ArchiveFails
  <2> QED BY <2>2, <2>3, <2>4
<1>2. \/ archiver' = NoArchiver
      \/ \E keep \in {month - Retention, month - Retention + 1} :
           archiver' = [at |-> "selecting", keep |-> keep, part |-> 0]
  BY DEF StartArchive, EndArchive, ArchiveFails
<1>3. archiver' \in [at : {"idle", "selecting", "exported"}, keep : Int, part : Nat] /\ ArchiverInv'
  <2>1. CASE archiver' = NoArchiver
    BY <2>1 DEF NoArchiver, ArchiverInv
  <2>2. ASSUME NEW keep \in {month - Retention, month - Retention + 1},
               archiver' = [at |-> "selecting", keep |-> keep, part |-> 0]
        PROVE  archiver' \in [at : {"idle", "selecting", "exported"}, keep : Int, part : Nat] /\ ArchiverInv'
    <3>1. keep \in Int /\ keep + Retention <= month + 1
      BY Types
    <3>2. archiver'.at = "selecting" /\ archiver'.keep = keep
      BY <2>2
    <3> QED BY <1>1, <2>2, <3>1, <3>2 DEF ArchiverInv
  <2> QED BY <1>2, <2>1, <2>2
<1>4. month' \in Nat /\ month <= month' /\ faults' \in Nat
  BY <1>1, Types, RetentionAssumption
<1>5. PartitionTypeOK'
  BY <1>1, <1>3 DEF AuditInv, TypeOK, PartitionTypeOK
<1> QED BY <1>1, <1>3, <1>4, <1>5, InFlightIsYoung, TaskFrame

\* The object of the month is written anew from the rows that are there, all
\* of them: what it held before has its rows while the partition lasts.
LEMMA ExportInv ==
  ASSUME AuditInv, NEW p \in partitions, ExportPartition(p), UNCHANGED streamVars PROVE AuditInv'
<1>1. /\ archiver.at = "selecting" /\ p < archiver.keep
      /\ archive' = {e \in archive : time[e] # p} \cup RowsIn(p)
      /\ archiver' = [archiver EXCEPT !.at = "exported", !.part = p]
      /\ UNCHANGED <<month, partitions, tasks, time, rows, faults>>
  BY DEF ExportPartition, Oldest, Old
<1>2. /\ UNCHANGED <<id, cursor, pending, consumer>>
      /\ Entries' = Entries /\ InFlight' = InFlight /\ StreamInv'
      /\ \A e \in Events : Acked(e)' <=> Acked(e)
      /\ PartitionTypeOK' => TypeOK'
  BY StreamFrame
<1>3. \A e \in Events : e \in archive' <=> (e \in archive /\ time[e] # p) \/ (time[e] = p /\ rows[e] > 0)
  BY <1>1 DEF RowsIn
<1>4. \A e \in Events : e \in archive /\ time[e] = p => rows[e] > 0
  BY DEF AuditInv, EventInv
<1>5. \A e \in Events : Kept(e)' <=> Kept(e)
  BY <1>1, <1>3, <1>4 DEF Kept
<1>6. archiver \in [at : {"idle", "selecting", "exported"}, keep : Int, part : Nat] /\ p \in Nat
  BY MonthAssumption DEF AuditInv, TypeOK, PartitionTypeOK
<1>7. archiver'.at = "exported" /\ archiver'.keep = archiver.keep /\ archiver'.part = p
  BY <1>1, <1>6
<1>8. TypeOK'
  <2>1. archiver' \in [at : {"idle", "selecting", "exported"}, keep : Int, part : Nat]
    BY <1>1, <1>6
  <2>2. archive' \in SUBSET Events
    BY <1>1, Types DEF RowsIn
  <2> QED BY <1>1, <1>2, <2>1, <2>2 DEF AuditInv, TypeOK, PartitionTypeOK
<1>9. ASSUME NEW e \in Events PROVE EventInv(e)'
  BY <1>1, <1>2, <1>3, <1>4, <1>5 DEF AuditInv, EventInv
<1>10. ASSUME NEW c \in Consumers PROVE ConsumerInv(c)'
  <2>1. ConsumerInv(c) /\ pending[c] \in SUBSET Events
    BY Types DEF AuditInv
  <2> QED BY <1>1, <1>2, <1>5, <2>1 DEF ConsumerInv
<1>11. ArchiverInv'
  <2>1. archiver # NoArchiver
    BY <1>1 DEF NoArchiver
  <2>2. archiver.keep + Retention <= month + 1
    BY <2>1 DEF AuditInv, ArchiverInv
  <2> QED BY <1>1, <1>3, <1>7, <2>2 DEF ArchiverInv
<1> QED BY <1>2, <1>8, <1>9, <1>10, <1>11 DEF AuditInv

\* No row goes with the partition that the bucket does not have, since no
\* entry of a month that old is still to be inserted.
LEMMA DropInv ==
  ASSUME AuditInv, DropPartition, UNCHANGED streamVars PROVE AuditInv'
<1> DEFINE p == archiver.part
<1>1. /\ archiver.at = "exported"
      /\ partitions' = partitions \ {p}
      /\ rows' = [e \in Events |-> IF time[e] = p THEN 0 ELSE rows[e]]
      /\ archiver' = [archiver EXCEPT !.at = "selecting", !.part = 0]
      /\ UNCHANGED <<month, tasks, time, archive, faults>>
  BY DEF DropPartition
<1>2. /\ UNCHANGED <<id, cursor, pending, consumer>>
      /\ Entries' = Entries /\ InFlight' = InFlight /\ StreamInv'
      /\ \A e \in Events : Acked(e)' <=> Acked(e)
      /\ PartitionTypeOK' => TypeOK'
  BY StreamFrame
<1>3. archiver # NoArchiver
  BY <1>1 DEF NoArchiver
<1>4. archiver.keep + Retention <= month + 1 /\ \A e \in Events : time[e] = p /\ rows[e] > 0 => e \in archive
  BY <1>1, <1>3 DEF AuditInv, ArchiverInv
<1>5. \A e \in Events : /\ rows'[e] \in Nat /\ rows'[e] <= rows[e]
                        /\ rows'[e] = IF time[e] = p THEN 0 ELSE rows[e]
  BY <1>1, Types
<1>6. \A e \in Events : Kept(e) => Kept(e)'
  BY <1>1, <1>4, <1>5 DEF Kept
<1>7. archiver \in [at : {"idle", "selecting", "exported"}, keep : Int, part : Nat]
  BY DEF AuditInv, TypeOK, PartitionTypeOK
<1>8. archiver'.at = "selecting" /\ archiver'.keep = archiver.keep
  BY <1>1, <1>7
<1>9. TypeOK'
  <2>1. archiver' \in [at : {"idle", "selecting", "exported"}, keep : Int, part : Nat]
    BY <1>1, <1>7
  <2>2. rows' \in [Events -> Nat]
    BY <1>1, <1>5
  <2> QED BY <1>1, <1>2, <2>1, <2>2 DEF AuditInv, TypeOK, PartitionTypeOK
<1>10. ASSUME NEW e \in Events PROVE EventInv(e)'
  <2>1. EventInv(e)
    BY DEF AuditInv
  <2>2. rows'[e] > 0 => rows[e] > 0
    BY <1>5, Types
  <2>3. rows'[e] <= 1 + faults
    BY <1>5, <2>1, Types DEF EventInv
  <2>4. e \in archive => rows'[e] > 0 \/ time[e] \notin partitions'
    BY <1>1, <1>5, <2>1 DEF EventInv
  <2> QED BY <1>1, <1>2, <1>6, <2>1, <2>2, <2>3, <2>4 DEF EventInv
<1>11. ASSUME NEW c \in Consumers PROVE ConsumerInv(c)'
  <2>1. ConsumerInv(c) /\ pending[c] \in SUBSET Events
    BY Types DEF AuditInv
  <2>2. \A e \in pending[c] : consumer[c] = "reading" => rows'[e] <= faults
    BY <1>5, <2>1, Types DEF ConsumerInv
  <2> QED BY <1>1, <1>2, <1>6, <2>1, <2>2 DEF ConsumerInv
<1>12. ArchiverInv'
  BY <1>1, <1>4, <1>8 DEF ArchiverInv
<1> QED BY <1>2, <1>9, <1>10, <1>11, <1>12 DEF AuditInv

-----------------------------------------------------------------------------
(* The results.                                                            *)

LEMMA StepAudit == AuditInv /\ [Next]_vars => AuditInv'
<1> SUFFICES ASSUME AuditInv, [Next]_vars PROVE AuditInv'
  OBVIOUS
<1>1. ASSUME NEW e \in Events, Emit(e) PROVE AuditInv'
  BY <1>1, EmitInv
<1>2. ASSUME NEW c \in Consumers, ConsumerStep(c) \/ AckFails(c) \/ CommitAnswerLost(c) \/ Crash(c)
      PROVE  AuditInv'
  <2>1. CASE ReadNew(c)
    BY <2>1, ReadNewInv
  <2>2. CASE InsertBatch(c)
    BY <2>2, InsertInv DEF InsertBatch, Goto, partitionVars
  <2>3. CASE CommitAnswerLost(c)
    BY <2>3, InsertInv DEF CommitAnswerLost, Fault, partitionVars, streamVars
  <2>4. CASE Ack(c)
    BY <2>4, AckInv
  <2>5. CASE AckFails(c) \/ Crash(c)
    BY <2>5, FailInv
  <2>6. CASE UNCHANGED vars
    BY <2>6, TaskFrame, StreamFrame, InFlightIsYoung, Types
       DEF vars, allPartitionVars, partitionVars, AuditInv, ArchiverInv, TypeOK, PartitionTypeOK
  <2> QED BY <1>2, <2>1, <2>2, <2>3, <2>4, <2>5, <2>6 DEF ConsumerStep, RefuseBatch
<1>3. ASSUME TaskNext, UNCHANGED streamVars PROVE AuditInv'
  BY <1>3, CreateInv, ArchiverInvKept, ExportInv, DropInv DEF TaskNext
<1>4. CASE UNCHANGED vars
  BY <1>4, TaskFrame, StreamFrame, InFlightIsYoung, Types
     DEF vars, allPartitionVars, partitionVars, AuditInv, ArchiverInv, TypeOK, PartitionTypeOK
<1>5. ASSUME \A e \in InFlight : month < time[e] + Lag, NewMonth, UNCHANGED streamVars PROVE AuditInv'
  BY <1>5, NewMonthInv
<1> QED BY <1>1, <1>2, <1>3, <1>4, <1>5 DEF Next

\* The invariant behind the three results.
THEOREM AuditInvariant == Spec => []AuditInv
<1> QED BY InitAudit, StepAudit, PTL DEF Spec

\* Rows, positions, pending lists, archiver and clock keep their types, and
\* the group's position never passes the end of the stream.
THEOREM AuditTypes == Spec => []TypeOK
<1>1. AuditInv => TypeOK
  BY DEF AuditInv
<1> QED BY <1>1, AuditInvariant, PTL

\* What was acknowledged is in the table or in the archive, and an event is
\* there once more than calls failed at the most: through redeliveries,
\* crashes of consumers, refused batches and dropped partitions.
THEOREM TrailKept == Spec => []TrailIsKept
<1>1. AuditInv => TrailIsKept
  <2> SUFFICES ASSUME AuditInv PROVE AckedIsKept /\ CopiesNeedFaults
    BY DEF TrailIsKept
  <2>1. Entries \subseteq Events
    BY DEF Entries
  <2> QED BY <2>1 DEF AuditInv, EventInv, AckedIsKept, CopiesNeedFaults
<1> QED BY <1>1, AuditInvariant, PTL

\* The archiver drops a partition only when its retention is over, in the run
\* of the month, in a late one and in one that takes up what an earlier left.
THEOREM RetentionIsKept == Spec => PartitionsAreKept
<1>1. AuditInv /\ [Next]_vars => [\A p \in partitions \ partitions' : p + Retention <= month]_allPartitionVars
  <2> SUFFICES ASSUME AuditInv, [Next]_vars, NEW p \in partitions, p \notin partitions'
               PROVE  p + Retention <= month
    OBVIOUS
  <2>1. DropPartition
    BY DEF Next, ConsumerStep, Emit, ReadNew, InsertBatch, RefuseBatch, Ack, AckFails, CommitAnswerLost, Crash,
           TaskNext, CreateNextPartition, CreateFails, StartArchive, ExportPartition, EndArchive, ArchiveFails,
           NewMonth, vars, allPartitionVars, partitionVars
  <2>2. p = archiver.part /\ archiver.at = "exported"
    BY <2>1 DEF DropPartition
  <2>3. archiver # NoArchiver
    BY <2>2 DEF NoArchiver
  <2>4. archiver.part < archiver.keep /\ archiver.keep + Retention <= month + 1
    BY <2>2, <2>3 DEF AuditInv, ArchiverInv
  <2> QED BY <2>2, <2>4, Types
<1> QED BY <1>1, AuditInvariant, PTL DEF Spec, PartitionsAreKept
=============================================================================
