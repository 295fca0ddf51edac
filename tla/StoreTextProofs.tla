-------------------------- MODULE StoreTextProofs --------------------------
(***************************************************************************)
(* Proofs about what keeps a document, for any number of updates,          *)
(* subscribers, editors, snapshots, sessions, crashes and peers.           *)
(*                                                                         *)
(* The relay: nothing that was written is lost to a compaction, a load     *)
(* that one comes in between is complete, subscribers are counted, and the *)
(* document in memory lacks nothing but what an old base explains          *)
(* (RelayDocStore); a session that was not last sent an overtaken          *)
(* aggregate sees the presence the store holds (RelayPresence).            *)
(*                                                                         *)
(* The daemon: what reaches its endpoint for editors reaches every editor  *)
(* it has answered (DaemonYjs); a peer is listed exactly when a whole      *)
(* announcement of it was read (LanDiscovery); snapshot and log give back  *)
(* every update once, at every point in time (DaemonSnapshots).            *)
(***************************************************************************)
EXTENDS RelayDocStore, RelayPresence, DaemonYjs, LanDiscovery, DaemonSnapshots,
        FiniteSetTheorems, SequenceTheorems, WellFoundedInduction, TLAPS

-----------------------------------------------------------------------------
(* Numbers *)

\* A set of numbers that has a member has a least one.
LEMMA LeastOf ==
    ASSUME NEW S \in SUBSET Nat, S # {}
    PROVE  Min(S) \in S /\ \A y \in S : Min(S) <= y
<1> DEFINE R == {ss \in Nat \X Nat : ss[1] < ss[2]}
<1>1. IsWellFoundedOn(R, Nat)
  BY NatLessThanWellFounded DEF OpToRel
<1>2. \A m, n \in Nat : <<m, n>> \notin R => n <= m
  OBVIOUS
<1> HIDE DEF R
<1>3. PICK x \in S : \A y \in S : ~(<<y, x>> \in R)
  BY <1>1, WFMin
<1>4. \A y \in S : x <= y
  BY <1>2, <1>3
<1> QED
  BY <1>4 DEF Min

\* One that is bounded has a greatest one.
LEMMA GreatestMember ==
    ASSUME NEW S \in SUBSET Nat, S # {}, NEW b \in Nat, \A x \in S : x <= b
    PROVE  \E x \in S : \A y \in S : y <= x
<1> DEFINE T == {n \in Nat : b - n \in S}
<1>1. T \in SUBSET Nat /\ T # {}
  <2>1. PICK x \in S : TRUE
    OBVIOUS
  <2>2. b - x \in Nat /\ b - (b - x) = x
    BY <2>1
  <2>3. b - x \in T
    BY <2>1, <2>2
  <2> QED
    BY <2>3
<1>2. PICK n \in T : \A m \in T : n <= m
  <2> HIDE DEF T
  <2> QED
    BY <1>1, LeastOf
<1>3. ASSUME NEW y \in S PROVE y <= b - n
  <2>1. b - y \in Nat /\ b - (b - y) = y
    OBVIOUS
  <2>2. b - y \in T
    BY <2>1
  <2>3. n <= b - y
    BY <1>2, <2>2
  <2> QED
    BY <2>1, <2>3, <1>2
<1> QED
  BY <1>2, <1>3

LEMMA GreatestIs ==
    ASSUME NEW S \in SUBSET Nat, NEW b \in Nat, \A x \in S : x <= b
    PROVE  /\ Greatest(S) \in Nat /\ Greatest(S) <= b
           /\ Greatest(S) \in S \/ (Greatest(S) = 0 /\ \A x \in S : x = 0)
           /\ \A x \in S : x <= Greatest(S)
<1> DEFINE T == S \cup {0}
<1>1. T \in SUBSET Nat /\ T # {} /\ \A x \in T : x <= b
  OBVIOUS
<1>2. \E x \in T : \A y \in T : y <= x
  <2> HIDE DEF T
  <2> QED
    BY <1>1, GreatestMember
<1>3. \E x \in T : \A y \in T : x >= y
  BY <1>1, <1>2
<1> DEFINE g == Greatest(S)
<1>4. g \in T /\ \A y \in T : g >= y
  BY <1>3 DEF Greatest, Max
<1> HIDE DEF g
<1>5. g \in Nat /\ g <= b /\ \A x \in S : x <= g
  BY <1>1, <1>4
<1>6. g \in S \/ (g = 0 /\ \A x \in S : x = 0)
  BY <1>4, <1>5
<1> QED
  BY <1>5, <1>6 DEF g

\* What the query keeps of the numbers: the newest ones, and Retain of them if any is left out.
LEMMA RetainedNewest ==
    ASSUME NEW S \in SUBSET Nat, NEW b \in Nat, \A x \in S : x <= b, S # {}
    PROVE  /\ IsFiniteSet(S)
           /\ Retained(S) \in SUBSET S /\ Retained(S) # {}
           /\ \A n \in Retained(S), m \in S : m >= n => m \in Retained(S)
           /\ Retained(S) = S \/ Cardinality(Retained(S)) >= Retain
<1> DEFINE After(n) == {m \in S : m > n}
           R == Retained(S)
<1>1. IsFiniteSet(S)
  BY FS_BoundedSetOfNaturals
<1>2. R = {n \in S : Cardinality(After(n)) < Retain}
  BY DEF Retained
<1>3. \A n : IsFiniteSet(After(n)) /\ Cardinality(After(n)) \in Nat
  <2> TAKE n
  <2>1. After(n) \in SUBSET S
    OBVIOUS
  <2>2. IsFiniteSet(After(n))
    BY <1>1, <2>1, FS_Subset
  <2> QED
    BY <2>2, FS_CardinalityType
<1>4. ASSUME NEW n \in R, NEW m \in S, m >= n PROVE m \in R
  <2>1. n \in Nat /\ m \in Nat /\ Cardinality(After(n)) < Retain
    BY <1>2
  <2>2. After(m) \in SUBSET After(n)
    <3>1. ASSUME NEW x \in S, x > m PROVE x > n
      BY <1>4, <2>1, <3>1
    <3> QED
      BY <3>1
  <2>3. Cardinality(After(m)) <= Cardinality(After(n))
    BY <1>3, <2>2, FS_Subset
  <2>4. Cardinality(After(m)) \in Nat /\ Cardinality(After(n)) \in Nat /\ Retain \in Nat
    BY <1>3, RetainAssumption
  <2>5. Cardinality(After(m)) < Retain
    BY <2>1, <2>3, <2>4
  <2> QED
    BY <1>2, <2>5
<1>5. R # {}
  <2>1. PICK x \in S : \A y \in S : y <= x
    BY GreatestMember
  <2>2. After(x) = {}
    <3>1. ASSUME NEW y \in S PROVE ~(y > x)
      BY <2>1, <3>1
    <3> QED
      BY <3>1
  <2>3. Cardinality(After(x)) = 0
    BY <2>2, FS_EmptySet
  <2>4. Cardinality(After(x)) < Retain
    BY <2>3, RetainAssumption
  <2> QED
    BY <1>2, <2>4
<1>6. ASSUME R # S PROVE Cardinality(R) >= Retain
  <2> DEFINE Out == S \ R
  <2>1. Out \in SUBSET Nat /\ Out # {} /\ \A x \in Out : x <= b
    BY <1>2, <1>6
  <2>2. PICK y \in Out : \A x \in Out : x <= y
    <3> HIDE DEF Out
    <3> QED
      BY <2>1, GreatestMember
  <2>3. After(y) = R
    <3>1. ASSUME NEW x \in After(y) PROVE x \in R
      BY <2>2, <3>1
    <3>2. ASSUME NEW x \in R PROVE x \in After(y)
      <4>1. x \in S /\ x \in Nat /\ y \in S /\ y \in Nat /\ y \notin R
        BY <1>2, <2>2, <3>2
      <4>2. ~(y >= x)
        BY <1>4, <3>2, <4>1
      <4> QED
        BY <4>1, <4>2
    <3> QED
      BY <3>1, <3>2
  <2>4. ~(Cardinality(After(y)) < Retain)
    BY <1>2, <2>2
  <2> QED
    BY <1>3, <2>3, <2>4, RetainAssumption
<1> HIDE DEF R
<1> QED
  BY <1>1, <1>2, <1>4, <1>5, <1>6 DEF R

-----------------------------------------------------------------------------
(* The invariant.  A compaction takes rows away that somebody may be about *)
(* to read: what has to be said is that every text that is going to be     *)
(* used covers, with the rows that are left, all that was ever written.    *)

StoreRow == [seq : Nat, id : StoreUpdates]

SubFields == {"at", "snap", "text", "head", "since"}

LoadedFields == {"text", "head", "subs", "cut"}

\* The last number that was written; the batch has the ones after it.
Flushed == counter - Len(batch)

\* A snapshot, or a candidate for one.
Summary(s) ==
    /\ s.seq \in 1..Flushed
    /\ \A u \in s.text : u \in kept

StoreTypeOK ==
    /\ counter \in Nat /\ Flushed \in Nat
    /\ batch \in Seq(StoreRow) /\ applying \in Seq(StoreRow)
    /\ \A n \in DOMAIN batch : batch[n].seq = Flushed + n
    /\ \A r \in log : r.seq \in 1..Flushed /\ r.id \in kept
    /\ \A s \in snaps \cup candidates : Summary(s)
    /\ DOMAIN sub = Subscribers
    /\ \A c \in Subscribers :
          /\ DOMAIN sub[c] = SubFields
          /\ sub[c].snap \in 0..Flushed /\ sub[c].head \in 0..Flushed /\ sub[c].since \in Nat
    /\ \A d \in loaded : DOMAIN d = LoadedFields /\ d.head \in 0..Flushed
    /\ \A d, e \in loaded : d = e

\* What is about to be applied is in the log under its number, if the number is there.
StoreApplying ==
    \A n \in DOMAIN applying :
        /\ applying[n].seq \in 1..Flushed
        /\ \A r \in log : r.seq = applying[n].seq => r.id = applying[n].id

\* Everything written is in the text or in the log after the number.
Covers(text, n) == \A u \in kept : u \in text \/ \E r \in log : r.seq > n /\ r.id = u

SnapsAfter(n) == {m \in SnapSeqs : m > n}

\* Every snapshot covers what was written, and so does a candidate unless it is too old to be kept.
StoreCovered ==
    /\ snaps = {} => Covers({}, 0)
    /\ \A s \in snaps : Covers(s.text, s.seq)
    /\ \A s \in candidates : Covers(s.text, s.seq) \/ Cardinality(SnapsAfter(s.seq)) >= Retain

\* A load between its two statements.
StoreLoading ==
    \A c \in Subscribers : sub[c].at = "updates" =>
        /\ Cardinality(SnapsAfter(sub[c].snap)) <= sub[c].since
        /\ sub[c].since < Retain => Covers(sub[c].text, sub[c].snap)

\* Nothing the tables have up to the number, or may soon have, is missing in the text.
Contains(text, n) ==
    /\ \A r \in log : r.seq <= n => r.id \in text
    /\ \A s \in snaps \cup candidates : s.seq <= n => \A u \in s.text : u \in text

StoreHydrating ==
    \A c \in Subscribers : sub[c].at \in {"subscribe", "hydrated"} /\ sub[c].since < Retain =>
        Contains(sub[c].text, sub[c].head)

StoreInv ==
    /\ StoreTypeOK /\ StoreApplying /\ StoreCovered /\ StoreLoading /\ StoreHydrating
    /\ StoreSubscribersCounted /\ StoreGapOnlyUnderOldBase

LEMMA StoreInitInv == StoreInit => StoreInv
<1> SUFFICES ASSUME StoreInit PROVE StoreInv
  OBVIOUS
<1>1. /\ counter = 0 /\ batch = <<>> /\ applying = <<>> /\ log = {} /\ snaps = {} /\ candidates = {}
      /\ loaded = {} /\ kept = {} /\ DOMAIN batch = {} /\ DOMAIN applying = {} /\ Len(batch) = 0
  BY DEF StoreInit
<1>2. /\ DOMAIN sub = Subscribers
      /\ \A c \in Subscribers : /\ DOMAIN sub[c] = SubFields /\ sub[c].at = "no"
                                /\ sub[c].snap = 0 /\ sub[c].head = 0 /\ sub[c].since = 0
  BY DEF StoreInit, NoSub, SubFields
<1>3. Flushed = 0
  <2>1. counter = 0 /\ Len(batch) = 0
    BY <1>1
  <2> QED
    BY <2>1 DEF Flushed
<1>4. StoreTypeOK
  BY <1>1, <1>2, <1>3 DEF StoreTypeOK
<1>5. StoreApplying /\ StoreCovered /\ StoreLoading /\ StoreHydrating /\ StoreGapOnlyUnderOldBase
  BY <1>1, <1>2 DEF StoreApplying, StoreCovered, Covers, StoreLoading, StoreHydrating, StoreGapOnlyUnderOldBase
<1>6. StoreSubscribersCounted
  <2>1. {c \in Subscribers : sub[c].at = "yes"} = {}
    BY <1>2
  <2>2. Cardinality({c \in Subscribers : sub[c].at = "yes"}) = 0
    BY <2>1, FS_EmptySet
  <2> QED
    BY <1>1, <2>2 DEF StoreSubscribersCounted
<1> QED
  BY <1>4, <1>5, <1>6 DEF StoreInv

\* The numbers of the snapshots, and how many are after one.
LEMMA SnapSeqsBounded ==
    ASSUME StoreTypeOK
    PROVE  /\ SnapSeqs \in SUBSET Nat /\ IsFiniteSet(SnapSeqs)
           /\ \A m \in SnapSeqs : m <= Flushed
           /\ \A s \in snaps : s.seq \in SnapSeqs
           /\ \A n : IsFiniteSet(SnapsAfter(n)) /\ Cardinality(SnapsAfter(n)) \in Nat
<1>1. SnapSeqs \in SUBSET Nat /\ (\A m \in SnapSeqs : m <= Flushed) /\ Flushed \in Nat
  BY DEF StoreTypeOK, SnapSeqs, Summary
<1>2. IsFiniteSet(SnapSeqs)
  BY <1>1, FS_BoundedSetOfNaturals
<1>3. ASSUME NEW n PROVE IsFiniteSet(SnapsAfter(n)) /\ Cardinality(SnapsAfter(n)) \in Nat
  <2>1. SnapsAfter(n) \in SUBSET SnapSeqs
    BY DEF SnapsAfter
  <2>2. IsFiniteSet(SnapsAfter(n))
    BY <1>2, <2>1, FS_Subset
  <2> QED
    BY <2>2, FS_CardinalityType
<1> QED
  BY <1>1, <1>2, <1>3 DEF SnapSeqs

\* The newest snapshot, or none, with the log after it, has everything.
LEMMA NewestCovers ==
    ASSUME StoreTypeOK, StoreCovered
    PROVE  LET n == Greatest(SnapSeqs)
           IN  /\ n \in 0..Flushed
               /\ \A m \in SnapSeqs : m <= n
               /\ Covers(UNION {s.text : s \in {x \in snaps : x.seq = n}}, n)
<1> DEFINE n == Greatest(SnapSeqs)
<1>1. /\ n \in Nat /\ n <= Flushed /\ \A m \in SnapSeqs : m <= n
      /\ n \in SnapSeqs \/ (n = 0 /\ \A m \in SnapSeqs : m = 0)
  BY SnapSeqsBounded, GreatestIs DEF StoreTypeOK
<1> HIDE DEF n
<1>2. CASE n \in SnapSeqs
  <2>1. PICK s \in snaps : s.seq = n
    BY <1>2 DEF SnapSeqs
  <2>2. Covers(s.text, n)
    BY <2>1 DEF StoreCovered
  <2>3. Covers(UNION {x.text : x \in {x \in snaps : x.seq = n}}, n)
    BY <2>1, <2>2 DEF Covers
  <2> QED
    BY <1>1, <2>3 DEF n, StoreTypeOK
<1>3. CASE n \notin SnapSeqs
  <2>1. snaps = {} /\ n = 0
    BY <1>1, <1>3 DEF SnapSeqs, StoreTypeOK, Summary
  <2>2. Covers(UNION {x.text : x \in {x \in snaps : x.seq = n}}, n)
    BY <2>1 DEF StoreCovered, Covers
  <2> QED
    BY <1>1, <2>2 DEF n, StoreTypeOK
<1> QED
  BY <1>2, <1>3

\* What depends on the tables alone stays with them.
LEMMA TablesSame ==
    ASSUME StoreInv, UNCHANGED <<log, snaps, candidates, kept>>
    PROVE  /\ StoreCovered'
           /\ \A n : SnapsAfter(n)' = SnapsAfter(n)
           /\ \A text, n : (Covers(text, n)' <=> Covers(text, n)) /\ (Contains(text, n)' <=> Contains(text, n))
<1>1. \A n : SnapsAfter(n)' = SnapsAfter(n)
  BY DEF SnapsAfter, SnapSeqs
<1>2. \A text, n : (Covers(text, n)' <=> Covers(text, n)) /\ (Contains(text, n)' <=> Contains(text, n))
  BY DEF Covers, Contains
<1>3. StoreCovered'
  BY DEF StoreInv, StoreCovered, Covers, SnapsAfter, SnapSeqs
<1> QED
  BY <1>1, <1>2, <1>3

\* A new number waits in the batch; nothing else looks at it yet.
LEMMA SequenceInv == ASSUME StoreInv, NEW u \in StoreUpdates, sequence_update(u) PROVE StoreInv'
<1>1. /\ UNCHANGED <<log, snaps, applying, loaded, sub, candidates, kept, accepted>>
      /\ counter' = counter + 1 /\ batch' = Append(batch, [seq |-> counter + 1, id |-> u])
  BY DEF sequence_update
<1>2. counter \in Nat /\ batch \in Seq(StoreRow) /\ Len(batch) \in Nat
  BY DEF StoreInv, StoreTypeOK
<1> DEFINE row == [seq |-> counter + 1, id |-> u]
<1>3. row \in StoreRow /\ row.seq = counter + 1
  BY <1>2 DEF StoreRow
<1> HIDE DEF row
<1>4. /\ batch' \in Seq(StoreRow) /\ Len(batch') = Len(batch) + 1
      /\ DOMAIN batch' = 1..(Len(batch) + 1) /\ DOMAIN batch = 1..Len(batch)
      /\ batch'[Len(batch) + 1] = row
      /\ \A n \in 1..Len(batch) : batch'[n] = batch[n]
  BY <1>1, <1>2, <1>3 DEF row
<1>5. Flushed' = Flushed
  BY <1>1, <1>2, <1>4 DEF Flushed
<1>6. \A n \in DOMAIN batch' : batch'[n].seq = Flushed' + n
  <2> SUFFICES ASSUME NEW n \in DOMAIN batch' PROVE batch'[n].seq = Flushed + n
    BY <1>5
  <2>1. CASE n \in 1..Len(batch)
    BY <1>4, <2>1 DEF StoreInv, StoreTypeOK
  <2>2. CASE n = Len(batch) + 1
    <3>1. batch'[n].seq = counter + 1
      BY <1>3, <1>4, <2>2
    <3> QED
      BY <1>2, <2>2, <3>1 DEF Flushed
  <2> QED
    BY <1>2, <1>4, <2>1, <2>2
<1>7. StoreTypeOK'
  BY <1>1, <1>2, <1>4, <1>5, <1>6 DEF StoreInv, StoreTypeOK, Summary
<1>8. StoreApplying'
  BY <1>1, <1>5 DEF StoreInv, StoreApplying
<1>9. StoreLoading' /\ StoreHydrating'
  BY <1>1, TablesSame DEF StoreInv, StoreLoading, StoreHydrating
<1>10. StoreSubscribersCounted' /\ StoreGapOnlyUnderOldBase'
  BY <1>1 DEF StoreInv, StoreSubscribersCounted, StoreGapOnlyUnderOldBase
<1> QED
  BY <1>1, <1>7, <1>8, <1>9, <1>10, TablesSame DEF StoreInv

\* The batch is written: new rows are after everything that was there, and an
\* update that is left out was in the log.
LEMMA FlushInv == ASSUME StoreInv, flush_batch_to_postgres PROVE StoreInv'
<1> DEFINE waiting == {batch[n] : n \in DOMAIN batch}
           new == {r \in waiting :
                    /\ r.id \notin Ids(log)
                    /\ \A n \in DOMAIN batch : batch[n].id = r.id => r.seq <= batch[n].seq}
<1>1. /\ log' = log \cup new /\ kept' = kept \cup {batch[n].id : n \in DOMAIN batch}
      /\ applying' = applying \o batch /\ batch' = <<>>
      /\ UNCHANGED <<counter, snaps, loaded, sub, candidates, accepted>>
  BY DEF flush_batch_to_postgres
<1>2. /\ counter \in Nat /\ Flushed \in Nat /\ batch \in Seq(StoreRow) /\ applying \in Seq(StoreRow)
      /\ DOMAIN batch = 1..Len(batch) /\ Len(batch) \in Nat
      /\ \A n \in DOMAIN batch : batch[n].seq = Flushed + n
  BY DEF StoreInv, StoreTypeOK
<1>3. Flushed' = counter /\ Flushed <= counter /\ Flushed + Len(batch) = counter
  <2>1. Len(batch') = 0
    BY <1>1
  <2> QED
    BY <1>1, <1>2, <2>1 DEF Flushed
<1>4. \A r \in new : r.seq \in Nat /\ r.seq > Flushed /\ r.seq <= counter /\ r.id \in kept'
                    /\ \E n \in DOMAIN batch : r = batch[n]
  <2> SUFFICES ASSUME NEW n \in DOMAIN batch
               PROVE  batch[n].seq \in Nat /\ batch[n].seq > Flushed /\ batch[n].seq <= counter
    BY <1>1
  <2> QED
    BY <1>2, <1>3
<1>5. \A u \in kept' : u \in kept \/ \E r \in new : r.id = u
  <2> SUFFICES ASSUME NEW n \in DOMAIN batch, batch[n].id \notin kept
               PROVE  \E r \in new : r.id = batch[n].id
    BY <1>1
  <2> DEFINE same == {m \in DOMAIN batch : batch[m].id = batch[n].id}
  <2>1. same \in SUBSET Nat /\ same # {}
    BY <1>2
  <2>2. PICK m \in same : \A k \in same : m <= k
    <3> HIDE DEF same
    <3> QED
      BY <2>1, LeastOf
  <2>3. \A k \in DOMAIN batch : batch[k].id = batch[m].id => batch[m].seq <= batch[k].seq
    BY <1>2, <2>2
  <2>4. batch[m].id \notin Ids(log)
    BY <2>2 DEF StoreInv, StoreTypeOK, Ids
  <2>5. batch[m] \in new
    BY <2>2, <2>3, <2>4
  <2> QED
    BY <2>2, <2>5
<1> HIDE DEF new, waiting
<1>6. ASSUME NEW text, NEW n \in Nat, n <= Flushed, Covers(text, n) PROVE Covers(text, n)'
  <2> SUFFICES ASSUME NEW u \in kept', u \notin text PROVE \E r \in log' : r.seq > n /\ r.id = u
    BY DEF Covers
  <2>1. CASE u \in kept
    BY <1>1, <1>6, <2>1 DEF Covers
  <2>2. CASE \E r \in new : r.id = u
    <3>1. PICK r \in new : r.id = u
      BY <2>2
    <3>2. r.seq > n
      BY <1>2, <1>4, <1>6, <3>1
    <3> QED
      BY <1>1, <3>1, <3>2
  <2> QED
    BY <1>5, <2>1, <2>2
<1>7. ASSUME NEW text, NEW n \in Nat, n <= Flushed, Contains(text, n) PROVE Contains(text, n)'
  <2>1. \A r \in new : ~(r.seq <= n)
    BY <1>2, <1>4, <1>7
  <2> QED
    BY <1>1, <1>7, <2>1 DEF Contains
<1>8. StoreTypeOK'
  <2>1. \A r \in log' : r.seq \in 1..counter /\ r.id \in kept'
    BY <1>1, <1>2, <1>3, <1>4 DEF StoreInv, StoreTypeOK
  <2>2. \A s \in snaps \cup candidates : Summary(s)'
    BY <1>1, <1>2, <1>3 DEF StoreInv, StoreTypeOK, Summary
  <2>3. \A c \in Subscribers : sub[c].snap \in 0..counter /\ sub[c].head \in 0..counter
    BY <1>2, <1>3 DEF StoreInv, StoreTypeOK
  <2>4. \A d \in loaded : d.head \in 0..counter
    BY <1>2, <1>3 DEF StoreInv, StoreTypeOK
  <2>5. batch' \in Seq(StoreRow) /\ DOMAIN batch' = {} /\ applying' \in Seq(StoreRow)
    BY <1>1, <1>2
  <2> QED
    BY <1>1, <1>2, <1>3, <2>1, <2>2, <2>3, <2>4, <2>5 DEF StoreInv, StoreTypeOK
<1>9. StoreApplying'
  <2> SUFFICES ASSUME NEW n \in DOMAIN applying'
               PROVE  /\ applying'[n].seq \in 1..counter
                      /\ \A r \in log' : r.seq = applying'[n].seq => r.id = applying'[n].id
    BY <1>3 DEF StoreApplying
  <2>1. \/ n \in DOMAIN applying /\ applying'[n] = applying[n]
        \/ \E m \in DOMAIN batch : applying'[n] = batch[m]
    BY <1>1, <1>2
  <2>2. CASE n \in DOMAIN applying /\ applying'[n] = applying[n]
    <3>1. applying[n].seq \in 1..Flushed
      BY <2>2 DEF StoreInv, StoreApplying
    <3>2. \A r \in new : r.seq # applying[n].seq
      BY <1>2, <1>4, <3>1
    <3> QED
      BY <1>1, <1>2, <1>3, <2>2, <3>1, <3>2 DEF StoreInv, StoreApplying
  <2>3. CASE \E m \in DOMAIN batch : applying'[n] = batch[m]
    <3>1. PICK m \in DOMAIN batch : applying'[n] = batch[m]
      BY <2>3
    <3>2. batch[m].seq \in 1..counter /\ batch[m].seq > Flushed
      BY <1>2, <1>3
    <3>3. \A r \in log : r.seq # batch[m].seq
      BY <1>2, <3>2 DEF StoreInv, StoreTypeOK
    <3>4. \A k \in DOMAIN batch : batch[k].seq = batch[m].seq => k = m
      BY <1>2
    <3> QED
      BY <1>1, <1>4, <3>1, <3>2, <3>3, <3>4
  <2> QED
    BY <2>1, <2>2, <2>3
<1>10. \A n : SnapsAfter(n)' = SnapsAfter(n)
  BY <1>1 DEF SnapsAfter, SnapSeqs
<1>11. StoreCovered'
  <2>1. snaps' = {} => Covers({}, 0)'
    BY <1>1, <1>2, <1>6 DEF StoreInv, StoreCovered
  <2>2. \A s \in snaps \cup candidates : s.seq \in Nat /\ s.seq <= Flushed
    BY <1>2 DEF StoreInv, StoreTypeOK, Summary
  <2>3. \A s \in snaps' : Covers(s.text, s.seq)'
    BY <1>1, <1>6, <2>2 DEF StoreInv, StoreCovered
  <2>4. \A s \in candidates' : Covers(s.text, s.seq)' \/ Cardinality(SnapsAfter(s.seq)') >= Retain
    BY <1>1, <1>6, <1>10, <2>2 DEF StoreInv, StoreCovered
  <2> QED
    BY <2>1, <2>3, <2>4 DEF StoreCovered
<1>12. \A c \in Subscribers : /\ sub[c].snap \in Nat /\ sub[c].snap <= Flushed
                              /\ sub[c].head \in Nat /\ sub[c].head <= Flushed
  BY <1>2 DEF StoreInv, StoreTypeOK
<1>13. StoreLoading'
  BY <1>1, <1>6, <1>10, <1>12 DEF StoreInv, StoreLoading
<1>14. StoreHydrating'
  BY <1>1, <1>7, <1>12 DEF StoreInv, StoreHydrating
<1>15. StoreSubscribersCounted'
  BY <1>1 DEF StoreInv, StoreSubscribersCounted
<1>16. StoreGapOnlyUnderOldBase'
  <2>1. \A d \in loaded, r \in new : ~(r.seq <= d.head)
    BY <1>2, <1>4 DEF StoreInv, StoreTypeOK
  <2> QED
    BY <1>1, <2>1 DEF StoreInv, StoreGapOnlyUnderOldBase
<1> QED
  BY <1>8, <1>9, <1>11, <1>13, <1>14, <1>15, <1>16 DEF StoreInv

\* The counter starts again after everything in the tables.
LEMMA RestartInv == ASSUME StoreInv, store_restart PROVE StoreInv'
<1>1. /\ UNCHANGED <<log, snaps, kept>> /\ counter' = Greatest(LogSeqs \cup SnapSeqs)
      /\ batch' = <<>> /\ applying' = <<>> /\ loaded' = {} /\ candidates' = {}
  BY DEF store_restart, recover_from_max_server_seq
<1>2. /\ DOMAIN sub' = Subscribers
      /\ \A c \in Subscribers : /\ DOMAIN sub'[c] = SubFields /\ sub'[c].at = "no"
                                /\ sub'[c].snap = 0 /\ sub'[c].head = 0 /\ sub'[c].since = 0
  BY DEF store_restart, NoSub, SubFields
<1> DEFINE S == LogSeqs \cup SnapSeqs
<1>3. S \in SUBSET Nat /\ (\A x \in S : x <= Flushed) /\ Flushed \in Nat
  BY DEF StoreInv, StoreTypeOK, LogSeqs, SnapSeqs, Summary
<1>4. Greatest(S) \in Nat /\ \A x \in S : x <= Greatest(S)
  <2> HIDE DEF S
  <2> QED
    BY <1>3, GreatestIs
<1>5. Flushed' = counter' /\ counter' \in Nat
  <2>1. Len(batch') = 0
    BY <1>1
  <2> QED
    BY <1>1, <1>4, <2>1 DEF Flushed
<1>6. /\ \A r \in log : r.seq \in 1..counter'
      /\ \A s \in snaps : s.seq \in 1..counter'
  <2>1. /\ \A r \in log : r.seq \in Nat /\ r.seq >= 1 /\ r.seq \in S
        /\ \A s \in snaps : s.seq \in Nat /\ s.seq >= 1 /\ s.seq \in S
    BY DEF StoreInv, StoreTypeOK, Summary, LogSeqs, SnapSeqs
  <2>2. counter' = Greatest(S)
    BY <1>1
  <2> HIDE DEF S
  <2>3. \A x \in S : x <= counter'
    BY <1>4, <2>2
  <2> QED
    BY <1>5, <2>1, <2>3
<1>7. DOMAIN batch' = {} /\ DOMAIN applying' = {} /\ batch' \in Seq(StoreRow) /\ applying' \in Seq(StoreRow)
  BY <1>1
<1>8. StoreTypeOK'
  <2>1. \A r \in log' : r.seq \in 1..Flushed' /\ r.id \in kept'
    BY <1>1, <1>5, <1>6 DEF StoreInv, StoreTypeOK
  <2>2. \A s \in snaps' \cup candidates' : Summary(s)'
    BY <1>1, <1>5, <1>6 DEF StoreInv, StoreTypeOK, Summary
  <2>3. \A c \in Subscribers :
          /\ DOMAIN sub'[c] = SubFields
          /\ sub'[c].snap \in 0..Flushed' /\ sub'[c].head \in 0..Flushed' /\ sub'[c].since \in Nat
    BY <1>2, <1>5
  <2> QED
    BY <1>1, <1>2, <1>5, <1>7, <2>1, <2>2, <2>3 DEF StoreTypeOK
<1>9. StoreApplying' /\ StoreLoading' /\ StoreHydrating' /\ StoreGapOnlyUnderOldBase'
  BY <1>1, <1>2, <1>7 DEF StoreApplying, StoreLoading, StoreHydrating, StoreGapOnlyUnderOldBase
<1>10. StoreCovered'
  BY <1>1 DEF StoreInv, StoreCovered, Covers
<1>11. StoreSubscribersCounted'
  <2>1. {c \in Subscribers : sub'[c].at = "yes"} = {}
    BY <1>2
  <2>2. Cardinality({c \in Subscribers : sub'[c].at = "yes"}) = 0
    BY <2>1, FS_EmptySet
  <2> QED
    BY <1>1, <2>2 DEF StoreSubscribersCounted
<1> QED
  BY <1>8, <1>9, <1>10, <1>11 DEF StoreInv

\* One subscriber goes on, and is as far as its record says.
SubOnly(c) ==
    /\ DOMAIN sub' = Subscribers
    /\ DOMAIN sub'[c] = SubFields
    /\ sub'[c].snap \in 0..Flushed /\ sub'[c].head \in 0..Flushed /\ sub'[c].since \in Nat
    /\ \A x \in Subscribers : x # c => sub'[x] = sub[x]

LEMMA SubscriberMoves ==
    ASSUME StoreInv, NEW c \in Subscribers, SubOnly(c),
           UNCHANGED <<counter, batch, log, snaps, applying, candidates, kept>>,
           \A d \in loaded' : DOMAIN d = LoadedFields /\ d.head \in 0..Flushed,
           \A d, e \in loaded' : d = e,
           sub'[c].at = "updates" => /\ Cardinality(SnapsAfter(sub'[c].snap)) <= sub'[c].since
                                     /\ sub'[c].since < Retain => Covers(sub'[c].text, sub'[c].snap),
           sub'[c].at \in {"subscribe", "hydrated"} /\ sub'[c].since < Retain =>
                Contains(sub'[c].text, sub'[c].head),
           StoreSubscribersCounted', StoreGapOnlyUnderOldBase'
    PROVE  StoreInv'
<1>1. Flushed' = Flushed
  BY DEF Flushed
<1>2. StoreTypeOK'
  BY <1>1 DEF StoreInv, StoreTypeOK, Summary, SubOnly
<1>3. StoreApplying'
  BY <1>1 DEF StoreInv, StoreApplying
<1>4. StoreLoading'
  BY TablesSame DEF StoreInv, StoreLoading, SubOnly
<1>5. StoreHydrating'
  BY TablesSame DEF StoreInv, StoreHydrating, SubOnly
<1> QED
  BY <1>2, <1>3, <1>4, <1>5, TablesSame DEF StoreInv

\* A subscriber that is none yet and stays so is not counted.
LEMMA NotCounted ==
    ASSUME StoreInv, NEW c \in Subscribers, SubOnly(c), UNCHANGED loaded,
           sub[c].at # "yes", sub'[c].at # "yes"
    PROVE  StoreSubscribersCounted'
<1>1. {x \in Subscribers : sub'[x].at = "yes"} = {x \in Subscribers : sub[x].at = "yes"}
  BY DEF SubOnly
<1> QED
  BY <1>1 DEF StoreInv, StoreSubscribersCounted

LEMMA LoadSnapshotInv == ASSUME StoreInv, NEW c \in Subscribers, load_latest_snapshot(c) PROVE StoreInv'
<1> DEFINE n == Greatest(SnapSeqs)
           text == UNION {s.text : s \in {x \in snaps : x.seq = n}}
<1>1. /\ n \in 0..Flushed /\ (\A m \in SnapSeqs : m <= n) /\ Covers(text, n) /\ Flushed \in Nat
  BY NewestCovers DEF StoreInv, StoreTypeOK
<1>2. sub' = [sub EXCEPT ![c] = [NoSub EXCEPT !.at = "updates", !.snap = n, !.text = text]]
  BY DEF load_latest_snapshot
<1>3. /\ UNCHANGED <<counter, batch, log, snaps, applying, loaded, candidates, kept, accepted>>
      /\ sub[c].at = "no"
  BY DEF load_latest_snapshot
<1> HIDE DEF n, text
<1>4. /\ SubOnly(c) /\ sub'[c].at = "updates" /\ sub'[c].snap = n /\ sub'[c].text = text
      /\ sub'[c].since = 0
  BY <1>1, <1>2 DEF SubOnly, NoSub, SubFields, StoreInv, StoreTypeOK
<1>5. Cardinality(SnapsAfter(n)) <= 0
  <2>1. SnapSeqs \in SUBSET Nat
    BY SnapSeqsBounded DEF StoreInv
  <2>2. \A m \in SnapSeqs : ~(m > n)
    BY <1>1, <2>1
  <2>3. SnapsAfter(n) = {}
    BY <2>2 DEF SnapsAfter
  <2> QED
    BY <2>3, FS_EmptySet
<1>6. StoreSubscribersCounted'
  BY <1>3, <1>4, NotCounted
<1>7. StoreGapOnlyUnderOldBase'
  BY <1>3 DEF StoreInv, StoreGapOnlyUnderOldBase
<1>8. \A d, e \in loaded : d = e
  BY DEF StoreInv, StoreTypeOK
<1>9. \A d \in loaded : DOMAIN d = LoadedFields /\ d.head \in 0..Flushed
  BY DEF StoreInv, StoreTypeOK
<1> QED
  BY <1>1, <1>3, <1>4, <1>5, <1>6, <1>7, <1>8, <1>9, SubscriberMoves

\* What the snapshot of a load lacks is in the rows after it, all of which are still there.
LEMMA LoadUpdatesInv == ASSUME StoreInv, NEW c \in Subscribers, load_updates(c) PROVE StoreInv'
<1> DEFINE snap == sub[c].snap
           newer == {r \in log : r.seq > snap}
           S == {r.seq : r \in newer} \cup {snap}
           text == sub[c].text \cup Ids(newer)
           head == Greatest(S)
<1>1. sub' = [sub EXCEPT ![c].at = "subscribe", ![c].snap = 0, ![c].text = text, ![c].head = head]
  BY DEF load_updates
<1>2. /\ UNCHANGED <<counter, batch, log, snaps, applying, loaded, candidates, kept, accepted>>
      /\ sub[c].at = "updates"
  BY DEF load_updates
<1>3. /\ S \in SUBSET Nat /\ (\A x \in S : x <= Flushed) /\ Flushed \in Nat
  BY DEF StoreInv, StoreTypeOK
<1>4. head \in Nat /\ head <= Flushed
  <2> HIDE DEF S
  <2> QED
    BY <1>3, GreatestIs
<1>5. \A u \in sub[c].text : u \in text
  OBVIOUS
<1>6. \A r \in log : r.seq > snap => r.id \in text
  BY DEF Ids
<1> HIDE DEF text, head, S
<1>7. /\ SubOnly(c) /\ sub'[c].at = "subscribe" /\ sub'[c].head = head /\ sub'[c].text = text
      /\ sub'[c].since = sub[c].since
  BY <1>1, <1>3, <1>4 DEF SubOnly, SubFields, StoreInv, StoreTypeOK
<1>8. ASSUME sub[c].since < Retain PROVE Contains(text, head)
  <2>1. Covers(sub[c].text, snap)
    BY <1>2, <1>8 DEF StoreInv, StoreLoading
  <2>2. \A u \in kept : u \in text
    BY <1>5, <1>6, <2>1 DEF Covers
  <2> QED
    BY <2>2 DEF Contains, StoreInv, StoreTypeOK, Summary
<1>9. StoreSubscribersCounted'
  BY <1>2, <1>7, NotCounted
<1>10. StoreGapOnlyUnderOldBase'
  BY <1>2 DEF StoreInv, StoreGapOnlyUnderOldBase
<1>11. \A d, e \in loaded : d = e
  BY DEF StoreInv, StoreTypeOK
<1>12. \A d \in loaded : DOMAIN d = LoadedFields /\ d.head \in 0..Flushed
  BY DEF StoreInv, StoreTypeOK
<1> QED
  BY <1>2, <1>7, <1>8, <1>9, <1>10, <1>11, <1>12, SubscriberMoves

\* The subscribers that are counted, when one joins and when one leaves.
LEMMA CountedJoins ==
    ASSUME StoreInv, NEW c \in Subscribers, SubOnly(c), sub[c].at # "yes", sub'[c].at = "yes"
    PROVE  /\ Cardinality({x \in Subscribers : sub[x].at = "yes"}) \in Nat
           /\ Cardinality({x \in Subscribers : sub'[x].at = "yes"})
                = Cardinality({x \in Subscribers : sub[x].at = "yes"}) + 1
<1> DEFINE Y == {x \in Subscribers : sub[x].at = "yes"}
<1>1. Y \in SUBSET Subscribers /\ c \notin Y
  OBVIOUS
<1>2. {x \in Subscribers : sub'[x].at = "yes"} = Y \cup {c}
  BY DEF SubOnly
<1>3. IsFiniteSet(Y)
  BY <1>1, FS_Subset, SubscribersAssumption
<1> HIDE DEF Y
<1>4. Cardinality(Y) \in Nat /\ Cardinality(Y \cup {c}) = Cardinality(Y) + 1
  BY <1>1, <1>3, FS_AddElement, FS_CardinalityType
<1> QED
  BY <1>2, <1>4 DEF Y

LEMMA CountedLeaves ==
    ASSUME StoreInv, NEW c \in Subscribers, SubOnly(c), sub[c].at = "yes", sub'[c].at # "yes"
    PROVE  /\ Cardinality({x \in Subscribers : sub[x].at = "yes"}) \in Nat \ {0}
           /\ Cardinality({x \in Subscribers : sub'[x].at = "yes"})
                = Cardinality({x \in Subscribers : sub[x].at = "yes"}) - 1
<1> DEFINE Y == {x \in Subscribers : sub[x].at = "yes"}
<1>1. Y \in SUBSET Subscribers /\ c \in Y
  OBVIOUS
<1>2. {x \in Subscribers : sub'[x].at = "yes"} = Y \ {c}
  BY DEF SubOnly
<1>3. IsFiniteSet(Y)
  BY <1>1, FS_Subset, SubscribersAssumption
<1> HIDE DEF Y
<1>4. Cardinality(Y) \in Nat /\ Cardinality(Y) # 0 /\ Cardinality(Y \ {c}) = Cardinality(Y) - 1
  BY <1>1, <1>3, FS_RemoveElement, FS_CardinalityType, FS_EmptySet
<1> QED
  BY <1>2, <1>4 DEF Y

\* What is in memory, after one more subscriber.
LEMMA AddedSubscriber ==
    ASSUME StoreInv, NEW d \in loaded
    PROVE  LET e == AddSubscriber(d)
           IN  /\ DOMAIN e = LoadedFields /\ e.head = d.head /\ e.text = d.text /\ e.cut = d.cut
               /\ e.subs = d.subs + 1
<1>1. DOMAIN d = LoadedFields
  BY DEF StoreInv, StoreTypeOK
<1> QED
  BY <1>1 DEF AddSubscriber, LoadedFields

\* The document was there, under the first lock or the second.
LEMMA JoinsInv ==
    ASSUME StoreInv, NEW c \in Subscribers, SubOnly(c), sub[c].at # "yes", sub'[c].at = "yes",
           UNCHANGED <<counter, batch, log, snaps, applying, candidates, kept, accepted>>,
           loaded # {}, loaded' = {AddSubscriber(d) : d \in loaded}
    PROVE  StoreInv'
<1>1. PICK d \in loaded : loaded = {d}
  BY DEF StoreInv, StoreTypeOK
<1> DEFINE e == AddSubscriber(d)
<1>2. loaded' = {e}
  BY <1>1
<1>3. /\ DOMAIN e = LoadedFields /\ e.head = d.head /\ e.text = d.text /\ e.cut = d.cut
      /\ e.subs = d.subs + 1
  BY AddedSubscriber
<1> HIDE DEF e
<1>4. StoreSubscribersCounted'
  BY <1>1, <1>2, <1>3, CountedJoins DEF StoreInv, StoreSubscribersCounted
<1>5. StoreGapOnlyUnderOldBase'
  BY <1>1, <1>2, <1>3 DEF StoreInv, StoreGapOnlyUnderOldBase
<1>6. \A x \in loaded' : DOMAIN x = LoadedFields /\ x.head \in 0..Flushed
  BY <1>1, <1>2, <1>3 DEF StoreInv, StoreTypeOK
<1>7. \A x, y \in loaded' : x = y
  BY <1>2
<1> QED
  BY <1>4, <1>5, <1>6, <1>7, SubscriberMoves

LEMMA SubscribeExistingInv == ASSUME StoreInv, NEW c \in Subscribers, subscribe_existing(c) PROVE StoreInv'
<1>1. /\ sub[c].at = "subscribe" /\ loaded' = {AddSubscriber(d) : d \in loaded}
      /\ sub' = [sub EXCEPT ![c] = IF loaded = {} THEN [sub[c] EXCEPT !.at = "hydrated"] ELSE Subscribed]
      /\ UNCHANGED <<counter, batch, log, snaps, applying, candidates, kept, accepted>>
  BY DEF subscribe_existing
<1>2. /\ DOMAIN sub = Subscribers /\ DOMAIN sub[c] = SubFields /\ Flushed \in Nat
      /\ sub[c].snap \in 0..Flushed /\ sub[c].head \in 0..Flushed /\ sub[c].since \in Nat
  BY DEF StoreInv, StoreTypeOK
<1>3. CASE loaded = {}
  <2>1. sub' = [sub EXCEPT ![c] = [sub[c] EXCEPT !.at = "hydrated"]] /\ loaded' = loaded
    BY <1>1, <1>3
  <2>2. /\ SubOnly(c) /\ sub'[c].at = "hydrated" /\ sub'[c].text = sub[c].text
        /\ sub'[c].head = sub[c].head /\ sub'[c].since = sub[c].since
    BY <1>2, <2>1 DEF SubOnly, SubFields
  <2>3. sub'[c].since < Retain => Contains(sub'[c].text, sub'[c].head)
    BY <1>1, <2>2 DEF StoreInv, StoreHydrating
  <2>4. StoreSubscribersCounted'
    BY <1>1, <2>1, <2>2, NotCounted
  <2>5. StoreGapOnlyUnderOldBase'
    BY <1>3, <2>1 DEF StoreGapOnlyUnderOldBase
  <2> QED
    BY <1>1, <1>3, <2>1, <2>2, <2>3, <2>4, <2>5, SubscriberMoves
<1>4. CASE loaded # {}
  <2>1. sub' = [sub EXCEPT ![c] = Subscribed]
    BY <1>1, <1>4
  <2>2. SubOnly(c) /\ sub'[c].at = "yes"
    BY <1>2, <2>1 DEF SubOnly, SubFields, Subscribed, NoSub
  <2> QED
    BY <1>1, <1>4, <2>2, JoinsInv
<1> QED
  BY <1>3, <1>4

\* The first of those who loaded the document puts it in memory.
LEMMA SubscribeInsertInv == ASSUME StoreInv, NEW c \in Subscribers, subscribe_insert(c) PROVE StoreInv'
<1>1. /\ sub[c].at = "hydrated" /\ sub' = [sub EXCEPT ![c] = Subscribed]
      /\ UNCHANGED <<counter, batch, log, snaps, applying, candidates, kept>>
  BY DEF subscribe_insert
<1>2. /\ DOMAIN sub = Subscribers /\ DOMAIN sub[c] = SubFields /\ Flushed \in Nat
      /\ sub[c].snap \in 0..Flushed /\ sub[c].head \in 0..Flushed /\ sub[c].since \in Nat
  BY DEF StoreInv, StoreTypeOK
<1>3. SubOnly(c) /\ sub'[c].at = "yes"
  BY <1>1, <1>2 DEF SubOnly, SubFields, Subscribed, NoSub
<1>4. CASE loaded # {}
  <2>1. loaded' = {AddSubscriber(d) : d \in loaded} /\ accepted' = accepted
    BY <1>4 DEF subscribe_insert
  <2> QED
    BY <1>1, <1>3, <1>4, <2>1, JoinsInv
<1>5. CASE loaded = {}
  <2> DEFINE e == [text |-> sub[c].text, head |-> sub[c].head, subs |-> 1, cut |-> sub[c].since >= Retain]
  <2>1. loaded' = {e}
    BY <1>5 DEF subscribe_insert
  <2>2. /\ DOMAIN e = LoadedFields /\ e.text = sub[c].text /\ e.head = sub[c].head /\ e.subs = 1
        /\ e.cut = (sub[c].since >= Retain)
    BY DEF LoadedFields
  <2> HIDE DEF e
  <2>3. StoreSubscribersCounted'
    <3>1. Cardinality({x \in Subscribers : sub[x].at = "yes"}) = 0
      <4> DEFINE n == Cardinality({x \in Subscribers : sub[x].at = "yes"})
      <4>1. n \in Nat
        BY <1>1, <1>3, CountedJoins
      <4>2. ~(n > 0)
        BY <1>5 DEF StoreInv, StoreSubscribersCounted
      <4> HIDE DEF n
      <4>3. n = 0
        BY <4>1, <4>2
      <4> QED
        BY <4>3 DEF n
    <3>2. Cardinality({x \in Subscribers : sub'[x].at = "yes"}) = 1
      BY <1>1, <1>3, <3>1, CountedJoins
    <3> QED
      BY <2>1, <2>2, <3>2 DEF StoreSubscribersCounted
  <2>4. StoreGapOnlyUnderOldBase'
    <3>1. e.cut \/ Contains(e.text, e.head)
      <4>1. CASE sub[c].since < Retain
        BY <1>1, <2>2, <4>1 DEF StoreInv, StoreHydrating
      <4>2. CASE ~(sub[c].since < Retain)
        <5>1. sub[c].since >= Retain
          BY <1>2, <4>2, RetainAssumption
        <5> QED
          BY <2>2, <5>1
      <4> QED
        BY <4>1, <4>2
    <3> QED
      BY <1>1, <2>1, <3>1 DEF StoreGapOnlyUnderOldBase, Contains
  <2>5. \A d \in loaded' : DOMAIN d = LoadedFields /\ d.head \in 0..Flushed
    BY <1>2, <2>1, <2>2
  <2>6. \A d, x \in loaded' : d = x
    BY <2>1
  <2> QED
    BY <1>1, <1>3, <2>3, <2>4, <2>5, <2>6, SubscriberMoves
<1> QED
  BY <1>4, <1>5

LEMMA UnsubscribeInv == ASSUME StoreInv, NEW c \in Subscribers, unsubscribe(c) PROVE StoreInv'
<1>1. /\ sub[c].at = "yes" /\ sub' = [sub EXCEPT ![c] = NoSub]
      /\ UNCHANGED <<counter, batch, log, snaps, applying, candidates, kept, accepted>>
      /\ loaded' = {[d EXCEPT !.subs = IF d.subs = 0 THEN 0 ELSE d.subs - 1] : d \in loaded}
  BY DEF unsubscribe
<1>2. DOMAIN sub = Subscribers /\ Flushed \in Nat
  BY DEF StoreInv, StoreTypeOK
<1>3. SubOnly(c) /\ sub'[c].at = "no"
  BY <1>1, <1>2 DEF SubOnly, SubFields, NoSub
<1> DEFINE n == Cardinality({x \in Subscribers : sub[x].at = "yes"})
           k == Cardinality({x \in Subscribers : sub'[x].at = "yes"})
<1>4. n \in Nat \ {0} /\ k = n - 1
  BY <1>1, <1>3, CountedLeaves
<1>5. loaded # {} /\ \A d \in loaded : d.subs = n
  BY <1>4 DEF StoreInv, StoreSubscribersCounted
<1>6. PICK d \in loaded : loaded = {d}
  BY <1>5 DEF StoreInv, StoreTypeOK
<1>7. DOMAIN d = LoadedFields /\ d.head \in 0..Flushed /\ d.subs = n
  BY <1>5 DEF StoreInv, StoreTypeOK
<1> DEFINE m == IF d.subs = 0 THEN 0 ELSE d.subs - 1
           e == [d EXCEPT !.subs = m]
<1>8. loaded' = {e}
  BY <1>1, <1>6
<1>9. m = k
  <2> HIDE DEF n, k
  <2> QED
    BY <1>4, <1>7
<1> HIDE DEF m
<1>10. DOMAIN e = LoadedFields /\ e.head = d.head /\ e.text = d.text /\ e.cut = d.cut /\ e.subs = m
  BY <1>7 DEF LoadedFields
<1> HIDE DEF e
<1>11. StoreSubscribersCounted'
  BY <1>8, <1>9, <1>10 DEF StoreSubscribersCounted
<1>12. StoreGapOnlyUnderOldBase'
  BY <1>1, <1>6, <1>8, <1>10 DEF StoreInv, StoreGapOnlyUnderOldBase
<1>13. /\ \A x \in loaded' : DOMAIN x = LoadedFields /\ x.head \in 0..Flushed
       /\ \A x, y \in loaded' : x = y
  BY <1>7, <1>8, <1>10
<1> QED
  BY <1>1, <1>3, <1>11, <1>12, <1>13, SubscriberMoves

LEMMA HeadAndTail ==
    ASSUME NEW S, NEW q \in Seq(S), q # <<>>
    PROVE  /\ 1 \in DOMAIN q /\ Head(q) = q[1]
           /\ Tail(q) \in Seq(S)
           /\ \A n \in DOMAIN Tail(q) : n + 1 \in DOMAIN q /\ Tail(q)[n] = q[n + 1]
<1>1. DOMAIN q = 1..Len(q) /\ Len(q) \in Nat /\ Len(q) # 0
  OBVIOUS
<1>2. Tail(q) \in Seq(S) /\ Len(Tail(q)) = Len(q) - 1 /\ DOMAIN Tail(q) = 1..Len(Tail(q))
  <2>1. Tail(q) \in Seq(S)
    OBVIOUS
  <2>2. Len(Tail(q)) = Len(q) - 1
    OBVIOUS
  <2> QED
    BY <2>1, <2>2
<1>3. \A n \in 1..Len(q) - 1 : Tail(q)[n] = q[n + 1]
  OBVIOUS
<1> QED
  BY <1>1, <1>2, <1>3

\* Between the base, which is not after the head, and the new head, a row may be missing.
LEMMA ApplyInv == ASSUME StoreInv, NEW base \in 0..MaxSeq, apply_sequenced_update(base) PROVE StoreInv'
<1> DEFINE u == Head(applying)
           hit == {d \in loaded : Applicable(d, base, u.seq)}
<1>1. /\ applying # <<>> /\ applying' = Tail(applying)
      /\ UNCHANGED <<counter, batch, log, snaps, sub, candidates, kept>>
      /\ loaded' = (loaded \ hit) \cup {[d EXCEPT !.text = d.text \cup {u.id}, !.head = u.seq] : d \in hit}
      /\ accepted' = IF hit = {} THEN accepted ELSE accepted \cup {[base |-> base, seq |-> u.seq]}
  BY DEF apply_sequenced_update
<1>2. applying \in Seq(StoreRow)
  BY DEF StoreInv, StoreTypeOK
<1>3. /\ u = applying[1] /\ 1 \in DOMAIN applying /\ applying' \in Seq(StoreRow)
      /\ \A n \in DOMAIN applying' : n + 1 \in DOMAIN applying /\ applying'[n] = applying[n + 1]
  BY <1>1, <1>2, HeadAndTail
<1>4. /\ u.seq \in 1..Flushed /\ Flushed \in Nat
      /\ \A r \in log : r.seq = u.seq => r.id = u.id
  BY <1>3 DEF StoreInv, StoreApplying, StoreTypeOK
<1> HIDE DEF u
<1>5. Flushed' = Flushed
  BY <1>1 DEF Flushed
<1>6. StoreApplying'
  <2> SUFFICES ASSUME NEW n \in DOMAIN applying'
               PROVE  /\ applying'[n].seq \in 1..Flushed
                      /\ \A r \in log : r.seq = applying'[n].seq => r.id = applying'[n].id
    BY <1>1, <1>5 DEF StoreApplying
  <2>1. PICK m \in DOMAIN applying : applying'[n] = applying[m]
    BY <1>3
  <2> QED
    BY <2>1 DEF StoreInv, StoreApplying
<1>7. StoreCovered' /\ StoreLoading' /\ StoreHydrating'
  BY <1>1, TablesSame DEF StoreInv, StoreLoading, StoreHydrating
<1>8. /\ \A d \in loaded' : DOMAIN d = LoadedFields /\ d.head \in 0..Flushed
      /\ \A d, e \in loaded' : d = e
      /\ StoreSubscribersCounted' /\ StoreGapOnlyUnderOldBase'
  <2>1. CASE hit = {}
    <3>1. loaded' = loaded /\ accepted' = accepted
      BY <1>1, <2>1
    <3>2. StoreSubscribersCounted' /\ StoreGapOnlyUnderOldBase'
      BY <1>1, <3>1 DEF StoreInv, StoreSubscribersCounted, StoreGapOnlyUnderOldBase
    <3> QED
      BY <3>1, <3>2 DEF StoreInv, StoreTypeOK
  <2>2. CASE hit # {}
    <3>1. PICK d \in hit : TRUE
      BY <2>2
    <3>2. loaded = {d} /\ hit = {d} /\ d \in loaded
      BY <3>1 DEF StoreInv, StoreTypeOK
    <3> DEFINE text == d.text \cup {u.id}
               e == [d EXCEPT !.text = text, !.head = u.seq]
    <3>3. loaded' = {e}
      BY <1>1, <3>2
    <3>4. DOMAIN d = LoadedFields /\ d.head \in Nat /\ base <= d.head /\ u.seq > d.head
      BY <3>1, <3>2 DEF Applicable, StoreInv, StoreTypeOK
    <3>5. u.id \in text /\ \A x \in d.text : x \in text
      OBVIOUS
    <3> HIDE DEF text
    <3>6. DOMAIN e = LoadedFields /\ e.text = text /\ e.head = u.seq /\ e.subs = d.subs /\ e.cut = d.cut
      BY <3>4 DEF LoadedFields
    <3> HIDE DEF e
    <3>7. StoreSubscribersCounted'
      BY <1>1, <3>2, <3>3, <3>6 DEF StoreInv, StoreSubscribersCounted
    <3>8. StoreGapOnlyUnderOldBase'
      <4> SUFFICES ASSUME NEW r \in log, r.seq <= u.seq, r.id \notin text
                   PROVE  (\E a \in accepted' : a.base < r.seq /\ r.seq < a.seq) \/ d.cut
        BY <1>1, <3>3, <3>6 DEF StoreGapOnlyUnderOldBase
      <4>1. r.seq \in Nat /\ u.seq \in Nat /\ base \in Int
        BY <1>4 DEF StoreInv, StoreTypeOK
      <4>2. CASE r.seq <= d.head
        <5>1. (\E a \in accepted : a.base < r.seq /\ r.seq < a.seq) \/ d.cut
          BY <3>2, <3>5, <4>2 DEF StoreInv, StoreGapOnlyUnderOldBase
        <5> QED
          BY <1>1, <5>1
      <4>3. CASE ~(r.seq <= d.head)
        <5>1. r.seq # u.seq
          BY <1>4, <3>5
        <5>2. base < r.seq /\ r.seq < u.seq
          BY <3>4, <4>1, <4>3, <5>1
        <5> DEFINE a == [base |-> base, seq |-> u.seq]
        <5>3. a \in accepted' /\ a.base = base /\ a.seq = u.seq
          BY <1>1, <2>2
        <5> HIDE DEF a
        <5> QED
          BY <5>2, <5>3
      <4> QED
        BY <4>2, <4>3
    <3>9. e.head \in 0..Flushed
      BY <1>4, <3>6
    <3> QED
      BY <3>3, <3>6, <3>7, <3>8, <3>9
  <2> QED
    BY <2>1, <2>2
<1>9. StoreTypeOK'
  BY <1>1, <1>3, <1>5, <1>8 DEF StoreInv, StoreTypeOK, Summary
<1> QED
  BY <1>6, <1>7, <1>8, <1>9 DEF StoreInv

LEMMA UnloadInv == ASSUME StoreInv, unload_inactive PROVE StoreInv'
<1>1. /\ loaded' = {d \in loaded : d.subs # 0} /\ \E d \in loaded : d.subs = 0
      /\ UNCHANGED <<counter, batch, log, snaps, applying, sub, candidates, kept>>
  BY DEF unload_inactive
<1>2. PICK d \in loaded : loaded = {d} /\ d.subs = 0
  BY <1>1 DEF StoreInv, StoreTypeOK
<1>3. loaded' = {}
  BY <1>1, <1>2
<1>4. Flushed' = Flushed
  BY <1>1 DEF Flushed
<1>5. StoreTypeOK'
  BY <1>1, <1>3, <1>4 DEF StoreInv, StoreTypeOK, Summary
<1>6. StoreApplying'
  BY <1>1, <1>4 DEF StoreInv, StoreApplying
<1>7. StoreCovered' /\ StoreLoading' /\ StoreHydrating'
  BY <1>1, TablesSame DEF StoreInv, StoreLoading, StoreHydrating
<1>8. StoreSubscribersCounted'
  <2>1. Cardinality({c \in Subscribers : sub[c].at = "yes"}) = 0
    BY <1>2 DEF StoreInv, StoreSubscribersCounted
  <2> QED
    BY <1>1, <1>3, <2>1 DEF StoreSubscribersCounted
<1>9. StoreGapOnlyUnderOldBase'
  BY <1>3 DEF StoreGapOnlyUnderOldBase
<1> QED
  BY <1>5, <1>6, <1>7, <1>8, <1>9 DEF StoreInv

\* The candidate has everything up to its number, which is after the newest snapshot.
LEMMA MaybeSnapshotInv ==
    ASSUME StoreInv, NEW seq \in LogSeqs, NEW late, maybe_snapshot(seq, late) PROVE StoreInv'
<1> DEFINE text == TextUpTo(seq)
           new == [seq |-> seq, text |-> text]
<1>1. /\ candidates' = candidates \cup {new}
      /\ UNCHANGED <<counter, batch, log, snaps, applying, loaded, sub, kept, accepted>>
      /\ SnapSeqs = {} \/ seq > Greatest(SnapSeqs)
  BY DEF maybe_snapshot, should_snapshot
<1>2. seq \in 1..Flushed /\ Flushed \in Nat
  BY DEF LogSeqs, StoreInv, StoreTypeOK
<1>3. /\ \A s \in snaps : s.seq <= seq => \A u \in s.text : u \in text
      /\ \A r \in log : r.seq <= seq => r.id \in text
      /\ \A u \in text : \/ \E s \in snaps : s.seq <= seq /\ u \in s.text
                         \/ \E r \in log : r.seq <= seq /\ r.id = u
  <2>1. text = (UNION {s.text : s \in {x \in snaps : x.seq <= seq}}) \cup Ids({r \in log : r.seq <= seq})
    BY DEF TextUpTo
  <2>2. \A s \in snaps : s.seq <= seq => \A u \in s.text : u \in text
    BY <2>1
  <2>3. \A r \in log : r.seq <= seq => r.id \in text
    BY <2>1 DEF Ids
  <2> HIDE DEF text
  <2>4. \A u \in text : \/ \E s \in snaps : s.seq <= seq /\ u \in s.text
                       \/ \E r \in log : r.seq <= seq /\ r.id = u
    BY <2>1 DEF Ids
  <2> QED
    BY <2>2, <2>3, <2>4
<1> HIDE DEF text
<1>4. new.seq = seq /\ new.text = text
  OBVIOUS
<1> HIDE DEF new
<1>5. \A u \in text : u \in kept
  BY <1>3 DEF StoreInv, StoreTypeOK, Summary
<1>6. \A r \in log : r.seq \in Nat
  BY DEF StoreInv, StoreTypeOK
<1>7. Covers(text, seq)
  <2> SUFFICES ASSUME NEW u \in kept, u \notin text PROVE \E r \in log : r.seq > seq /\ r.id = u
    BY DEF Covers
  <2> DEFINE n == Greatest(SnapSeqs)
             newest == UNION {s.text : s \in {x \in snaps : x.seq = n}}
  <2>1. n \in 0..Flushed /\ (\A m \in SnapSeqs : m <= n) /\ Covers(newest, n)
    BY NewestCovers DEF StoreInv
  <2>2. \A s \in snaps : s.seq \in SnapSeqs /\ s.seq \in Nat
    BY DEF SnapSeqs, StoreInv, StoreTypeOK, Summary
  <2>3. \A s \in snaps : s.seq <= seq
    BY <1>1, <1>2, <2>1, <2>2
  <2>4. u \notin newest
    BY <1>3, <2>3
  <2>5. PICK r \in log : r.id = u
    BY <2>1, <2>4 DEF Covers
  <2>6. ~(r.seq <= seq)
    BY <1>3, <2>5
  <2> QED
    BY <1>2, <1>6, <2>5, <2>6
<1>8. Flushed' = Flushed
  BY <1>1 DEF Flushed
<1>9. StoreTypeOK'
  <2>1. Summary(new)
    BY <1>2, <1>4, <1>5 DEF Summary
  <2> QED
    BY <1>1, <1>8, <2>1 DEF StoreInv, StoreTypeOK, Summary
<1>10. StoreApplying'
  BY <1>1, <1>8 DEF StoreInv, StoreApplying
<1>11. /\ \A n : SnapsAfter(n)' = SnapsAfter(n)
       /\ \A x, n : Covers(x, n)' <=> Covers(x, n)
  BY <1>1 DEF SnapsAfter, SnapSeqs, Covers
<1>12. StoreCovered'
  BY <1>1, <1>4, <1>7, <1>11 DEF StoreInv, StoreCovered
<1>13. StoreLoading'
  BY <1>1, <1>11 DEF StoreInv, StoreLoading
<1>14. StoreHydrating'
  <2>1. ASSUME NEW x, NEW n \in Nat, Contains(x, n) PROVE Contains(x, n)'
    <3>1. seq <= n => \A u \in text : u \in x
      <4> SUFFICES ASSUME seq <= n, NEW u \in text PROVE u \in x
        OBVIOUS
      <4>1. \A k \in Nat : k <= seq => k <= n
        BY <1>2
      <4>2. \A s \in snaps : s.seq \in Nat
        BY DEF StoreInv, StoreTypeOK, Summary
      <4> QED
        BY <1>3, <1>6, <2>1, <4>1, <4>2 DEF Contains
    <3> QED
      BY <1>1, <1>4, <2>1, <3>1 DEF Contains
  <2>2. \A c \in Subscribers : sub[c].head \in Nat
    BY DEF StoreInv, StoreTypeOK
  <2> QED
    BY <1>1, <2>1, <2>2 DEF StoreInv, StoreHydrating
<1>15. StoreSubscribersCounted' /\ StoreGapOnlyUnderOldBase'
  BY <1>1 DEF StoreInv, StoreSubscribersCounted, StoreGapOnlyUnderOldBase
<1> QED
  BY <1>9, <1>10, <1>12, <1>13, <1>14, <1>15 DEF StoreInv

\* The tables after the transaction, in terms of the numbers that are retained.
LEMMA Compacted ==
    ASSUME StoreInv, NEW new \in candidates, snapshot_and_compact(new),
           NEW S, S = SnapSeqs \cup {new.seq}, NEW R, R = Retained(S)
    PROVE  /\ R \in SUBSET S /\ R # {} /\ S \in SUBSET Nat /\ IsFiniteSet(S) /\ IsFiniteSet(R)
           /\ Cardinality(R) \in Nat
           /\ R = S \/ Cardinality(R) >= Retain
           /\ \A n \in R : Cardinality({m \in S : m > n}) < Retain
           /\ SnapSeqs' = R
           /\ \A s \in snaps' : s \in snaps \/ s = new
           /\ \A s \in snaps' : s.seq \in R
           /\ \E cut \in Nat :
                 /\ log' = {r \in log : r.seq > cut}
                 /\ \A m \in R : cut <= m
                 /\ cut = 0 \/ Cardinality(R) >= Retain
<1>1. /\ SnapSeqs \in SUBSET Nat /\ Flushed \in Nat /\ new.seq \in Nat /\ new.seq <= Flushed
      /\ \A m \in SnapSeqs : m <= Flushed
  BY SnapSeqsBounded DEF StoreInv, StoreTypeOK, Summary
<1>2. S \in SUBSET Nat /\ S # {} /\ \A m \in S : m <= Flushed
  BY <1>1
<1>3. /\ IsFiniteSet(S) /\ R \in SUBSET S /\ R # {}
      /\ \A n \in R, m \in S : m >= n => m \in R
      /\ R = S \/ Cardinality(R) >= Retain
  BY <1>1, <1>2, RetainedNewest
<1>4. \A n \in R : Cardinality({m \in S : m > n}) < Retain
  BY DEF Retained
<1>5. IsFiniteSet(R) /\ Cardinality(R) \in Nat
  BY <1>3, FS_Subset, FS_CardinalityType
<1> DEFINE low == Min(R)
<1>6. R \in SUBSET Nat /\ low \in R /\ \A m \in R : low <= m
  BY <1>2, <1>3, LeastOf
<1> DEFINE all == IF new.seq \in SnapSeqs THEN snaps ELSE snaps \cup {new}
           cut == IF Cardinality(R) >= Retain THEN low ELSE 0
<1>7. {s.seq : s \in all} = S
  BY DEF SnapSeqs
<1>8. snaps' = {s \in all : s.seq >= low} /\ log' = {r \in log : r.seq > cut}
  BY <1>7 DEF snapshot_and_compact, build_compaction_plan
<1>9. \A s \in all : (s \in snaps \/ s = new) /\ s.seq \in S
  BY <1>7
<1> HIDE DEF low
<1>10. \A m \in S : m >= low <=> m \in R
  BY <1>2, <1>3, <1>6
<1>11. SnapSeqs' = R
  <2>1. \A m \in R : \E s \in all : s.seq = m
    BY <1>3, <1>7
  <2> HIDE DEF all
  <2>2. ASSUME NEW m \in R PROVE m \in SnapSeqs'
    <3>1. PICK s \in all : s.seq = m
      BY <2>1
    <3>2. s \in snaps'
      BY <1>3, <1>8, <1>10, <3>1
    <3> QED
      BY <3>1, <3>2 DEF SnapSeqs
  <2>3. ASSUME NEW m \in SnapSeqs' PROVE m \in R
    <3>1. PICK s \in snaps' : s.seq = m
      BY DEF SnapSeqs
    <3> QED
      BY <1>8, <1>9, <1>10, <3>1
  <2> QED
    BY <2>2, <2>3
<1>12. cut \in Nat /\ (\A m \in R : cut <= m) /\ (cut = 0 \/ Cardinality(R) >= Retain)
  BY <1>6
<1> HIDE DEF all, cut
<1> QED
  BY <1>2, <1>3, <1>4, <1>5, <1>8, <1>9, <1>10, <1>11, <1>12

\* A compaction takes no row away that somebody who will be kept, or is early enough, needs.
LEMMA CompactInv == ASSUME StoreInv, NEW new \in candidates, snapshot_and_compact(new) PROVE StoreInv'
<1> DEFINE S == SnapSeqs \cup {new.seq}
           R == Retained(S)
<1>1. /\ R \in SUBSET S /\ R # {} /\ S \in SUBSET Nat /\ IsFiniteSet(S) /\ IsFiniteSet(R)
      /\ Cardinality(R) \in Nat
      /\ R = S \/ Cardinality(R) >= Retain
      /\ \A n \in R : Cardinality({m \in S : m > n}) < Retain
      /\ SnapSeqs' = R
      /\ \A s \in snaps' : s \in snaps \/ s = new
      /\ \A s \in snaps' : s.seq \in R
      /\ \E cut \in Nat :
            /\ log' = {r \in log : r.seq > cut}
            /\ \A m \in R : cut <= m
            /\ cut = 0 \/ Cardinality(R) >= Retain
  BY Compacted
<1>2. PICK cut \in Nat : /\ log' = {r \in log : r.seq > cut}
                         /\ \A m \in R : cut <= m
                         /\ cut = 0 \/ Cardinality(R) >= Retain
  BY <1>1
<1>3. \A m \in SnapSeqs : m \in S
  OBVIOUS
<1>4. \A m \in S : m \in SnapSeqs \/ m = new.seq
  OBVIOUS
<1> HIDE DEF S, R
<1>5. /\ UNCHANGED <<counter, batch, applying, loaded, kept, accepted>>
      /\ candidates' = candidates \ {new}
      /\ sub' = [x \in Subscribers |-> IF sub[x].at = "updates"
                                       THEN [sub[x] EXCEPT !.since = sub[x].since + 1] ELSE sub[x]]
  BY DEF snapshot_and_compact
<1>6. Flushed' = Flushed /\ Flushed \in Nat /\ Retain \in Nat
  BY <1>5, RetainAssumption DEF Flushed, StoreInv, StoreTypeOK
<1>7. /\ DOMAIN sub' = Subscribers
      /\ \A x \in Subscribers :
            /\ sub[x].at # "updates" => sub'[x] = sub[x]
            /\ sub[x].at = "updates" =>
                  /\ DOMAIN sub'[x] = SubFields
                  /\ sub'[x].at = "updates" /\ sub'[x].snap = sub[x].snap /\ sub'[x].head = sub[x].head
                  /\ sub'[x].text = sub[x].text /\ sub'[x].since = sub[x].since + 1
  <2>1. ASSUME NEW x \in Subscribers, sub[x].at = "updates"
        PROVE  /\ DOMAIN sub'[x] = SubFields
               /\ sub'[x].at = "updates" /\ sub'[x].snap = sub[x].snap /\ sub'[x].head = sub[x].head
               /\ sub'[x].text = sub[x].text /\ sub'[x].since = sub[x].since + 1
    <3> DEFINE k == sub[x].since + 1
    <3>1. sub'[x] = [sub[x] EXCEPT !.since = k] /\ DOMAIN sub[x] = SubFields
      BY <1>5, <2>1 DEF StoreInv, StoreTypeOK
    <3> HIDE DEF k
    <3>2. /\ DOMAIN sub'[x] = SubFields /\ sub'[x].at = sub[x].at
          /\ sub'[x].snap = sub[x].snap /\ sub'[x].head = sub[x].head
          /\ sub'[x].text = sub[x].text /\ sub'[x].since = k
      BY <3>1 DEF SubFields
    <3> QED
      BY <2>1, <3>2 DEF k
  <2> QED
    BY <1>5, <2>1
<1>8. \A x \in Subscribers : /\ sub'[x].at = sub[x].at
                             /\ sub[x].snap \in Nat /\ sub[x].since \in Nat
  BY <1>7 DEF StoreInv, StoreTypeOK
\* The snapshots after a number, before and after.
<1>9. ASSUME NEW n \in Nat
      PROVE  /\ IsFiniteSet(SnapsAfter(n)') /\ Cardinality(SnapsAfter(n)') \in Nat
             /\ Cardinality(SnapsAfter(n)) \in Nat
             /\ Cardinality(SnapsAfter(n)') <= Cardinality(SnapsAfter(n)) + 1
             /\ (\A m \in R : m > n) => SnapsAfter(n)' = R
  <2>1. SnapsAfter(n)' = {m \in R : m > n}
    BY <1>1 DEF SnapsAfter
  <2>2. SnapsAfter(n)' \in SUBSET R
    BY <2>1
  <2>3. IsFiniteSet(SnapsAfter(n)')
    BY <1>1, <2>2, FS_Subset
  <2>4. Cardinality(SnapsAfter(n)') \in Nat
    BY <2>3, FS_CardinalityType
  <2>5. IsFiniteSet(SnapsAfter(n)) /\ Cardinality(SnapsAfter(n)) \in Nat
    BY SnapSeqsBounded DEF StoreInv
  <2> DEFINE T == SnapsAfter(n) \cup {new.seq}
  <2>6. IsFiniteSet(T) /\ Cardinality(T) \in Nat /\ Cardinality(T) <= Cardinality(SnapsAfter(n)) + 1
    <3> DEFINE A == SnapsAfter(n)
    <3>1. IsFiniteSet(A) /\ Cardinality(A) \in Nat
      BY <2>5
    <3> HIDE DEF A
    <3>2. /\ IsFiniteSet(A \cup {new.seq})
          /\ Cardinality(A \cup {new.seq}) = IF new.seq \in A THEN Cardinality(A) ELSE Cardinality(A) + 1
      BY <3>1, FS_AddElement
    <3>3. Cardinality(A \cup {new.seq}) \in Nat /\ Cardinality(A \cup {new.seq}) <= Cardinality(A) + 1
      BY <3>1, <3>2
    <3> QED
      BY <3>2, <3>3 DEF A
  <2>7. SnapsAfter(n)' \in SUBSET T
    BY <1>1, <1>4, <2>1 DEF SnapsAfter
  <2> HIDE DEF T
  <2>8. Cardinality(SnapsAfter(n)') <= Cardinality(T)
    BY <2>6, <2>7, FS_Subset
  <2>9. Cardinality(SnapsAfter(n)') <= Cardinality(SnapsAfter(n)) + 1
    BY <2>4, <2>5, <2>6, <2>8
  <2> QED
    BY <2>1, <2>3, <2>4, <2>5, <2>9
\* What is too old to be kept stays too old.
<1>10. ASSUME NEW n \in Nat, Cardinality(SnapsAfter(n)) >= Retain
       PROVE  n \notin R /\ Cardinality(SnapsAfter(n)') >= Retain
  <2>1. ASSUME NEW x \in R PROVE x > n
    <3> DEFINE T == {m \in S : m > x}
    <3>1. x \in Nat /\ Cardinality(T) < Retain
      BY <1>1
    <3>2. T \in SUBSET S
      OBVIOUS
    <3>3. IsFiniteSet(T)
      BY <1>1, <3>2, FS_Subset
    <3>4. Cardinality(T) \in Nat
      BY <3>3, FS_CardinalityType
    <3>5. ASSUME x <= n PROVE FALSE
      <4>1. \A m \in Nat : m > n => m > x
        BY <3>1, <3>5
      <4>2. SnapsAfter(n) \in SUBSET T
        BY <1>1, <1>3, <4>1 DEF SnapsAfter
      <4> HIDE DEF T
      <4>3. Cardinality(SnapsAfter(n)) <= Cardinality(T)
        BY <3>3, <4>2, FS_Subset
      <4> QED
        BY <1>6, <1>9, <1>10, <3>1, <3>4, <4>3
    <3> QED
      BY <3>1, <3>5
  <2>2. n \notin R
    BY <2>1
  <2>3. SnapsAfter(n)' = R
    BY <1>9, <2>1
  <2>4. CASE R = S
    <3>1. SnapsAfter(n) \in SUBSET SnapsAfter(n)'
      BY <1>3, <2>3, <2>4 DEF SnapsAfter
    <3>2. Cardinality(SnapsAfter(n)) <= Cardinality(SnapsAfter(n)')
      BY <1>9, <3>1, FS_Subset
    <3> QED
      BY <1>6, <1>9, <1>10, <2>2, <3>2
  <2>5. CASE Cardinality(R) >= Retain
    BY <2>2, <2>3, <2>5
  <2> QED
    BY <1>1, <2>4, <2>5
<1>11. ASSUME NEW text, NEW n \in Nat, Covers(text, n), cut <= n PROVE Covers(text, n)'
  <2>1. \A r \in log : r.seq \in Nat
    BY DEF StoreInv, StoreTypeOK
  <2>2. \A r \in log : r.seq > n => r \in log'
    BY <1>2, <1>11, <2>1
  <2> QED
    BY <1>5, <1>11, <2>2 DEF Covers
\* When rows after a number are cut, Retain snapshots are after it.
<1>12. ASSUME NEW n \in Nat, ~(cut <= n) PROVE Cardinality(SnapsAfter(n)') >= Retain
  <2>1. Cardinality(R) >= Retain
    BY <1>2, <1>12
  <2>2. R \in SUBSET Nat
    BY <1>1
  <2>3. \A m \in R : m > n
    BY <1>2, <1>12, <2>2
  <2> QED
    BY <1>9, <2>1, <2>3
<1>13. /\ \A r \in log' : r \in log
       /\ \A s \in snaps' \cup candidates' : s \in snaps \cup candidates
       /\ \A s \in snaps \cup candidates : s.seq \in Nat
  BY <1>1, <1>2, <1>5 DEF StoreInv, StoreTypeOK, Summary
<1>14. StoreTypeOK'
  <2>1. \A s \in snaps' \cup candidates' : Summary(s)'
    BY <1>5, <1>6, <1>13 DEF StoreInv, StoreTypeOK, Summary
  <2>2. \A c \in Subscribers :
          /\ DOMAIN sub'[c] = SubFields
          /\ sub'[c].snap \in 0..Flushed /\ sub'[c].head \in 0..Flushed /\ sub'[c].since \in Nat
    BY <1>7, <1>8 DEF StoreInv, StoreTypeOK
  <2> QED
    BY <1>5, <1>6, <1>7, <1>13, <2>1, <2>2 DEF StoreInv, StoreTypeOK
<1>15. StoreApplying'
  BY <1>5, <1>6, <1>13 DEF StoreInv, StoreApplying
<1>16. StoreCovered'
  <2>1. snaps' # {}
    BY <1>1 DEF SnapSeqs
  <2>2. ASSUME NEW s \in snaps' PROVE Covers(s.text, s.seq)'
    <3>1. s.seq \in R /\ s.seq \in Nat /\ cut <= s.seq
      BY <1>1, <1>2
    <3>2. Covers(s.text, s.seq)
      <4>1. CASE s \in snaps
        BY <4>1 DEF StoreInv, StoreCovered
      <4>2. CASE s = new
        BY <1>10, <3>1, <4>2 DEF StoreInv, StoreCovered
      <4> QED
        BY <1>1, <4>1, <4>2
    <3> QED
      BY <1>11, <3>1, <3>2
  <2>3. ASSUME NEW s \in candidates' PROVE Covers(s.text, s.seq)' \/ Cardinality(SnapsAfter(s.seq)') >= Retain
    <3>1. s \in candidates /\ s.seq \in Nat
      BY <1>5, <1>13
    <3>2. Covers(s.text, s.seq) \/ Cardinality(SnapsAfter(s.seq)) >= Retain
      BY <3>1 DEF StoreInv, StoreCovered
    <3> QED
      BY <1>10, <1>11, <1>12, <3>1, <3>2
  <2> QED
    BY <2>1, <2>2, <2>3 DEF StoreCovered
<1>17. StoreLoading'
  <2> SUFFICES ASSUME NEW c \in Subscribers, sub'[c].at = "updates"
               PROVE  /\ Cardinality(SnapsAfter(sub[c].snap)') <= sub'[c].since
                      /\ sub'[c].since < Retain => Covers(sub[c].text, sub[c].snap)'
    BY DEF StoreLoading
  <2>1. PICK n, text : n = sub[c].snap /\ text = sub[c].text
    OBVIOUS
  <2>2. /\ sub[c].at = "updates" /\ n \in Nat /\ sub[c].since \in Nat
        /\ sub'[c].snap = n /\ sub'[c].text = text /\ sub'[c].since = sub[c].since + 1
    BY <1>7, <1>8, <2>1
  <2>3. /\ Cardinality(SnapsAfter(n)) <= sub[c].since
        /\ sub[c].since < Retain => Covers(text, n)
    BY <2>1, <2>2 DEF StoreInv, StoreLoading
  <2>4. Cardinality(SnapsAfter(n)') <= sub[c].since + 1 /\ Cardinality(SnapsAfter(n)') \in Nat
    BY <1>9, <2>2, <2>3
  <2>5. ASSUME sub[c].since + 1 < Retain PROVE Covers(text, n)'
    <3>1. sub[c].since < Retain
      BY <1>6, <2>2, <2>5
    <3>2. ~(Cardinality(SnapsAfter(n)') >= Retain)
      BY <1>6, <2>2, <2>4, <2>5
    <3>3. cut <= n
      BY <1>12, <2>2, <3>2
    <3> QED
      BY <1>11, <2>2, <2>3, <3>1, <3>3
  <2>6. SnapsAfter(sub[c].snap)' = SnapsAfter(n)' /\ (Covers(sub[c].text, sub[c].snap)' <=> Covers(text, n)')
    BY <2>2 DEF SnapsAfter, Covers
  <2> QED
    BY <2>2, <2>4, <2>5, <2>6
<1>18. StoreHydrating'
  <2>1. \A text, n : Contains(text, n) => Contains(text, n)'
    BY <1>13 DEF Contains
  <2> QED
    BY <1>7, <1>8, <2>1 DEF StoreInv, StoreHydrating
<1>19. StoreSubscribersCounted'
  <2>1. {c \in Subscribers : sub'[c].at = "yes"} = {c \in Subscribers : sub[c].at = "yes"}
    BY <1>8
  <2> QED
    BY <1>5, <2>1 DEF StoreInv, StoreSubscribersCounted
<1>20. StoreGapOnlyUnderOldBase'
  BY <1>5, <1>13 DEF StoreInv, StoreGapOnlyUnderOldBase
<1> QED
  BY <1>14, <1>15, <1>16, <1>17, <1>18, <1>19, <1>20 DEF StoreInv

LEMMA StoreNextInv == StoreInv /\ [StoreNext]_storeVars => StoreInv'
<1>1. ASSUME StoreInv, UNCHANGED storeVars PROVE StoreInv'
  <2>1. Flushed' = Flushed
    BY <1>1 DEF storeVars, Flushed
  <2>2. StoreTypeOK' /\ StoreApplying'
    BY <1>1, <2>1 DEF storeVars, StoreInv, StoreTypeOK, Summary, StoreApplying
  <2>3. StoreCovered' /\ StoreLoading' /\ StoreHydrating'
    BY <1>1, TablesSame DEF storeVars, StoreInv, StoreLoading, StoreHydrating
  <2>4. StoreSubscribersCounted' /\ StoreGapOnlyUnderOldBase'
    BY <1>1 DEF storeVars, StoreInv, StoreSubscribersCounted, StoreGapOnlyUnderOldBase
  <2> QED
    BY <2>2, <2>3, <2>4 DEF StoreInv
<1> QED
  BY <1>1, SequenceInv, FlushInv, RestartInv, LoadSnapshotInv, LoadUpdatesInv, SubscribeExistingInv,
     SubscribeInsertInv, UnsubscribeInv, ApplyInv, UnloadInv, MaybeSnapshotInv, CompactInv DEF StoreNext

\* The parts of StoreSound that are about the tables, from the invariant.
LEMMA StoreInvSound == StoreInv => StoreSound
<1> SUFFICES ASSUME StoreInv PROVE StoreSound
  OBVIOUS
<1>1. StoreHistoryComplete
  <2> DEFINE n == Greatest(SnapSeqs)
             text == UNION {s.text : s \in {x \in snaps : x.seq = n}}
  <2>1. Covers(text, n)
    BY NewestCovers DEF StoreInv
  <2> HIDE DEF n, text
  <2>2. kept \subseteq text \cup Ids({r \in log : r.seq > n})
    BY <2>1 DEF Covers, Ids
  <2> QED
    BY <2>2 DEF StoreHistoryComplete, n, text
<1>2. StoreLoadSound
  <2> SUFFICES ASSUME NEW c \in Subscribers, sub[c].at = "subscribe", sub[c].since < Retain
               PROVE  Ids({r \in log : r.seq <= sub[c].head})
                      \cup (UNION {s.text : s \in {x \in snaps : x.seq <= sub[c].head}}) \subseteq sub[c].text
    BY DEF StoreLoadSound
  <2>1. Contains(sub[c].text, sub[c].head)
    BY DEF StoreInv, StoreHydrating
  <2> QED
    BY <2>1 DEF Contains, Ids
<1> QED
  BY <1>1, <1>2 DEF StoreInv, StoreSound

\* However many snapshots are retained, compactions run side by side and
\* crashes come: every update that was written is found by the next load; a
\* load that fewer than Retain compactions came in between is complete up to
\* its head; the subscribers of a document in memory are counted exactly; and
\* it lacks a row below its head only if a client with an older base was let
\* through (snapshot_and_compact, load_doc_history, subscribe, unsubscribe,
\* apply_sequenced_update).
THEOREM StoreSoundHolds == StoreSpec => []StoreSound
<1>1. StoreInv /\ [StoreNext]_storeVars => StoreInv'
  BY StoreNextInv
<1> QED
  BY <1>1, StoreInitInv, StoreInvSound, PTL DEF StoreSpec

-----------------------------------------------------------------------------
(* Presence.  What a session was sent of a document is what the store      *)
(* holds, as long as no other handler has changed the store and not yet    *)
(* broadcast; and what a handler is about to broadcast is what the store   *)
(* holds, unless it was overtaken.                                         *)

Presence == PresSessions \X PeerStates

PresPcs == {"idle", "aggregate", "broadcast", "cleanup", "cleanup_broadcast"}

Broadcasting == {"broadcast", "cleanup_broadcast"}

PresTypeOK ==
    /\ presConn \subseteq PresSessions
    /\ presSub \in [PresSessions -> SUBSET PresDocs]
    /\ handler \in [PresSessions ->
                       [pc : PresPcs, docs : SUBSET PresDocs, peers : SUBSET Presence, overlap : BOOLEAN]]
    /\ view \in [PresSessions -> [PresDocs -> SUBSET (Presence \cup Unseen)]]

\* The session t has an entry for d in the store st.
Holds(st, d, t) == d \in DOMAIN st /\ t \in DOMAIN st[d]

PresEntry(d, t) ==
    /\ t \in presConn /\ d \in presSub[t]
    /\ awareness[d][t] \subseteq {t} \X PeerStates
    /\ handler[t].pc \notin {"cleanup", "cleanup_broadcast"}

PresEntries == \A d, t : Holds(awareness, d, t) => PresEntry(d, t)

PresHandlerOK(s) ==
    /\ handler[s].pc # "idle" => s \in presConn /\ handler[s].docs \subseteq presSub[s]
    /\ handler[s].pc \in {"aggregate", "broadcast"} => \E d \in PresDocs : handler[s].docs = {d}
    /\ handler[s].pc = "cleanup_broadcast" => handler[s].docs # {}
    /\ s \notin presConn => presSub[s] = {}

PresHandlers == \A s \in PresSessions : PresHandlerOK(s)

\* The document a handler is at.
PresDoc(docs) == CHOOSE d \in docs : \A e \in docs : d <= e

PresFresh ==
    \A s \in PresSessions : handler[s].pc \in Broadcasting /\ ~handler[s].overlap =>
       handler[s].peers = aggregate(awareness, PresDoc(handler[s].docs))

\* A handler that has changed the store for d and not yet told the others.
Pending(t, d) == handler[t].pc # "idle" /\ d \in handler[t].docs

Others(r, known) == {p \in known : p[1] # r}

Shown(r, d) == Others(r, view[r][d]) = Others(r, aggregate(awareness, d))

PresShown ==
    \A r \in PresSessions, d \in PresDocs :
       /\ r \in presConn /\ d \in presSub[r] /\ <<r, d>> \notin raced /\ view[r][d] # Unseen
       /\ \A t \in PresSessions \ {r} : ~Pending(t, d)
       => Shown(r, d)

PresInv == PresTypeOK /\ PresEntries /\ PresHandlers /\ PresFresh /\ PresShown

\* The document a handler is at is one of those it has left.
LEMMA PresDocOf ==
    ASSUME NEW docs \in SUBSET PresDocs, docs # {}
    PROVE  PresDoc(docs) \in docs
<1>1. docs \in SUBSET Nat
  BY PresAssumption
<1>2. \E d \in docs : \A e \in docs : d <= e
  BY <1>1, LeastOf
<1> QED
  BY <1>2 DEF PresDoc

LEMMA PresDocSingle ==
    ASSUME NEW d \in PresDocs
    PROVE  PresDoc({d}) = d
  BY PresDocOf

\* Who is in an aggregate.
LEMMA AggregateOf ==
    ASSUME NEW st, NEW d, NEW p
    PROVE  p \in aggregate(st, d) <=> \E t : Holds(st, d, t) /\ p \in st[d][t]
  BY DEF aggregate, Holds

\* Two stores differ in what s has for the documents `docs` only.
Touches(old, new, docs, s) ==
    \A d, t : t # s \/ d \notin docs =>
       /\ Holds(new, d, t) <=> Holds(old, d, t)
       /\ Holds(old, d, t) => new[d][t] = old[d][t]

\* update changes what the session has for the document, and no more.
LEMMA PutTouches ==
    ASSUME NEW st, NEW doc, NEW s, NEW known, NEW new, new = awareness_put(st, doc, s, known)
    PROVE  /\ Touches(st, new, {doc}, s)
           /\ Holds(new, doc, s) => new[doc][s] = known
<1> DEFINE entry == IF doc \in DOMAIN st THEN st[doc] ELSE << >>
           row == IF known = {} THEN Drop(entry, {s}) ELSE Put(entry, s, known)
<1>1. new = Put(st, doc, row)
  BY DEF awareness_put
<1>2. DOMAIN << >> = {}
  OBVIOUS
<1>3. \A t : t # s => /\ t \in DOMAIN row <=> Holds(st, doc, t)
                      /\ t \in DOMAIN row => row[t] = st[doc][t]
  <2>1. \A t : t \in DOMAIN entry <=> Holds(st, doc, t)
    BY <1>2 DEF Holds
  <2>2. \A t : t \in DOMAIN entry => entry[t] = st[doc][t]
    BY <1>2
  <2> HIDE DEF entry
  <2> QED
    BY <2>1, <2>2 DEF Drop, Put
<1>4. s \in DOMAIN row => row[s] = known
  <2> HIDE DEF entry
  <2> QED
    BY DEF Drop, Put
<1>5. /\ DOMAIN new = DOMAIN st \cup {doc}
      /\ new[doc] = row
      /\ \A d \in DOMAIN st : d # doc => new[d] = st[d]
  <2> HIDE DEF row
  <2> QED
    BY <1>1 DEF Put
<1> HIDE DEF row
<1> QED
  BY <1>3, <1>4, <1>5 DEF Touches, Holds

\* remove_session takes the session out of the documents, and no more.
LEMMA RemoveTouches ==
    ASSUME NEW st, NEW docs, NEW s, NEW new, new = remove_session(st, docs, s)
    PROVE  /\ Touches(st, new, docs, s)
           /\ \A d \in docs : ~Holds(new, d, s)
<1> DEFINE without == [d \in DOMAIN st |-> IF d \in docs THEN Drop(st[d], {s}) ELSE st[d]]
<1>1. new = Drop(without, {d \in docs \intersect DOMAIN st : DOMAIN without[d] = {}})
  BY DEF remove_session
<1>2. DOMAIN without = DOMAIN st
  OBVIOUS
<1>3. \A d \in DOMAIN st : d \notin docs => without[d] = st[d]
  OBVIOUS
<1>4. \A d \in DOMAIN st : d \in docs =>
         /\ DOMAIN without[d] = DOMAIN st[d] \ {s}
         /\ \A t \in DOMAIN without[d] : without[d][t] = st[d][t]
  BY DEF Drop
<1> HIDE DEF without
<1>5. /\ \A d : d \in DOMAIN new <=> d \in DOMAIN st /\ ~(d \in docs /\ DOMAIN without[d] = {})
      /\ \A d \in DOMAIN new : new[d] = without[d]
  BY <1>1, <1>2 DEF Drop
<1> QED
  BY <1>3, <1>4, <1>5 DEF Touches, Holds

\* What others than s, or of other documents, have in the aggregates is as
\* it was.
LEMMA AggregateTouched ==
    ASSUME NEW old, NEW new, NEW docs, NEW s, Touches(old, new, docs, s),
           \A d : Holds(old, d, s) => old[d][s] \subseteq {s} \X PeerStates,
           \A d : Holds(new, d, s) => new[d][s] \subseteq {s} \X PeerStates
    PROVE  \A d : /\ d \notin docs => aggregate(new, d) = aggregate(old, d)
                  /\ Others(s, aggregate(new, d)) = Others(s, aggregate(old, d))
<1> TAKE d
<1>1. ASSUME d \notin docs PROVE aggregate(new, d) = aggregate(old, d)
  <2>1. \A p : p \in aggregate(new, d) <=> p \in aggregate(old, d)
    BY <1>1, AggregateOf DEF Touches
  <2> QED
    BY <2>1
<1>2. \A p : p \in Others(s, aggregate(new, d)) <=> p \in Others(s, aggregate(old, d))
  <2>1. ASSUME NEW p PROVE p \in Others(s, aggregate(new, d)) <=> \E t : t # s /\ Holds(new, d, t) /\ p \in new[d][t] /\ p[1] # s
    BY AggregateOf DEF Others
  <2>2. ASSUME NEW p PROVE p \in Others(s, aggregate(old, d)) <=> \E t : t # s /\ Holds(old, d, t) /\ p \in old[d][t] /\ p[1] # s
    BY AggregateOf DEF Others
  <2> QED
    BY <2>1, <2>2 DEF Touches
<1> QED
  BY <1>1, <1>2

LEMMA NoHandlerType ==
    /\ NoHandler \in [pc : PresPcs, docs : SUBSET PresDocs, peers : SUBSET Presence, overlap : BOOLEAN]
    /\ NoHandler.pc = "idle"
  BY DEF NoHandler, PresPcs

\* A step in which s changes what it has for `docs` and takes them up.
LEMMA PresChangeInv ==
    ASSUME PresInv, NEW s \in PresSessions, NEW docs \in SUBSET PresDocs, NEW pc \in {"aggregate", "cleanup"},
           s \in presConn, handler[s].pc = "idle", docs \subseteq presSub[s],
           pc = "aggregate" => \E d \in PresDocs : docs = {d},
           Touches(awareness, awareness', docs, s),
           \A d : Holds(awareness', d, s) => /\ pc = "aggregate" /\ d \in presSub[s]
                                             /\ awareness'[d][s] \subseteq {s} \X PeerStates,
           handler' = [MarkOverlap(handler, docs, s) EXCEPT ![s] = [NoHandler EXCEPT !.pc = pc, !.docs = docs]],
           UNCHANGED <<presSub, presConn, view, raced>>
    PROVE  PresInv'
<1> DEFINE h == [NoHandler EXCEPT !.pc = pc, !.docs = docs]
<1>1. /\ h \in [pc : PresPcs, docs : SUBSET PresDocs, peers : SUBSET Presence, overlap : BOOLEAN]
      /\ h.pc = pc /\ h.docs = docs
  BY NoHandlerType DEF PresPcs
<1>2. /\ handler' \in [PresSessions ->
                       [pc : PresPcs, docs : SUBSET PresDocs, peers : SUBSET Presence, overlap : BOOLEAN]]
      /\ handler'[s] = h
      /\ \A t \in PresSessions \ {s} :
            /\ handler'[t].pc = handler[t].pc /\ handler'[t].docs = handler[t].docs
            /\ handler'[t].peers = handler[t].peers
            /\ handler[t].overlap => handler'[t].overlap
            /\ handler[t].pc \in Broadcasting /\ handler[t].docs \cap docs # {} => handler'[t].overlap
  <2> DEFINE H == [pc : PresPcs, docs : SUBSET PresDocs, peers : SUBSET Presence, overlap : BOOLEAN]
             m == MarkOverlap(handler, docs, s)
  <2>1. h \in H
    BY <1>1
  <2>2. handler \in [PresSessions -> H]
    BY DEF PresInv, PresTypeOK
  <2>3. ASSUME NEW t \in PresSessions \ {s}
        PROVE  /\ m[t] \in H
               /\ m[t].pc = handler[t].pc /\ m[t].docs = handler[t].docs
               /\ m[t].peers = handler[t].peers
               /\ handler[t].overlap => m[t].overlap
               /\ handler[t].pc \in Broadcasting /\ handler[t].docs \cap docs # {} => m[t].overlap
    BY <2>2 DEF MarkOverlap, Broadcasting
  <2>4. DOMAIN m = PresSessions /\ m = [t \in PresSessions |-> m[t]]
    BY DEF MarkOverlap
  <2>5. handler' = [m EXCEPT ![s] = h]
    OBVIOUS
  <2> HIDE DEF h, m, H
  <2>6. \A t \in PresSessions : handler'[t] = IF t = s THEN h ELSE m[t]
    BY <2>4, <2>5
  <2>7. handler' \in [PresSessions -> H]
    BY <2>1, <2>3, <2>4, <2>5
  <2> QED
    BY <2>3, <2>6, <2>7 DEF H
<1> HIDE DEF h
<1>3. h.pc = pc /\ h.docs = docs
  BY <1>1
<1>4. \A d : /\ d \notin docs => aggregate(awareness', d) = aggregate(awareness, d)
             /\ Others(s, aggregate(awareness', d)) = Others(s, aggregate(awareness, d))
  BY AggregateTouched DEF PresInv, PresEntries, PresEntry
<1>5. PresTypeOK'
  BY <1>2 DEF PresInv, PresTypeOK
<1>6. PresEntries'
  <2> SUFFICES ASSUME NEW d, NEW t, Holds(awareness', d, t) PROVE PresEntry(d, t)'
    BY DEF PresEntries
  <2>1. CASE t = s
    BY <2>1, <1>2, <1>3 DEF PresEntry
  <2>2. CASE t # s
    <3>1. PresEntry(d, t) /\ awareness'[d][t] = awareness[d][t]
      BY <2>2 DEF Touches, PresInv, PresEntries
    <3>2. t \in PresSessions \ {s}
      BY <2>2, <3>1 DEF PresEntry, PresInv, PresTypeOK
    <3> QED
      BY <3>1, <3>2, <1>2 DEF PresEntry
  <2> QED
    BY <2>1, <2>2
<1>7. PresHandlers'
  <2> SUFFICES ASSUME NEW t \in PresSessions PROVE PresHandlerOK(t)'
    BY DEF PresHandlers
  <2>1. CASE t = s
    BY <2>1, <1>2, <1>3 DEF PresHandlerOK
  <2>2. CASE t # s
    BY <2>2, <1>2 DEF PresHandlerOK, PresInv, PresHandlers
  <2> QED
    BY <2>1, <2>2
<1>8. PresFresh'
  <2> SUFFICES ASSUME NEW t \in PresSessions, handler'[t].pc \in Broadcasting, ~handler'[t].overlap
               PROVE  handler'[t].peers = aggregate(awareness', PresDoc(handler'[t].docs))
    BY DEF PresFresh
  <2>1. t # s
    BY <1>2, <1>3 DEF Broadcasting
  <2>2. /\ handler[t].pc \in Broadcasting /\ ~handler[t].overlap
        /\ handler'[t].docs = handler[t].docs /\ handler'[t].peers = handler[t].peers
        /\ handler[t].docs \cap docs = {}
    BY <2>1, <1>2
  <2>3. handler[t].docs # {} /\ handler[t].docs \in SUBSET PresDocs
    BY <2>2 DEF PresInv, PresHandlers, PresHandlerOK, PresTypeOK, Broadcasting
  <2>4. PresDoc(handler[t].docs) \in handler[t].docs
    BY <2>3, PresDocOf
  <2>5. handler[t].peers = aggregate(awareness, PresDoc(handler[t].docs))
    BY <2>2 DEF PresInv, PresFresh
  <2> QED
    BY <2>2, <2>4, <2>5, <1>4
<1>9. PresShown'
  <2> SUFFICES ASSUME NEW r \in PresSessions, NEW d \in PresDocs,
                      r \in presConn, d \in presSub[r], <<r, d>> \notin raced, view[r][d] # Unseen,
                      \A t \in PresSessions \ {r} : ~Pending(t, d)'
               PROVE  Shown(r, d)'
    BY DEF PresShown
  <2>1. \A t \in PresSessions \ {r} : ~Pending(t, d)
    <3> SUFFICES ASSUME NEW t \in PresSessions \ {r}, Pending(t, d) PROVE FALSE
      OBVIOUS
    <3>1. t # s
      BY DEF Pending
    <3> QED
      BY <3>1, <1>2 DEF Pending
  <2>2. Shown(r, d)
    BY <2>1 DEF PresInv, PresShown
  <2>3. r = s \/ d \notin docs
    BY <1>2, <1>3 DEF Pending
  <2> QED
    BY <2>2, <2>3, <1>4 DEF Shown
<1> QED
  BY <1>5, <1>6, <1>7, <1>8, <1>9 DEF PresInv

\* A step that leaves the store, the subscriptions and the connections.
LEMMA PresEntriesSame ==
    ASSUME PresInv, UNCHANGED <<awareness, presSub, presConn>>,
           \A t \in PresSessions : handler'[t].pc \in {"cleanup", "cleanup_broadcast"} =>
                                   handler[t].pc \in {"cleanup", "cleanup_broadcast"}
    PROVE  PresEntries'
<1> SUFFICES ASSUME NEW d, NEW t, Holds(awareness, d, t) PROVE PresEntry(d, t)'
  BY DEF PresEntries
<1>1. PresEntry(d, t)
  BY DEF PresInv, PresEntries
<1>2. t \in PresSessions
  BY <1>1 DEF PresEntry, PresInv, PresTypeOK
<1> QED
  BY <1>1, <1>2 DEF PresEntry

LEMMA AwarenessUpdateInv ==
    ASSUME PresInv, NEW s \in PresSessions, NEW doc \in PresDocs, NEW known \in SUBSET ({s} \X PeerStates),
           awareness_update(s, doc, known)
    PROVE  PresInv'
<1>1. CASE doc \in presSub[s]
  <2>1. awareness' = awareness_put(awareness, doc, s, known)
    BY <1>1 DEF awareness_update
  <2>2. /\ Touches(awareness, awareness', {doc}, s)
        /\ Holds(awareness', doc, s) => awareness'[doc][s] = known
    BY <2>1, PutTouches
  <2>3. ASSUME NEW d, Holds(awareness', d, s)
        PROVE  d \in presSub[s] /\ awareness'[d][s] \subseteq {s} \X PeerStates
    <3>1. CASE d = doc
      BY <3>1, <2>2, <2>3, <1>1
    <3>2. CASE d # doc
      BY <3>2, <2>2, <2>3 DEF Touches, PresInv, PresEntries, PresEntry
    <3> QED
      BY <3>1, <3>2
  <2>4. /\ s \in presConn /\ handler[s].pc = "idle"
        /\ handler' = [MarkOverlap(handler, {doc}, s) EXCEPT ![s] = [NoHandler EXCEPT !.pc = "aggregate", !.docs = {doc}]]
        /\ UNCHANGED <<presSub, presConn, view, raced>>
    BY <1>1 DEF awareness_update
  <2> QED
    BY <2>2, <2>3, <2>4, <1>1, PresChangeInv
<1>2. CASE doc \notin presSub[s]
  <2>1. UNCHANGED <<awareness, handler, presSub, presConn, view, raced>>
    BY <1>2 DEF awareness_update
  <2> QED
    BY <2>1 DEF PresInv, PresTypeOK, PresEntries, PresEntry, PresHandlers, PresHandlerOK, PresFresh, PresShown, Pending, Shown
<1> QED
  BY <1>1, <1>2

LEMMA CleanupRemoveInv ==
    ASSUME PresInv, NEW s \in PresSessions, cleanup_remove(s)
    PROVE  PresInv'
<1>1. /\ Touches(awareness, awareness', presSub[s], s)
      /\ \A d \in presSub[s] : ~Holds(awareness', d, s)
  BY RemoveTouches DEF cleanup_remove
<1>2. \A d : ~Holds(awareness', d, s)
  BY <1>1 DEF Touches, PresInv, PresEntries, PresEntry
<1>3. presSub[s] \in SUBSET PresDocs
  BY DEF PresInv, PresTypeOK
<1>4. /\ s \in presConn /\ handler[s].pc = "idle"
      /\ handler' = [MarkOverlap(handler, presSub[s], s) EXCEPT ![s] = [NoHandler EXCEPT !.pc = "cleanup", !.docs = presSub[s]]]
      /\ UNCHANGED <<presSub, presConn, view, raced>>
  BY DEF cleanup_remove
<1> QED
  BY <1>1, <1>2, <1>3, <1>4, PresChangeInv

LEMMA PresConnectInv ==
    ASSUME PresInv, NEW s \in PresSessions, pres_connect(s)
    PROVE  PresInv'
<1>1. PresTypeOK'
  BY DEF PresInv, PresTypeOK, pres_connect
<1>2. PresEntries'
  BY DEF PresInv, PresEntries, PresEntry, pres_connect
<1>3. PresHandlers'
  BY DEF PresInv, PresHandlers, PresHandlerOK, pres_connect
<1>4. PresFresh'
  BY DEF PresInv, PresFresh, pres_connect
<1>5. PresShown'
  BY DEF PresInv, PresShown, PresHandlers, PresHandlerOK, Pending, Shown, pres_connect
<1> QED
  BY <1>1, <1>2, <1>3, <1>4, <1>5 DEF PresInv

LEMMA PresSubscribeInv ==
    ASSUME PresInv, NEW s \in PresSessions, NEW doc \in PresDocs, pres_subscribe(s, doc)
    PROVE  PresInv'
<1>1. /\ presSub' \in [PresSessions -> SUBSET PresDocs]
      /\ presSub'[s] = presSub[s] \cup {doc}
      /\ \A r \in PresSessions \ {s} : presSub'[r] = presSub[r]
  BY DEF PresInv, PresTypeOK, pres_subscribe
<1>2. /\ view' \in [PresSessions -> [PresDocs -> SUBSET (Presence \cup Unseen)]]
      /\ view'[s][doc] = Unseen
      /\ \A r \in PresSessions, d \in PresDocs : <<r, d>> # <<s, doc>> => view'[r][d] = view[r][d]
  <2> DEFINE V == SUBSET (Presence \cup Unseen)
  <2>1. view \in [PresSessions -> [PresDocs -> V]] /\ Unseen \in V
    BY DEF PresInv, PresTypeOK
  <2>2. view' = [view EXCEPT ![s][doc] = Unseen]
    BY DEF pres_subscribe
  <2> HIDE DEF V
  <2>3. /\ view' \in [PresSessions -> [PresDocs -> V]] /\ view'[s][doc] = Unseen
        /\ \A r \in PresSessions, d \in PresDocs : r # s \/ d # doc => view'[r][d] = view[r][d]
    BY <2>1, <2>2
  <2> QED
    BY <2>3 DEF V
<1>3. s \in presConn /\ UNCHANGED <<awareness, presConn, handler, raced>>
  BY DEF pres_subscribe
<1>4. PresTypeOK'
  BY <1>1, <1>2, <1>3 DEF PresInv, PresTypeOK
<1>5. \A r \in PresSessions : presSub[r] \subseteq presSub'[r]
  BY <1>1
<1>6. PresEntries'
  BY <1>3, <1>5 DEF PresInv, PresTypeOK, PresEntries, PresEntry
<1>7. PresHandlers'
  BY <1>1, <1>3, <1>5 DEF PresInv, PresHandlers, PresHandlerOK
<1>8. PresFresh'
  BY <1>3 DEF PresInv, PresFresh
<1>9. PresShown'
  BY <1>1, <1>2, <1>3 DEF PresInv, PresShown, Pending, Shown
<1> QED
  BY <1>4, <1>6, <1>7, <1>8, <1>9 DEF PresInv

\* What is in an aggregate are peers of sessions.
LEMMA AggregateType ==
    ASSUME PresInv, NEW d
    PROVE  aggregate(awareness, d) \subseteq Presence
<1> SUFFICES ASSUME NEW p \in aggregate(awareness, d) PROVE p \in Presence
  OBVIOUS
<1>1. PICK t : Holds(awareness, d, t) /\ p \in awareness[d][t]
  BY AggregateOf
<1> QED
  BY <1>1 DEF PresInv, PresEntries, PresEntry, PresTypeOK, Presence

\* A step in which s takes the aggregate of the document it is at.
LEMMA PresAggregateInv ==
    ASSUME PresInv, NEW s \in PresSessions, NEW pc,
           \/ handler[s].pc = "aggregate" /\ pc = "broadcast"
           \/ handler[s].pc = "cleanup" /\ pc = "cleanup_broadcast" /\ handler[s].docs # {},
           handler' = [handler EXCEPT ![s].pc = pc, ![s].peers = aggregate(awareness, PresDoc(handler[s].docs))],
           UNCHANGED <<awareness, presSub, presConn, view, raced>>
    PROVE  PresInv'
<1> DEFINE known == aggregate(awareness, PresDoc(handler[s].docs))
<1>1. known \in SUBSET Presence
  BY AggregateType
<1>2. handler' = [handler EXCEPT ![s].pc = pc, ![s].peers = known]
  OBVIOUS
<1>3. pc \in PresPcs
  BY DEF PresPcs
<1> HIDE DEF known
<1>4. /\ handler' \in [PresSessions ->
                       [pc : PresPcs, docs : SUBSET PresDocs, peers : SUBSET Presence, overlap : BOOLEAN]]
      /\ handler'[s].pc = pc /\ handler'[s].docs = handler[s].docs /\ handler'[s].peers = known
      /\ \A t \in PresSessions \ {s} : handler'[t] = handler[t]
  <2> DEFINE H == [pc : PresPcs, docs : SUBSET PresDocs, peers : SUBSET Presence, overlap : BOOLEAN]
             h == [handler[s] EXCEPT !.pc = pc, !.peers = known]
  <2>1. handler \in [PresSessions -> H]
    BY DEF PresInv, PresTypeOK
  <2>2. h \in H /\ h.pc = pc /\ h.docs = handler[s].docs /\ h.peers = known
    BY <1>1, <1>3, <2>1
  <2>3. handler' = [handler EXCEPT ![s] = h]
    BY <1>2, <2>1
  <2> HIDE DEF H, h
  <2>4. handler' \in [PresSessions -> H] /\ handler'[s] = h /\ \A t \in PresSessions \ {s} : handler'[t] = handler[t]
    BY <2>1, <2>2, <2>3
  <2> QED
    BY <2>2, <2>4 DEF H
<1>5. PresTypeOK'
  BY <1>4 DEF PresInv, PresTypeOK
<1>6. PresEntries'
  BY <1>4, PresEntriesSame
<1>7. PresHandlers'
  BY <1>4 DEF PresInv, PresHandlers, PresHandlerOK
<1>8. PresFresh'
  BY <1>4 DEF PresInv, PresFresh, known
<1>9. PresShown'
  <2>1. \A t \in PresSessions, d \in PresDocs : Pending(t, d)' <=> Pending(t, d)
    BY <1>4 DEF Pending
  <2> QED
    BY <2>1 DEF PresInv, PresShown, Shown
<1> QED
  BY <1>5, <1>6, <1>7, <1>8, <1>9 DEF PresInv

LEMMA AwarenessAggregateInv ==
    ASSUME PresInv, NEW s \in PresSessions, awareness_aggregate(s)
    PROVE  PresInv'
<1>1. PICK d \in PresDocs : handler[s].docs = {d}
  BY DEF awareness_aggregate, PresInv, PresHandlers, PresHandlerOK
<1>2. PresDoc(handler[s].docs) = d
  BY <1>1, PresDocSingle
<1>3. /\ handler[s].pc = "aggregate"
      /\ handler' = [handler EXCEPT ![s].pc = "broadcast", ![s].peers = aggregate(awareness, PresDoc(handler[s].docs))]
      /\ UNCHANGED <<awareness, presSub, presConn, view, raced>>
  BY <1>1, <1>2 DEF awareness_aggregate
<1> QED
  BY <1>3, PresAggregateInv

DocsLeft(s, doc) == handler[s].docs \ {doc}

\* A step in which s sends what it has of its document to `to`, which is all
\* the others, and is done with it.
LEMMA PresBroadcastInv ==
    ASSUME PresInv, NEW s \in PresSessions, NEW to \in SUBSET presConn, presConn \ {s} \subseteq to,
           NEW doc \in PresDocs, doc = PresDoc(handler[s].docs),
           handler[s].pc \in Broadcasting,
           Delivered(to, doc, handler[s].peers), Settled(to, doc, handler[s].overlap),
           NEW h \in [pc : PresPcs, docs : SUBSET PresDocs, peers : SUBSET Presence, overlap : BOOLEAN],
           handler' = [handler EXCEPT ![s] = h],
           \/ handler[s].pc = "broadcast" /\ h.pc = "idle"
           \/ handler[s].pc = "cleanup_broadcast" /\ h.pc = "cleanup" /\ h.docs = DocsLeft(s, doc),
           UNCHANGED <<awareness, presSub, presConn>>
    PROVE  PresInv'
<1>1. /\ handler' \in [PresSessions ->
                       [pc : PresPcs, docs : SUBSET PresDocs, peers : SUBSET Presence, overlap : BOOLEAN]]
      /\ handler'[s] = h
      /\ \A t \in PresSessions \ {s} : handler'[t] = handler[t]
  BY DEF PresInv, PresTypeOK
<1>2. /\ view' \in [PresSessions -> [PresDocs -> SUBSET (Presence \cup Unseen)]]
      /\ \A r \in PresSessions, d \in PresDocs :
            view'[r][d] = IF r \in to /\ d = doc /\ doc \in presSub[r] THEN handler[s].peers ELSE view[r][d]
  <2> DEFINE V == SUBSET (Presence \cup Unseen)
             new(r) == IF r \in to /\ doc \in presSub[r] THEN [view[r] EXCEPT ![doc] = handler[s].peers] ELSE view[r]
  <2>1. view \in [PresSessions -> [PresDocs -> V]] /\ handler[s].peers \in V
    BY DEF PresInv, PresTypeOK
  <2>2. view' = [r \in PresSessions |-> new(r)]
    BY DEF Delivered
  <2> HIDE DEF V
  <2>3. ASSUME NEW r \in PresSessions
        PROVE  /\ new(r) \in [PresDocs -> V]
               /\ \A d \in PresDocs :
                     new(r)[d] = IF r \in to /\ d = doc /\ doc \in presSub[r] THEN handler[s].peers ELSE view[r][d]
    BY <2>1
  <2> HIDE DEF new
  <2>4. /\ view' \in [PresSessions -> [PresDocs -> V]]
        /\ \A r \in PresSessions : view'[r] = new(r)
    BY <2>2, <2>3
  <2> QED
    BY <2>3, <2>4 DEF V
<1>3. /\ \A r, d : d # doc \/ r \notin to => (<<r, d>> \in raced' <=> <<r, d>> \in raced)
      /\ handler[s].overlap => \A r \in to : <<r, doc>> \in raced'
  BY DEF Settled
<1>4. handler[s].overlap \in BOOLEAN
  BY DEF PresInv, PresTypeOK
<1>5. PresTypeOK'
  BY <1>1, <1>2 DEF PresInv, PresTypeOK
<1>6. PresEntries'
  BY <1>1, PresEntriesSame DEF Broadcasting
<1>7. PresHandlers'
  BY <1>1 DEF PresInv, PresHandlers, PresHandlerOK, DocsLeft
<1>8. PresFresh'
  BY <1>1 DEF PresInv, PresFresh, Broadcasting
<1>9. PresShown'
  <2> SUFFICES ASSUME NEW r \in PresSessions, NEW d \in PresDocs,
                      r \in presConn, d \in presSub[r], <<r, d>> \notin raced', view'[r][d] # Unseen,
                      \A t \in PresSessions \ {r} : ~Pending(t, d)'
               PROVE  Shown(r, d)'
    BY DEF PresShown
  <2>1. CASE d = doc /\ r \in to
    <3>1. ~handler[s].overlap
      BY <2>1, <1>3
    <3>2. handler[s].peers = aggregate(awareness, doc)
      BY <3>1 DEF PresInv, PresFresh
    <3> QED
      BY <2>1, <3>2, <1>2 DEF Shown
  <2>2. CASE d # doc \/ r \notin to
    <3>1. view'[r][d] = view[r][d] /\ <<r, d>> \notin raced
      BY <2>2, <1>2, <1>3
    <3>2. \A t \in PresSessions \ {r} : ~Pending(t, d)
      <4> SUFFICES ASSUME NEW t \in PresSessions \ {r}, Pending(t, d) PROVE FALSE
        OBVIOUS
      <4>1. CASE t # s
        BY <4>1, <1>1 DEF Pending
      <4>2. CASE t = s
        <5>1. r \in to
          BY <4>2
        <5>2. d # doc /\ d \in handler[s].docs
          BY <5>1, <2>2, <4>2 DEF Pending
        <5>3. CASE handler[s].pc = "broadcast"
          <6>1. PICK e \in PresDocs : handler[s].docs = {e}
            BY <5>3 DEF PresInv, PresHandlers, PresHandlerOK
          <6>2. doc = e
            BY <6>1, PresDocSingle
          <6> QED
            BY <5>2, <6>1, <6>2
        <5>4. CASE handler[s].pc = "cleanup_broadcast"
          <6>1. h.pc = "cleanup" /\ d \in h.docs
            BY <5>2, <5>4 DEF DocsLeft
          <6> QED
            BY <6>1, <4>2, <1>1 DEF Pending
        <5> QED
          BY <5>3, <5>4 DEF Broadcasting
      <4> QED
        BY <4>1, <4>2
    <3>3. Shown(r, d)
      BY <3>1, <3>2 DEF PresInv, PresShown
    <3> QED
      BY <3>1, <3>3 DEF Shown
  <2> QED
    BY <2>1, <2>2
<1> QED
  BY <1>5, <1>6, <1>7, <1>8, <1>9 DEF PresInv

LEMMA AwarenessBroadcastInv ==
    ASSUME PresInv, NEW s \in PresSessions, awareness_broadcast(s)
    PROVE  PresInv'
<1>1. PICK d \in PresDocs : handler[s].docs = {d}
  BY DEF awareness_broadcast, PresInv, PresHandlers, PresHandlerOK
<1>2. PresDoc(handler[s].docs) = d
  BY <1>1, PresDocSingle
<1>3. /\ handler[s].pc = "broadcast"
      /\ Delivered(presConn \ {s}, d, handler[s].peers) /\ Settled(presConn \ {s}, d, handler[s].overlap)
      /\ handler' = [handler EXCEPT ![s] = NoHandler]
      /\ UNCHANGED <<awareness, presSub, presConn>>
  BY <1>1 DEF awareness_broadcast
<1> QED
  BY <1>2, <1>3, NoHandlerType, PresBroadcastInv DEF Broadcasting

LEMMA CleanupBroadcastInv ==
    ASSUME PresInv, NEW s \in PresSessions, cleanup_broadcast(s)
    PROVE  PresInv'
<1> DEFINE H == [pc : PresPcs, docs : SUBSET PresDocs, peers : SUBSET Presence, overlap : BOOLEAN]
<1>1. handler[s].pc = "cleanup_broadcast" /\ UNCHANGED <<awareness, presSub, presConn>>
  BY DEF cleanup_broadcast
<1>2. handler[s].docs # {} /\ handler[s].docs \in SUBSET PresDocs
  BY <1>1 DEF PresInv, PresHandlers, PresHandlerOK, PresTypeOK
<1>3. PICK doc \in PresDocs : doc = PresDoc(handler[s].docs)
  BY <1>2, PresDocOf
<1>4. Delivered(presConn, doc, handler[s].peers) /\ Settled(presConn, doc, handler[s].overlap)
  BY <1>3 DEF cleanup_broadcast, PresDoc
<1>5. handler \in [PresSessions -> H] /\ "cleanup" \in PresPcs
  BY DEF PresInv, PresTypeOK, PresPcs
<1>6. PICK h \in H : h = [handler[s] EXCEPT !.pc = "cleanup", !.docs = handler[s].docs \ {doc}, !.overlap = FALSE]
  BY <1>2, <1>5
<1>7. h.pc = "cleanup" /\ h.docs = DocsLeft(s, doc)
  BY <1>5, <1>6 DEF DocsLeft
<1>8. handler' = [handler EXCEPT ![s] = h]
  <2>1. handler' = [handler EXCEPT ![s].pc = "cleanup", ![s].docs = @ \ {doc}, ![s].overlap = FALSE]
    BY <1>3 DEF cleanup_broadcast, PresDoc
  <2> QED
    BY <2>1, <1>5, <1>6
<1>9. presConn \in SUBSET presConn /\ presConn \ {s} \subseteq presConn /\ handler[s].pc \in Broadcasting
  BY <1>1 DEF Broadcasting
<1> QED
  BY <1>1, <1>3, <1>4, <1>7, <1>8, <1>9, PresBroadcastInv

LEMMA CleanupAggregateInv ==
    ASSUME PresInv, NEW s \in PresSessions, cleanup_aggregate(s)
    PROVE  PresInv'
<1>1. CASE handler[s].docs # {}
  <2>1. /\ handler[s].pc = "cleanup"
        /\ handler' = [handler EXCEPT ![s].pc = "cleanup_broadcast", ![s].peers = aggregate(awareness, PresDoc(handler[s].docs))]
        /\ UNCHANGED <<awareness, presSub, presConn, view, raced>>
    BY <1>1 DEF cleanup_aggregate, PresDoc
  <2> QED
    BY <1>1, <2>1, PresAggregateInv
<1>2. CASE handler[s].docs = {}
  <2>1. /\ handler[s].pc = "cleanup"
        /\ presConn' = presConn \ {s}
        /\ presSub' = [presSub EXCEPT ![s] = {}]
        /\ handler' = [handler EXCEPT ![s] = NoHandler]
        /\ UNCHANGED <<awareness, view, raced>>
    BY <1>2 DEF cleanup_aggregate
  <2>3. /\ handler' \in [PresSessions ->
                         [pc : PresPcs, docs : SUBSET PresDocs, peers : SUBSET Presence, overlap : BOOLEAN]]
        /\ handler'[s].pc = "idle"
        /\ \A t \in PresSessions \ {s} : handler'[t] = handler[t]
    BY <2>1, NoHandlerType DEF PresInv, PresTypeOK
  <2>4. /\ presSub' \in [PresSessions -> SUBSET PresDocs] /\ presSub'[s] = {}
        /\ \A t \in PresSessions \ {s} : presSub'[t] = presSub[t]
    BY <2>1 DEF PresInv, PresTypeOK
  <2>5. PresTypeOK'
    BY <2>1, <2>3, <2>4 DEF PresInv, PresTypeOK
  <2>6. PresEntries'
    <3> SUFFICES ASSUME NEW d, NEW t, Holds(awareness, d, t) PROVE PresEntry(d, t)'
      BY <2>1 DEF PresEntries
    <3>1. PresEntry(d, t)
      BY DEF PresInv, PresEntries
    <3>2. t \in PresSessions \ {s}
      BY <3>1, <2>1 DEF PresEntry, PresInv, PresTypeOK
    <3> QED
      BY <3>1, <3>2, <2>1, <2>3, <2>4 DEF PresEntry
  <2>7. PresHandlers'
    BY <2>1, <2>3, <2>4 DEF PresInv, PresHandlers, PresHandlerOK
  <2>8. PresFresh'
    BY <2>1, <2>3 DEF PresInv, PresFresh, Broadcasting
  <2>9. PresShown'
    <3>1. \A t \in PresSessions, d \in PresDocs : Pending(t, d)' <=> Pending(t, d)
      BY <1>2, <2>3 DEF Pending
    <3> QED
      BY <3>1, <2>1, <2>4 DEF PresInv, PresShown, Shown
  <2> QED
    BY <2>5, <2>6, <2>7, <2>8, <2>9 DEF PresInv
<1> QED
  BY <1>1, <1>2

LEMMA PresNextInv == PresInv /\ [PresNext]_presVars => PresInv'
<1>1. ASSUME PresInv, UNCHANGED presVars PROVE PresInv'
  BY <1>1 DEF presVars, PresInv, PresTypeOK, PresEntries, PresEntry, PresHandlers, PresHandlerOK, PresFresh,
              PresShown, Pending, Shown
<1>2. ASSUME NEW s \in PresSessions, NEW p \in {{}} \union {{<<s, n>>} : n \in PeerStates}
      PROVE  p \in SUBSET ({s} \X PeerStates)
  OBVIOUS
<1> QED
  BY <1>1, <1>2, PresConnectInv, PresSubscribeInv, AwarenessUpdateInv, AwarenessAggregateInv,
     AwarenessBroadcastInv, CleanupRemoveInv, CleanupAggregateInv, CleanupBroadcastInv DEF PresNext

LEMMA PresInitInv == PresInit => PresInv
<1> SUFFICES ASSUME PresInit PROVE PresInv
  OBVIOUS
<1>1. DOMAIN awareness = {}
  BY DEF PresInit
<1>2. \A s \in PresSessions : handler[s].pc = "idle"
  BY DEF PresInit, NoHandler
<1>3. PresTypeOK
  BY NoHandlerType DEF PresInit, PresTypeOK
<1>4. PresEntries /\ PresHandlers /\ PresFresh
  BY <1>1, <1>2 DEF PresInit, PresEntries, Holds, PresHandlers, PresHandlerOK, PresFresh, Broadcasting
<1>5. PresShown
  BY DEF PresInit, PresShown
<1> QED
  BY <1>3, <1>4, <1>5 DEF PresInv

LEMMA PresInvCurrent == PresInv => PresViewsCurrent
<1> SUFFICES ASSUME PresInv, \A s \in PresSessions : handler[s].pc = "idle"
             PROVE  /\ \A d \in active_docs(awareness), s \in PresSessions :
                           s \in DOMAIN awareness[d] => s \in presConn /\ d \in presSub[s]
                    /\ active_session_count(awareness) <= Cardinality(presConn)
                    /\ who_is_where(awareness) \subseteq active_docs(awareness)
                    /\ \A s \in presConn, d \in PresDocs :
                           d \in presSub[s] /\ <<s, d>> \notin raced /\ view[s][d] # Unseen => Shown(s, d)
  BY DEF PresViewsCurrent, Shown, Others
<1>1. \A d \in active_docs(awareness), s \in PresSessions :
         s \in DOMAIN awareness[d] => s \in presConn /\ d \in presSub[s]
  BY DEF active_docs, PresInv, PresEntries, PresEntry, Holds
<1>2. active_session_count(awareness) <= Cardinality(presConn)
  <2>1. UNION {DOMAIN awareness[d] : d \in DOMAIN awareness} \subseteq presConn
    BY DEF PresInv, PresEntries, PresEntry, Holds
  <2>2. IsFiniteSet(presConn)
    BY PresAssumption, FS_Subset DEF PresInv, PresTypeOK
  <2> QED
    BY <2>1, <2>2, FS_Subset DEF active_session_count
<1>3. who_is_where(awareness) \subseteq active_docs(awareness)
  BY DEF who_is_where, active_docs
<1>4. ASSUME NEW s \in presConn, NEW d \in PresDocs,
             d \in presSub[s], <<s, d>> \notin raced, view[s][d] # Unseen
      PROVE  Shown(s, d)
  BY <1>4 DEF PresInv, PresShown, PresTypeOK, Pending
<1> QED
  BY <1>1, <1>2, <1>3, <1>4

\* For any number of sessions and documents, while no handler is at work:
\* nobody is present who is not connected and subscribed, and what a
\* subscriber was sent last of the others is what the store holds, unless
\* that aggregate had been overtaken (handle_awareness_update, the clean-up
\* of handle_socket, AwarenessStore).
THEOREM PresViewsCurrentHolds == PresSpec => []PresViewsCurrent
  BY PresInitInv, PresNextInv, PresInvCurrent, PTL DEF PresSpec

-----------------------------------------------------------------------------
(* The daemon's endpoint for editors: DaemonYjs *)

\* What a message can be.
YjsMsg == [kind : {"step1", "step2", "update", "awareness", "query", "broken"},
           ups : SUBSET YjsUpdates, clocks : SUBSET (YjsClients \X Nat)]

YjsLink == [up : BOOLEAN, connects : Nat, in : Seq(Seq(YjsMsg)), out : Seq(YjsMsg), next : Nat,
            pc : {"select", "respond"}, responses : Seq(YjsMsg), broadcasts : Seq(YjsMsg),
            synced : BOOLEAN, lagged : BOOLEAN]

YjsTypeOK ==
    /\ serverDoc \in SUBSET YjsUpdates
    /\ presence \in [YjsClients -> Nat]
    /\ channel \in Seq([from : YjsClients, msg : YjsMsg])
    /\ link \in [YjsClients -> YjsLink]
    /\ editorDoc \in [YjsClients -> SUBSET YjsUpdates]

\* An editor that is sent these messages has the update.
Carries(s, u) == \E i \in 1..Len(s) : s[i].kind \in {"step2", "update"} /\ u \in s[i].ups

\* These messages fan the update out.
Fans(s, u) == \E i \in 1..Len(s) : s[i].kind = "update" /\ u \in s[i].ups

\* They answer a state vector.
Answers(s) == \E i \in 1..Len(s) : s[i].kind = "step2"

\* What an editor with document E may have had fanned out for it.
FanMsg(m, E) == m.ups = {} \/ (m.kind = "update" /\ m.ups \subseteq E)

FanMsgs(s, E) == \A i \in 1..Len(s) : FanMsg(s[i], E)

\* A frame holds nothing its sender does not.
OwnFrame(f, E) == \A j \in 1..Len(f) : f[j].ups \subseteq E

\* The update is in the channel, at n or after it.
Ahead(n, u) == \E i \in n..Len(channel) : u \in channel[i].msg.ups

ToFan(u) == \E d \in YjsClients : Fans(link[d].broadcasts, u)

Reaches(c, u) == u \in editorDoc[c] \/ Carries(link[c].out, u) \/ Ahead(link[c].next, u) \/ ToFan(u)

\* Only a handler between the lock and its answers holds messages; a receiver
\* is at most at the end of the channel; an editor has what it sent.
LinkOK(c) ==
    /\ ~link[c].up \/ link[c].pc = "select" => link[c].responses = <<>> /\ link[c].broadcasts = <<>>
    /\ link[c].up => 1 <= link[c].next /\ link[c].next <= Len(channel) + 1
    /\ \A i \in 1..Len(link[c].in) : OwnFrame(link[c].in[i], editorDoc[c])
    /\ FanMsgs(link[c].broadcasts, editorDoc[c])

\* An editor has what was fanned out for it.
YjsOwn == \A i \in 1..Len(channel) : FanMsg(channel[i].msg, editorDoc[channel[i].from])

\* What an answered state vector promises, and one that is about to be.
CoverOK(c) == link[c].up /\ ~link[c].lagged =>
    \A u \in serverDoc \ unspread :
       /\ link[c].synced => Reaches(c, u)
       /\ Answers(link[c].responses) => Carries(link[c].responses, u) \/ Reaches(c, u)

YjsInv ==
    /\ YjsTypeOK
    /\ YjsOwn
    /\ \A c \in YjsClients : LinkOK(c) /\ CoverOK(c)

-----------------------------------------------------------------------------
(* Messages in sequences *)

\* Where the elements of a concatenation come from.
LEMMA ConcatAt ==
    ASSUME NEW S, NEW s \in Seq(S), NEW t \in Seq(S)
    PROVE  /\ \A i \in 1..Len(s) : i \in 1..Len(s \o t) /\ (s \o t)[i] = s[i]
           /\ \A i \in 1..Len(t) : Len(s) + i \in 1..Len(s \o t) /\ (s \o t)[Len(s) + i] = t[i]
           /\ \A i \in 1..Len(s \o t) : \/ i \in 1..Len(s) /\ (s \o t)[i] = s[i]
                                        \/ i - Len(s) \in 1..Len(t) /\ (s \o t)[i] = t[i - Len(s)]
           /\ Len(s \o t) = Len(s) + Len(t)
           /\ s \o t \in Seq(S)
  OBVIOUS

\* The same of a sequence and one more element.
LEMMA AppendAt ==
    ASSUME NEW S, NEW s \in Seq(S), NEW x \in S
    PROVE  /\ \A i \in 1..Len(s) : i \in 1..Len(Append(s, x)) /\ Append(s, x)[i] = s[i]
           /\ Len(s) + 1 \in 1..Len(Append(s, x)) /\ Append(s, x)[Len(s) + 1] = x
           /\ \A i \in 1..Len(Append(s, x)) : \/ i \in 1..Len(s) /\ Append(s, x)[i] = s[i]
                                              \/ Append(s, x)[i] = x
           /\ Len(Append(s, x)) = Len(s) + 1
           /\ Append(s, x) \in Seq(S)
  OBVIOUS

\* The same of the first element and the others.
LEMMA TailAt ==
    ASSUME NEW S, NEW s \in Seq(S), s # <<>>
    PROVE  /\ \A i \in 1..Len(Tail(s)) : i + 1 \in 1..Len(s) /\ Tail(s)[i] = s[i + 1]
           /\ \A i \in 1..Len(s) : s[i] = Head(s) \/ (i - 1 \in 1..Len(Tail(s)) /\ Tail(s)[i - 1] = s[i])
           /\ 1 \in 1..Len(s) /\ Head(s) = s[1] /\ Head(s) \in S
           /\ Tail(s) \in Seq(S)
  OBVIOUS

\* What two sequences carry together.
LEMMA CarriesConcat ==
    ASSUME NEW s \in Seq(YjsMsg), NEW t \in Seq(YjsMsg), NEW u
    PROVE  Carries(s, u) \/ Carries(t, u) => Carries(s \o t, u)
<1>1. CASE Carries(s, u)
  BY <1>1, ConcatAt DEF Carries
<1>2. CASE Carries(t, u)
  <2>1. PICK i \in 1..Len(t) : t[i].kind \in {"step2", "update"} /\ u \in t[i].ups
    BY <1>2 DEF Carries
  <2>2. Len(s) + i \in 1..Len(s \o t) /\ (s \o t)[Len(s) + i] = t[i]
    BY ConcatAt
  <2> QED
    BY <2>1, <2>2 DEF Carries
<1> QED
  BY <1>1, <1>2

\* What one more message adds.
LEMMA CarriesAppend ==
    ASSUME NEW s \in Seq(YjsMsg), NEW m \in YjsMsg, NEW u
    PROVE  Carries(s, u) \/ (m.kind \in {"step2", "update"} /\ u \in m.ups) => Carries(Append(s, m), u)
<1>1. CASE Carries(s, u)
  BY <1>1, AppendAt DEF Carries
<1>2. CASE m.kind \in {"step2", "update"} /\ u \in m.ups
  BY <1>2, AppendAt DEF Carries
<1> QED
  BY <1>1, <1>2

\* What is left when the first message is taken.
LEMMA CarriesTail ==
    ASSUME NEW s \in Seq(YjsMsg), s # <<>>, NEW u, Carries(s, u)
    PROVE  (Head(s).kind \in {"step2", "update"} /\ u \in Head(s).ups) \/ Carries(Tail(s), u)
<1>1. PICK i \in 1..Len(s) : s[i].kind \in {"step2", "update"} /\ u \in s[i].ups
  BY DEF Carries
<1>2. s[i] = Head(s) \/ (i - 1 \in 1..Len(Tail(s)) /\ Tail(s)[i - 1] = s[i])
  BY TailAt
<1> QED
  BY <1>1, <1>2 DEF Carries

\* What one more message fans out.
LEMMA FansAppend ==
    ASSUME NEW s \in Seq(YjsMsg), NEW m \in YjsMsg, NEW u
    PROVE  Fans(s, u) \/ (m.kind = "update" /\ u \in m.ups) => Fans(Append(s, m), u)
<1>1. CASE Fans(s, u)
  BY <1>1, AppendAt DEF Fans
<1>2. CASE m.kind = "update" /\ u \in m.ups
  BY <1>2, AppendAt DEF Fans
<1> QED
  BY <1>1, <1>2

\* What may be fanned out, with one more message.
LEMMA FanMsgsAppend ==
    ASSUME NEW s \in Seq(YjsMsg), NEW m \in YjsMsg, NEW E, FanMsgs(s, E), FanMsg(m, E)
    PROVE  FanMsgs(Append(s, m), E)
<1> QED
  BY AppendAt DEF FanMsgs

\* The messages the endpoint and the editors make.
LEMMA YjsMsgs ==
    /\ \A d \in SUBSET YjsUpdates : SyncStep1(d) \in YjsMsg /\ SyncStep2(d) \in YjsMsg /\ SyncUpdate(d) \in YjsMsg
    /\ \A k \in SUBSET (YjsClients \X Nat) : AwarenessMsg(k) \in YjsMsg
    /\ AwarenessQuery \in YjsMsg /\ BrokenMsg \in YjsMsg
  BY DEF YjsMsg, SyncStep1, SyncStep2, SyncUpdate, AwarenessMsg, AwarenessQuery, BrokenMsg

-----------------------------------------------------------------------------
(* One frame under the lock *)

YjsAcc == [doc : SUBSET YjsUpdates, presence : [YjsClients -> Nat], responses : Seq(YjsMsg),
           broadcasts : Seq(YjsMsg), failed : BOOLEAN]

\* How far a frame of an editor with document E has come from document D:
\* what it added is to be fanned out, and its answers are complete but for
\* what the editor has.
AccOK(acc, D, E) ==
    /\ acc \in YjsAcc
    /\ \A u \in acc.doc : u \in D \/ Fans(acc.broadcasts, u)
    /\ FanMsgs(acc.broadcasts, E)
    /\ Answers(acc.responses) => \A u \in acc.doc : u \in E \/ Carries(acc.responses, u)

\* A state vector is answered with all the editor did not name.
LEMMA Step1OK ==
    ASSUME NEW acc, NEW D, NEW E, AccOK(acc, D, E), NEW m \in YjsMsg, m.ups \subseteq E
    PROVE  AccOK(handle_sync_step1(acc, m), D, E)
<1> DEFINE a == handle_sync_step1(acc, m)
           s2 == SyncStep2(acc.doc \ m.ups)
           s1 == SyncStep1(acc.doc)
<1>1. acc \in YjsAcc /\ m.ups \in SUBSET YjsUpdates
  BY DEF AccOK, YjsMsg
<1>2. s1 \in YjsMsg /\ s2 \in YjsMsg
  BY <1>1, YjsMsgs DEF YjsAcc
<1>3. s2.kind = "step2" /\ s2.ups = acc.doc \ m.ups
  BY DEF SyncStep2
<1> HIDE DEF s1, s2
<1>4. a = [acc EXCEPT !.responses = @ \o <<s2, s1>>]
  BY DEF handle_sync_step1, s1, s2
<1>5. <<s2, s1>> \in Seq(YjsMsg) /\ Len(<<s2, s1>>) = 2 /\ <<s2, s1>>[1] = s2
  BY <1>2
<1>6. acc.responses \in Seq(YjsMsg)
  BY <1>1 DEF YjsAcc
<1>7. acc.responses \o <<s2, s1>> \in Seq(YjsMsg)
  BY <1>5, <1>6
<1>8. /\ a \in YjsAcc /\ a.doc = acc.doc /\ a.broadcasts = acc.broadcasts
      /\ a.responses = acc.responses \o <<s2, s1>>
  BY <1>1, <1>4, <1>7 DEF YjsAcc
<1>9. ASSUME NEW u \in acc.doc PROVE u \in E \/ Carries(a.responses, u)
  <2>1. CASE u \in m.ups
    BY <2>1
  <2>2. CASE u \notin m.ups
    <3>1. Carries(<<s2, s1>>, u)
      BY <1>3, <1>5, <2>2 DEF Carries
    <3> QED
      BY <3>1, <1>5, <1>6, <1>8, CarriesConcat
  <2> QED
    BY <2>1, <2>2
<1> QED
  BY <1>8, <1>9 DEF AccOK

\* An update is applied and fanned out.
LEMMA UpdateOK ==
    ASSUME NEW acc, NEW D, NEW E, AccOK(acc, D, E), NEW m \in YjsMsg, m.ups \subseteq E
    PROVE  AccOK(handle_sync_update(acc, m), D, E)
<1> DEFINE a == handle_sync_update(acc, m)
           f == SyncUpdate(m.ups)
<1>1. acc \in YjsAcc /\ m.ups \in SUBSET YjsUpdates
  BY DEF AccOK, YjsMsg
<1>2. f \in YjsMsg /\ f.kind = "update" /\ f.ups = m.ups
  BY <1>1, YjsMsgs DEF SyncUpdate
<1> HIDE DEF f
<1>3. a = [acc EXCEPT !.doc = @ \union m.ups, !.broadcasts = Append(@, f)]
  BY DEF handle_sync_update, f
<1>4. acc.broadcasts \in Seq(YjsMsg) /\ Append(acc.broadcasts, f) \in Seq(YjsMsg)
  BY <1>1, <1>2 DEF YjsAcc
<1>5. /\ a \in YjsAcc /\ a.doc = acc.doc \union m.ups /\ a.responses = acc.responses
      /\ a.broadcasts = Append(acc.broadcasts, f)
  BY <1>1, <1>3, <1>4 DEF YjsAcc
<1>6. FanMsgs(a.broadcasts, E)
  BY <1>2, <1>4, <1>5, FanMsgsAppend DEF AccOK, FanMsg
<1>7. ASSUME NEW u \in a.doc PROVE u \in D \/ Fans(a.broadcasts, u)
  BY <1>2, <1>4, <1>5, FansAppend DEF AccOK
<1>8. Answers(a.responses) => \A u \in a.doc : u \in E \/ Carries(a.responses, u)
  BY <1>5 DEF AccOK
<1> QED
  BY <1>5, <1>6, <1>7, <1>8 DEF AccOK

\* Presence touches neither the document nor the answers' documents.
LEMMA AwarenessOK ==
    ASSUME NEW acc, NEW D, NEW E, AccOK(acc, D, E), NEW m \in YjsMsg
    PROVE  AccOK(handle_awareness_update(acc, m), D, E)
<1> DEFINE newer == {k \in m.clocks : k[2] > acc.presence[k[1]]}
           newest == [c \in YjsClients |->
                       IF \E k \in newer : k[1] = c THEN (CHOOSE k \in newer : k[1] = c)[2] ELSE acc.presence[c]]
           msg == AwarenessMsg({<<k[1], newest[k[1]]>> : k \in newer})
           bs == IF newer = {} THEN acc.broadcasts ELSE Append(acc.broadcasts, msg)
           a == handle_awareness_update(acc, m)
<1>1. acc \in YjsAcc /\ m.clocks \in SUBSET (YjsClients \X Nat)
  BY DEF AccOK, YjsMsg
<1>2. newer \in SUBSET (YjsClients \X Nat)
  BY <1>1
<1>3. a = [acc EXCEPT !.presence = newest, !.broadcasts = bs]
  BY DEF handle_awareness_update
<1> HIDE DEF a, newer
<1>4. newest \in [YjsClients -> Nat]
  <2> SUFFICES ASSUME NEW c \in YjsClients
               PROVE  (IF \E k \in newer : k[1] = c THEN (CHOOSE k \in newer : k[1] = c)[2]
                       ELSE acc.presence[c]) \in Nat
    OBVIOUS
  <2>1. acc.presence[c] \in Nat
    BY <1>1 DEF YjsAcc
  <2>2. ASSUME \E k \in newer : k[1] = c PROVE (CHOOSE k \in newer : k[1] = c)[2] \in Nat
    BY <1>2, <2>2
  <2> QED
    BY <2>1, <2>2
<1> HIDE DEF newest
<1>5. {<<k[1], newest[k[1]]>> : k \in newer} \in SUBSET (YjsClients \X Nat)
  BY <1>2, <1>4
<1>6. msg \in YjsMsg /\ msg.ups = {}
  BY <1>5, YjsMsgs DEF AwarenessMsg
<1> HIDE DEF msg
<1>7. acc.broadcasts \in Seq(YjsMsg) /\ FanMsgs(acc.broadcasts, E)
  BY <1>1 DEF YjsAcc, AccOK
<1>8. bs \in Seq(YjsMsg) /\ FanMsgs(bs, E) /\ \A u : Fans(acc.broadcasts, u) => Fans(bs, u)
  BY <1>6, <1>7, FanMsgsAppend, FansAppend, AppendAt DEF FanMsg
<1> HIDE DEF bs
<1>9. /\ a \in YjsAcc /\ a.doc = acc.doc /\ a.responses = acc.responses /\ a.broadcasts = bs
  BY <1>1, <1>3, <1>4, <1>8 DEF YjsAcc
<1> QED
  BY <1>8, <1>9 DEF AccOK, a

\* A query is answered with presence only.
LEMMA QueryOK ==
    ASSUME NEW acc, NEW D, NEW E, AccOK(acc, D, E)
    PROVE  AccOK(handle_awareness_query(acc), D, E)
<1> DEFINE clocks == {<<c, acc.presence[c]>> : c \in {d \in YjsClients : acc.presence[d] > 0}}
           msg == AwarenessMsg(clocks)
           a == handle_awareness_query(acc)
<1>1. acc \in YjsAcc
  BY DEF AccOK
<1>2. clocks \in SUBSET (YjsClients \X Nat)
  BY <1>1 DEF YjsAcc
<1>3. a = [acc EXCEPT !.responses = Append(@, msg)]
  BY DEF handle_awareness_query
<1> HIDE DEF a, clocks
<1>4. msg \in YjsMsg /\ msg.kind = "awareness"
  BY <1>2, YjsMsgs DEF AwarenessMsg
<1> HIDE DEF msg
<1>5. acc.responses \in Seq(YjsMsg)
  BY <1>1 DEF YjsAcc
<1>6. Append(acc.responses, msg) \in Seq(YjsMsg)
  BY <1>4, <1>5
<1>7. /\ a \in YjsAcc /\ a.doc = acc.doc /\ a.broadcasts = acc.broadcasts
      /\ a.responses = Append(acc.responses, msg)
  BY <1>1, <1>3, <1>6 DEF YjsAcc
<1>8. Answers(a.responses) => Answers(acc.responses)
  BY <1>4, <1>5, <1>7, AppendAt DEF Answers
<1>9. \A u : Carries(acc.responses, u) => Carries(a.responses, u)
  BY <1>4, <1>5, <1>7, CarriesAppend
<1> QED
  BY <1>7, <1>8, <1>9 DEF AccOK, a

\* Whatever the message.
LEMMA MessageOK ==
    ASSUME NEW acc, NEW D, NEW E, AccOK(acc, D, E), NEW m \in YjsMsg, m.ups \subseteq E
    PROVE  AccOK(handle_message(acc, m), D, E)
<1>1. acc.failed \in BOOLEAN /\ m.kind \in {"step1", "step2", "update", "awareness", "query", "broken"}
  BY DEF AccOK, YjsAcc, YjsMsg
<1>2. CASE acc.failed
  <2>1. handle_message(acc, m) = acc
    BY <1>2 DEF handle_message
  <2> QED
    BY <2>1
<1>3. CASE ~acc.failed /\ m.kind = "broken"
  <2>1. handle_message(acc, m) = [acc EXCEPT !.failed = TRUE]
    BY <1>3 DEF handle_message
  <2>2. /\ handle_message(acc, m) \in YjsAcc
        /\ handle_message(acc, m).doc = acc.doc
        /\ handle_message(acc, m).responses = acc.responses
        /\ handle_message(acc, m).broadcasts = acc.broadcasts
    BY <2>1 DEF AccOK, YjsAcc
  <2> QED
    BY <2>2 DEF AccOK
<1>4. CASE ~acc.failed /\ m.kind = "step1"
  <2>1. handle_message(acc, m) = handle_sync_step1(acc, m)
    BY <1>4 DEF handle_message
  <2> QED
    BY <2>1, Step1OK
<1>5. CASE ~acc.failed /\ m.kind \in {"step2", "update"}
  <2>1. handle_message(acc, m) = handle_sync_update(acc, m)
    BY <1>5 DEF handle_message
  <2> QED
    BY <2>1, UpdateOK
<1>6. CASE ~acc.failed /\ m.kind = "awareness"
  <2>1. handle_message(acc, m) = handle_awareness_update(acc, m)
    BY <1>6 DEF handle_message
  <2> QED
    BY <2>1, AwarenessOK
<1>7. CASE ~acc.failed /\ m.kind = "query"
  <2>1. handle_message(acc, m) = handle_awareness_query(acc)
    BY <1>7 DEF handle_message
  <2> QED
    BY <2>1, QueryOK
<1> QED
  BY <1>1, <1>2, <1>3, <1>4, <1>5, <1>6, <1>7

\* Something that holds of 0 and is handed on up to n holds of all of them.
LEMMA UpTo ==
    ASSUME NEW n \in Nat, NEW S, 0 \in S, \A k \in 1..n : k - 1 \in S => k \in S
    PROVE  0..n \subseteq S
<1> DEFINE T == {k \in 0..n : k \notin S}
<1>1. SUFFICES ASSUME T # {} PROVE FALSE
  OBVIOUS
<1>2. PICK k \in T : \A y \in T : k <= y
  <2>1. T \in SUBSET Nat
    OBVIOUS
  <2> HIDE DEF T
  <2> QED
    BY <1>1, <2>1, LeastOf
<1>3. k \in 1..n /\ k - 1 \in 0..n /\ ~(k <= k - 1)
  BY <1>2
<1>4. k - 1 \in S
  BY <1>2, <1>3
<1> QED
  BY <1>2, <1>3, <1>4

\* The fold over a frame has a value at every length.
LEMMA FrameFold ==
    ASSUME NEW acc, NEW f, NEW n \in Nat
    PROVE  \E g : g = [k \in 0..n |-> IF k = 0 THEN acc ELSE handle_message(g[k - 1], f[k])]
<1> DEFINE Good(k, g) == g = [j \in 0..k |-> IF j = 0 THEN acc ELSE handle_message(g[j - 1], f[j])]
           S == {k \in 0..n : \E g : Good(k, g)}
<1>1. 0 \in S
  <2>1. Good(0, [j \in 0..0 |-> acc])
    OBVIOUS
  <2>2. 0 \in 0..n
    OBVIOUS
  <2> HIDE DEF Good
  <2> QED
    BY <2>1, <2>2
<1>2. ASSUME NEW k \in 1..n, k - 1 \in S PROVE k \in S
  <2>1. PICK g : Good(k - 1, g)
    BY <1>2
  <2> DEFINE h == [j \in 0..k |-> IF j = k THEN handle_message(g[k - 1], f[k]) ELSE g[j]]
  <2>2. \A j \in 0..(k - 1) : h[j] = g[j]
    OBVIOUS
  <2>3. ASSUME NEW j \in 0..k
        PROVE h[j] = IF j = 0 THEN acc ELSE handle_message(h[j - 1], f[j])
    <3>1. CASE j = k
      <4>1. k # 0 /\ k - 1 \in 0..(k - 1)
        OBVIOUS
      <4>2. h[k - 1] = g[k - 1]
        BY <2>2, <4>1
      <4>3. h[j] = handle_message(g[k - 1], f[k])
        BY <3>1
      <4> HIDE DEF h
      <4> QED
        BY <3>1, <4>1, <4>2, <4>3
    <3>2. CASE j = 0
      <4>1. 0 \in 0..(k - 1)
        OBVIOUS
      <4>2. g[0] = acc
        BY <2>1, <4>1
      <4>3. h[0] = g[0]
        BY <2>2, <4>1
      <4> HIDE DEF h
      <4> QED
        BY <3>2, <4>2, <4>3
    <3>3. CASE j # k /\ j # 0
      <4>1. j \in 0..(k - 1) /\ j - 1 \in 0..(k - 1)
        BY <3>3
      <4>2. g[j] = handle_message(g[j - 1], f[j])
        BY <2>1, <3>3, <4>1
      <4>3. h[j] = g[j] /\ h[j - 1] = g[j - 1]
        BY <2>2, <4>1
      <4> HIDE DEF h
      <4> QED
        BY <3>3, <4>2, <4>3
    <3> QED
      BY <3>1, <3>2, <3>3
  <2>4. Good(k, h)
    <3>1. h = [j \in 0..k |-> h[j]]
      OBVIOUS
    <3> HIDE DEF h
    <3> QED
      BY <2>3, <3>1
  <2>5. k \in 0..n
    OBVIOUS
  <2> HIDE DEF Good, h
  <2> QED
    BY <2>4, <2>5
<1>3. n \in S
  <2> HIDE DEF S
  <2> QED
    BY <1>1, <1>2, UpTo
<1> QED
  BY <1>3

\* A frame is handled as its messages are.
LEMMA FrameOK ==
    ASSUME NEW acc, NEW D, NEW E, AccOK(acc, D, E), NEW f \in Seq(YjsMsg), OwnFrame(f, E)
    PROVE  AccOK(handle_frame(acc, f), D, E)
<1> DEFINE n == Len(f)
           F(g) == [k \in 0..n |-> IF k = 0 THEN acc ELSE handle_message(g[k - 1], f[k])]
           after == CHOOSE g : g = F(g)
           S == {k \in 0..n : AccOK(after[k], D, E)}
<1>1. n \in Nat
  OBVIOUS
<1>2. handle_frame(acc, f) = after[n]
  BY DEF handle_frame
<1>3. after = F(after)
  BY <1>1, FrameFold
<1> HIDE DEF after
<1>4. after[0] = acc /\ \A k \in 1..n : after[k] = handle_message(after[k - 1], f[k])
  BY <1>1, <1>3
<1>5. 0 \in S
  BY <1>1, <1>4
<1>6. ASSUME NEW k \in 1..n, k - 1 \in S PROVE k \in S
  <2>1. AccOK(after[k - 1], D, E) /\ f[k] \in YjsMsg /\ f[k].ups \subseteq E
    BY <1>6 DEF OwnFrame
  <2>2. AccOK(handle_message(after[k - 1], f[k]), D, E)
    BY <2>1, MessageOK
  <2> QED
    BY <1>4, <1>6, <2>2
<1>7. n \in S
  <2>1. n \in 0..n
    BY <1>1
  <2> HIDE DEF S, n
  <2>2. 0..n \subseteq S
    BY <1>1, <1>5, <1>6, UpTo
  <2> QED
    BY <2>1, <2>2
<1> QED
  BY <1>2, <1>7

-----------------------------------------------------------------------------
(* The steps *)

\* The channel only grows, by messages of c.
Grows(c) ==
    /\ Len(channel) <= Len(channel')
    /\ \A i \in 1..Len(channel) : channel'[i] = channel[i]
    /\ \A i \in (Len(channel) + 1)..Len(channel') : channel'[i].from = c /\ FanMsg(channel'[i].msg, editorDoc[c])

\* The update is in what was added to the channel.
Posted(u) == \E i \in (Len(channel) + 1)..Len(channel') : u \in channel'[i].msg.ups

\* A step of c's connection: the other connections stay as they are, nothing
\* leaves the channel or an editor's document.
Moves(c) ==
    /\ YjsTypeOK'
    /\ \A d \in YjsClients \ {c} : link'[d] = link[d]
    /\ Grows(c)
    /\ \A d \in YjsClients : editorDoc[d] \subseteq editorDoc'[d]

\* What a step of c leaves to the others: an update new to the document is
\* about to be fanned out, and what c was to fan out is still to be or was.
Hands(c) == \A u \in serverDoc' \ unspread' :
    /\ u \in serverDoc \ unspread \/ Fans(link'[c].broadcasts, u)
    /\ Fans(link[c].broadcasts, u) => Fans(link'[c].broadcasts, u) \/ Posted(u)

\* The lengths that are compared.
LEMMA YjsLengths ==
    ASSUME YjsTypeOK
    PROVE  Len(channel) \in Nat /\ \A c \in YjsClients : link[c].next \in Nat
  BY DEF YjsTypeOK, YjsLink

\* An update ahead of a receiver stays ahead of it.
LEMMA AheadKept ==
    ASSUME YjsTypeOK, NEW c \in YjsClients, Moves(c), NEW n \in Nat, 1 <= n, n <= Len(channel) + 1, NEW u
    PROVE  Ahead(n, u) \/ Posted(u) => Ahead(n, u)'
<1>1. Len(channel) \in Nat /\ Len(channel') \in Nat
  BY DEF Moves, YjsTypeOK
<1>2. CASE Ahead(n, u)
  BY <1>1, <1>2 DEF Ahead, Moves, Grows
<1>3. CASE Posted(u)
  BY <1>1, <1>3 DEF Ahead, Posted
<1> QED
  BY <1>2, <1>3

\* What was to be fanned out is still to be, or was.
LEMMA ToFanKept ==
    ASSUME NEW c \in YjsClients, Moves(c), Hands(c), NEW u \in serverDoc' \ unspread', ToFan(u)
    PROVE  ToFan(u)' \/ Posted(u)
<1>1. PICK d \in YjsClients : Fans(link[d].broadcasts, u)
  BY DEF ToFan
<1>2. CASE d = c
  <2>1. Fans(link'[c].broadcasts, u) \/ Posted(u)
    BY <1>1, <1>2 DEF Hands
  <2> QED
    BY <2>1 DEF ToFan, Fans
<1>3. CASE d # c
  <2>1. link'[d] = link[d]
    BY <1>3 DEF Moves
  <2> QED
    BY <1>1, <2>1 DEF ToFan, Fans
<1> QED
  BY <1>2, <1>3

\* What covers an editor's view goes on covering it while its socket does not
\* move.
LEMMA ReachesKept ==
    ASSUME YjsTypeOK, NEW c \in YjsClients, Moves(c), Hands(c), NEW u \in serverDoc' \ unspread',
           NEW d \in YjsClients, link'[d].next = link[d].next,
           \A v : Carries(link[d].out, v) => Carries(link'[d].out, v),
           1 <= link[d].next, link[d].next <= Len(channel) + 1,
           Reaches(d, u)
    PROVE  Reaches(d, u)'
<1>1. link[d].next \in Nat
  BY YjsLengths
<1>2. CASE u \in editorDoc[d]
  BY <1>2 DEF Moves, Reaches
<1>3. CASE Carries(link[d].out, u)
  <2>1. Carries(link'[d].out, u)
    BY <1>3
  <2> QED
    BY <2>1 DEF Reaches, Carries
<1>4. CASE Ahead(link[d].next, u) \/ Posted(u)
  <2>1. PICK n : n = link[d].next
    OBVIOUS
  <2>2. Ahead(n, u)'
    BY <1>1, <1>4, <2>1, AheadKept
  <2>3. n = link'[d].next
    BY <2>1
  <2> QED
    BY <2>2, <2>3 DEF Reaches, Ahead
<1>5. CASE ToFan(u)
  <2>1. ToFan(u)' \/ Posted(u)
    BY <1>5, ToFanKept
  <2> QED
    BY <2>1, <1>4 DEF Reaches
<1> QED
  BY <1>2, <1>3, <1>4, <1>5 DEF Reaches

\* A message stays an editor's own as its document grows.
LEMMA OwnGrows ==
    ASSUME NEW D, NEW E, D \subseteq E
    PROVE  /\ \A m : FanMsg(m, D) => FanMsg(m, E)
           /\ \A s : FanMsgs(s, D) => FanMsgs(s, E)
           /\ \A f : OwnFrame(f, D) => OwnFrame(f, E)
  BY DEF FanMsg, FanMsgs, OwnFrame

\* A step of c keeps the invariant if it keeps c's part of it.
LEMMA MovesInv ==
    ASSUME YjsInv, NEW c \in YjsClients, Moves(c), Hands(c), LinkOK(c)', CoverOK(c)'
    PROVE  YjsInv'
<1>1. YjsTypeOK /\ YjsTypeOK'
  BY DEF YjsInv, Moves
<1>2. Len(channel) \in Nat /\ Len(channel') \in Nat
  BY <1>1, YjsLengths DEF YjsTypeOK
<1>3. YjsOwn'
  <2> SUFFICES ASSUME NEW i \in 1..Len(channel') PROVE FanMsg(channel'[i].msg, editorDoc'[channel'[i].from])
    BY DEF YjsOwn
  <2>1. channel'[i].from \in YjsClients
    <3>1. channel' \in Seq([from : YjsClients, msg : YjsMsg])
      BY <1>1 DEF YjsTypeOK
    <3>2. channel'[i] \in [from : YjsClients, msg : YjsMsg]
      BY <3>1, ElementOfSeq
    <3> QED
      BY <3>2
  <2>2. FanMsg(channel'[i].msg, editorDoc[channel'[i].from])
    <3>1. CASE i \in 1..Len(channel)
      BY <3>1 DEF YjsInv, YjsOwn, Moves, Grows
    <3>2. CASE i \in (Len(channel) + 1)..Len(channel')
      BY <3>2 DEF Moves, Grows
    <3> QED
      BY <1>2, <3>1, <3>2
  <2>3. editorDoc[channel'[i].from] \subseteq editorDoc'[channel'[i].from]
    BY <2>1 DEF Moves
  <2> QED
    BY <2>2, <2>3, OwnGrows
<1>4. ASSUME NEW d \in YjsClients \ {c} PROVE LinkOK(d)' /\ CoverOK(d)'
  <2>1. link'[d] = link[d] /\ editorDoc[d] \subseteq editorDoc'[d] /\ Len(channel) <= Len(channel')
    BY DEF Moves, Grows
  <2>2. LinkOK(d) /\ CoverOK(d)
    BY DEF YjsInv
  <2>3. link[d].next \in Nat
    BY <1>1, YjsLengths
  <2>4. link[d].up => 1 <= link[d].next /\ link[d].next <= Len(channel') + 1
    BY <1>2, <2>1, <2>2, <2>3 DEF LinkOK
  <2>5. \A i \in 1..Len(link[d].in) : OwnFrame(link[d].in[i], editorDoc'[d])
    BY <2>1, <2>2, OwnGrows DEF LinkOK
  <2>6. FanMsgs(link[d].broadcasts, editorDoc'[d])
    BY <2>1, <2>2, OwnGrows DEF LinkOK
  <2>7. LinkOK(d)'
    BY <2>1, <2>2, <2>4, <2>5, <2>6 DEF LinkOK
  <2>8. CoverOK(d)'
    <3> SUFFICES ASSUME link[d].up, ~link[d].lagged, NEW u \in serverDoc' \ unspread'
                 PROVE  /\ link[d].synced => Reaches(d, u)'
                        /\ Answers(link[d].responses) => Carries(link[d].responses, u) \/ Reaches(d, u)'
      BY <2>1 DEF CoverOK
    <3>1. CASE Fans(link'[c].broadcasts, u)
      <4>1. ToFan(u)'
        BY <3>1 DEF ToFan, Fans
      <4> QED
        BY <4>1 DEF Reaches
    <3>2. CASE u \in serverDoc \ unspread
      <4>1. Reaches(d, u) => Reaches(d, u)'
        BY <1>1, <2>1, <2>2, ReachesKept DEF LinkOK
      <4> QED
        BY <2>2, <3>2, <4>1 DEF CoverOK
    <3> QED
      BY <3>1, <3>2 DEF Hands
  <2> QED
    BY <2>7, <2>8
<1> QED
  BY <1>1, <1>3, <1>4 DEF YjsInv

\* One connection put in another's place.
LEMMA LinkPut ==
    ASSUME link \in [YjsClients -> YjsLink], NEW c \in YjsClients, NEW r \in YjsLink, link' = [link EXCEPT ![c] = r]
    PROVE  link' \in [YjsClients -> YjsLink] /\ link'[c] = r /\ \A d \in YjsClients \ {c} : link'[d] = link[d]
  OBVIOUS

\* A connection that is down.
LEMMA OfflineType == ASSUME NEW k \in Nat PROVE [Offline EXCEPT !.connects = k] \in YjsLink
<1>1. <<>> \in Seq(YjsMsg) /\ <<>> \in Seq(Seq(YjsMsg))
  OBVIOUS
<1> QED
  BY <1>1 DEF Offline, YjsLink

\* One that opens with some frames.
LEMMA OnlineType ==
    ASSUME NEW k \in Nat, NEW n \in Nat, NEW f \in Seq(Seq(YjsMsg))
    PROVE  [Offline EXCEPT !.up = TRUE, !.connects = k, !.next = n, !.in = f] \in YjsLink
<1>1. <<>> \in Seq(YjsMsg) /\ <<>> \in Seq(Seq(YjsMsg))
  OBVIOUS
<1> QED
  BY <1>1 DEF Offline, YjsLink

\* The empty sequence carries, fans out and answers nothing.
LEMMA EmptyMsgs ==
    /\ Len(<<>>) = 0
    /\ ~Answers(<<>>)
    /\ \A u : ~Carries(<<>>, u) /\ ~Fans(<<>>, u)
    /\ \A E : FanMsgs(<<>>, E)
<1>1. Len(<<>>) = 0 /\ 1..0 = {}
  OBVIOUS
<1> QED
  BY <1>1 DEF Answers, Carries, Fans, FanMsgs

\* The channel as it is, or an editor's document, counts as growing.
LEMMA GrowsStill ==
    ASSUME YjsTypeOK, channel' = channel, NEW c
    PROVE  Grows(c)
<1>1. Len(channel) \in Nat
  BY YjsLengths
<1> QED
  BY <1>1 DEF Grows

\* A new connection starts at the end of the channel, with nothing answered.
LEMMA EditorSubscribeInv == ASSUME YjsInv, NEW c \in YjsClients, subscribe(c) PROVE YjsInv'
<1> DEFINE f == <<<<SyncStep1(editorDoc[c])>>>>
           k == link[c].connects + 1
           n == Len(channel) + 1
           r == [Offline EXCEPT !.up = TRUE, !.connects = k, !.next = n, !.in = f]
<1>1. YjsTypeOK /\ LinkOK(c)
  BY DEF YjsInv
<1>2. editorDoc[c] \in SUBSET YjsUpdates /\ link[c].connects \in Nat /\ Len(channel) \in Nat
  BY <1>1 DEF YjsTypeOK, YjsLink
<1>3. SyncStep1(editorDoc[c]) \in YjsMsg /\ SyncStep1(editorDoc[c]).ups = editorDoc[c]
  BY <1>2, YjsMsgs DEF SyncStep1
<1>4. f \in Seq(Seq(YjsMsg)) /\ Len(f) = 1 /\ Len(f[1]) = 1 /\ f[1][1] = SyncStep1(editorDoc[c])
  BY <1>3
<1>5. \A i \in 1..Len(f) : OwnFrame(f[i], editorDoc[c])
  BY <1>3, <1>4 DEF OwnFrame
<1>6. link' = [link EXCEPT ![c] = r]
  BY DEF subscribe
<1> HIDE DEF f
<1>7. r \in YjsLink
  <2>1. k \in Nat /\ n \in Nat
    BY <1>2
  <2> HIDE DEF k, n
  <2> QED
    BY <1>4, <2>1, OnlineType
<1>8. /\ r.up /\ r.next = n /\ r.in = f /\ r.out = <<>> /\ r.responses = <<>> /\ r.broadcasts = <<>> /\ r.synced = FALSE
  BY DEF Offline
<1> HIDE DEF r
<1>9. link' \in [YjsClients -> YjsLink] /\ link'[c] = r /\ \A d \in YjsClients \ {c} : link'[d] = link[d]
  BY <1>1, <1>6, <1>7, LinkPut DEF YjsTypeOK
<1>10. UNCHANGED <<serverDoc, presence, channel, editorDoc, unspread>>
  BY DEF subscribe
<1>11. Moves(c)
  <2>1. Grows(c)
    BY <1>1, <1>10, GrowsStill
  <2> QED
    BY <1>1, <1>9, <1>10, <2>1 DEF Moves, YjsTypeOK
<1>12. link[c].broadcasts = <<>>
  BY <1>1 DEF LinkOK, subscribe
<1>13. Hands(c)
  BY <1>10, <1>12, EmptyMsgs DEF Hands
<1>14. LinkOK(c)'
  BY <1>2, <1>5, <1>8, <1>9, <1>10, EmptyMsgs DEF LinkOK
<1>15. CoverOK(c)'
  BY <1>8, <1>9, EmptyMsgs DEF CoverOK
<1> QED
  BY <1>11, <1>13, <1>14, <1>15, MovesInv

\* A handler's broadcasts, put at the end of the channel.
LEMMA Posts ==
    ASSUME YjsTypeOK, NEW c \in YjsClients, NEW b \in Seq(YjsMsg), FanMsgs(b, editorDoc[c]),
           channel' = channel \o [i \in DOMAIN b |-> [from |-> c, msg |-> b[i]]]
    PROVE  /\ channel' \in Seq([from : YjsClients, msg : YjsMsg])
           /\ Grows(c)
           /\ \A u : Fans(b, u) => Posted(u)
<1> DEFINE S == [from : YjsClients, msg : YjsMsg]
           p == [i \in DOMAIN b |-> [from |-> c, msg |-> b[i]]]
<1>1. Len(b) \in Nat /\ DOMAIN b = 1..Len(b)
  OBVIOUS
<1>2. \A i \in 1..Len(b) : [from |-> c, msg |-> b[i]] \in S
  <2> TAKE i \in 1..Len(b)
  <2>1. b[i] \in YjsMsg
    BY ElementOfSeq
  <2> QED
    BY <2>1
<1> HIDE DEF S
<1>3. p \in Seq(S) /\ Len(p) = Len(b)
  BY <1>1, <1>2
<1>4. \A i \in 1..Len(b) : p[i].from = c /\ p[i].msg = b[i]
  BY <1>1
<1>5. channel \in Seq(S) /\ channel' = channel \o p
  BY DEF YjsTypeOK, S
<1> HIDE DEF p
<1>6. Len(channel) \in Nat
  BY <1>5
<1>7. /\ channel' \in Seq(S)
      /\ \A i \in 1..Len(channel) : channel'[i] = channel[i]
      /\ \A i \in 1..Len(p) : channel'[Len(channel) + i] = p[i]
      /\ Len(channel') = Len(channel) + Len(p)
  <2>1. channel \in Seq(S) /\ p \in Seq(S)
    BY <1>3, <1>5
  <2>2. /\ channel \o p \in Seq(S)
        /\ \A i \in 1..Len(channel) : (channel \o p)[i] = channel[i]
        /\ \A i \in 1..Len(p) : (channel \o p)[Len(channel) + i] = p[i]
        /\ Len(channel \o p) = Len(channel) + Len(p)
    BY <2>1, ConcatAt
  <2> QED
    BY <1>5, <2>2
<1>8. ASSUME NEW i \in (Len(channel) + 1)..Len(channel')
      PROVE  channel'[i].from = c /\ FanMsg(channel'[i].msg, editorDoc[c])
  <2>1. i - Len(channel) \in 1..Len(b) /\ Len(channel) + (i - Len(channel)) = i
    BY <1>1, <1>3, <1>6, <1>7
  <2>2. channel'[i] = p[i - Len(channel)]
    BY <1>3, <1>7, <2>1
  <2> QED
    BY <1>4, <2>1, <2>2 DEF FanMsgs
<1>9. Grows(c)
  BY <1>1, <1>3, <1>6, <1>7, <1>8 DEF Grows
<1>10. ASSUME NEW u, Fans(b, u) PROVE Posted(u)
  <2>1. PICK i \in 1..Len(b) : u \in b[i].ups
    BY <1>10 DEF Fans
  <2>2. Len(channel) + i \in (Len(channel) + 1)..Len(channel')
    BY <1>1, <1>3, <1>6, <1>7
  <2>3. channel'[Len(channel) + i].msg = b[i]
    BY <1>3, <1>4, <1>7
  <2> QED
    BY <2>1, <2>2, <2>3 DEF Posted
<1> QED
  BY <1>7, <1>9, <1>10 DEF S

\* The answers go to the editor, then the broadcasts to the channel.
LEMMA SendResponsesInv == ASSUME YjsInv, NEW c \in YjsClients, send_responses(c) PROVE YjsInv'
<1>1. YjsTypeOK /\ LinkOK(c) /\ CoverOK(c)
  BY DEF YjsInv
<1>l. PICK l \in YjsLink : l = link[c]
  BY <1>1 DEF YjsTypeOK
<1>2. l.up = TRUE /\ l.pc = "respond" /\ l.synced \in BOOLEAN /\ l.lagged \in BOOLEAN
  BY <1>l DEF send_responses, YjsLink
<1>3. l.out \in Seq(YjsMsg) /\ l.responses \in Seq(YjsMsg) /\ l.broadcasts \in Seq(YjsMsg)
  BY DEF YjsLink
<1>s. PICK sy : sy = (l.synced \/ \E m \in Range(l.responses) : m.kind = "step2")
  OBVIOUS
<1>4. sy \in BOOLEAN /\ (sy => l.synced \/ Answers(l.responses))
  <2>1. ASSUME NEW m \in Range(l.responses), m.kind = "step2" PROVE Answers(l.responses)
    BY <1>3, <2>1 DEF Range, Answers
  <2> QED
    BY <1>2, <1>s, <2>1
<1> DEFINE r == [l EXCEPT !.out = l.out \o l.responses, !.pc = "select", !.responses = <<>>,
                          !.broadcasts = <<>>, !.synced = sy]
<1>5. link' = [link EXCEPT ![c] = r]
  <2>1. link' = [link EXCEPT ![c].out = l.out \o l.responses, ![c].pc = "select",
                             ![c].responses = <<>>, ![c].broadcasts = <<>>, ![c].synced = sy]
    BY <1>l, <1>s DEF send_responses
  <2> QED
    BY <1>1, <1>l, <2>1 DEF YjsTypeOK, YjsLink
<1>6. l.out \o l.responses \in Seq(YjsMsg) /\ <<>> \in Seq(YjsMsg)
  BY <1>3
<1>7. r \in YjsLink
  BY <1>2, <1>4, <1>6 DEF YjsLink
<1>8. /\ r.up = TRUE /\ r.pc = "select" /\ r.next = l.next /\ r.in = l.in /\ r.out = l.out \o l.responses
      /\ r.responses = <<>> /\ r.broadcasts = <<>> /\ r.synced = sy /\ r.lagged = l.lagged
  BY <1>2 DEF YjsLink
<1> HIDE DEF r
<1>9. link' \in [YjsClients -> YjsLink] /\ link'[c] = r /\ \A d \in YjsClients \ {c} : link'[d] = link[d]
  BY <1>1, <1>5, <1>7, LinkPut DEF YjsTypeOK
<1>10. UNCHANGED <<serverDoc, presence, editorDoc, unspread>>
  BY DEF send_responses
<1>11. FanMsgs(l.broadcasts, editorDoc[c])
  BY <1>1, <1>l DEF LinkOK
<1>12. channel' = channel \o [i \in DOMAIN l.broadcasts |-> [from |-> c, msg |-> l.broadcasts[i]]]
  BY <1>l DEF send_responses
<1>13. /\ channel' \in Seq([from : YjsClients, msg : YjsMsg])
       /\ Grows(c)
       /\ \A u : Fans(l.broadcasts, u) => Posted(u)
  BY <1>1, <1>3, <1>11, <1>12, Posts
<1>14. Moves(c)
  BY <1>1, <1>9, <1>10, <1>13 DEF Moves, YjsTypeOK
<1>15. Hands(c)
  BY <1>10, <1>13, <1>l DEF Hands
<1>16. 1 <= l.next /\ l.next <= Len(channel) + 1 /\ l.next \in Nat /\ Len(channel) \in Nat /\ Len(channel') \in Nat
  BY <1>1, <1>2, <1>l, <1>13 DEF LinkOK, YjsTypeOK, YjsLink
<1>17. LinkOK(c)'
  <2>1. Len(channel) <= Len(channel')
    BY <1>13 DEF Grows
  <2>2. l.next <= Len(channel') + 1
    BY <1>16, <2>1
  <2>3. \A i \in 1..Len(l.in) : OwnFrame(l.in[i], editorDoc[c])
    BY <1>1, <1>l DEF LinkOK
  <2> QED
    BY <1>8, <1>9, <1>10, <1>16, <2>2, <2>3, EmptyMsgs DEF LinkOK
<1>18. CoverOK(c)'
  <2> SUFFICES ASSUME ~l.lagged, NEW u \in serverDoc' \ unspread', sy PROVE Reaches(c, u)'
    BY <1>8, <1>9, EmptyMsgs DEF CoverOK
  <2>1. Carries(l.responses, u) \/ Reaches(c, u)
    BY <1>1, <1>2, <1>4, <1>10, <1>l DEF CoverOK
  <2>2. \A v : Carries(l.out, v) \/ Carries(l.responses, v) => Carries(r.out, v)
    BY <1>3, <1>8, CarriesConcat
  <2>3. CASE Carries(l.responses, u)
    BY <1>9, <2>2, <2>3 DEF Reaches, Carries
  <2>4. CASE Reaches(c, u)
    BY <1>1, <1>8, <1>9, <1>14, <1>15, <1>16, <1>l, <2>2, <2>4, ReachesKept
  <2> QED
    BY <2>1, <2>3, <2>4
<1> QED
  BY <1>14, <1>15, <1>17, <1>18, MovesInv

\* What a frame's broadcasts update is what they fan out.
LEMMA UpdatesFanned ==
    ASSUME NEW s \in Seq(YjsMsg), NEW u
    PROVE  u \in Updates(s) <=> Fans(s, u)
<1>1. u \in Updates(s) <=> \E m \in Range(s) : m.kind = "update" /\ u \in m.ups
  BY DEF Updates
<1>2. \A m : m \in Range(s) <=> \E i \in 1..Len(s) : m = s[i]
  BY DEF Range
<1> QED
  BY <1>1, <1>2 DEF Fans

\* A connection that ends takes nothing with it: what its handler was to fan
\* out goes to the channel, or is counted as not spread.
LEMMA HangsUpInv ==
    ASSUME YjsInv, NEW c \in YjsClients, link' = [link EXCEPT ![c] = Hangup(c)],
           serverDoc' \in SUBSET YjsUpdates, presence' \in [YjsClients -> Nat],
           channel' \in Seq([from : YjsClients, msg : YjsMsg]),
           Grows(c), editorDoc' = editorDoc,
           \A u \in serverDoc' \ unspread' : u \in serverDoc \ unspread /\ (Fans(link[c].broadcasts, u) => Posted(u))
    PROVE  YjsInv'
<1>1. YjsTypeOK
  BY DEF YjsInv
<1>2. link[c].connects \in Nat
  BY <1>1 DEF YjsTypeOK, YjsLink
<1>3. Hangup(c) \in YjsLink
  BY <1>2, OfflineType DEF Hangup
<1>4. Hangup(c).up = FALSE /\ Hangup(c).in = <<>> /\ Hangup(c).responses = <<>> /\ Hangup(c).broadcasts = <<>>
  BY DEF Hangup, Offline
<1>5. link' \in [YjsClients -> YjsLink] /\ link'[c] = Hangup(c) /\ \A d \in YjsClients \ {c} : link'[d] = link[d]
  BY <1>1, <1>3, LinkPut DEF YjsTypeOK
<1>6. Moves(c)
  BY <1>1, <1>5 DEF Moves, YjsTypeOK
<1>7. Hands(c)
  BY DEF Hands
<1>8. LinkOK(c)'
  BY <1>4, <1>5, EmptyMsgs DEF LinkOK
<1>9. CoverOK(c)'
  BY <1>4, <1>5 DEF CoverOK
<1> QED
  BY <1>6, <1>7, <1>8, <1>9, MovesInv

\* The socket is lost.
LEMMA DisconnectInv == ASSUME YjsInv, NEW c \in YjsClients, disconnect(c) PROVE YjsInv'
<1>1. YjsTypeOK /\ LinkOK(c)
  BY DEF YjsInv
<1>l. PICK l \in YjsLink : l = link[c]
  BY <1>1 DEF YjsTypeOK
<1>2. l.broadcasts \in Seq(YjsMsg) /\ FanMsgs(l.broadcasts, editorDoc[c])
  BY <1>1, <1>l DEF YjsLink, LinkOK
<1>3. link' = [link EXCEPT ![c] = Hangup(c)] /\ UNCHANGED <<serverDoc, presence, editorDoc>>
  BY DEF disconnect
<1>4. CASE l.responses = <<>>
  <2>1. /\ channel' = channel \o [i \in DOMAIN l.broadcasts |-> [from |-> c, msg |-> l.broadcasts[i]]]
        /\ unspread' = unspread
    BY <1>4, <1>l DEF disconnect
  <2>2. /\ channel' \in Seq([from : YjsClients, msg : YjsMsg])
        /\ Grows(c)
        /\ \A u : Fans(l.broadcasts, u) => Posted(u)
    BY <1>1, <1>2, <2>1, Posts
  <2>3. serverDoc' \in SUBSET YjsUpdates /\ presence' \in [YjsClients -> Nat]
    BY <1>1, <1>3 DEF YjsTypeOK
  <2>4. \A u \in serverDoc' \ unspread' : u \in serverDoc \ unspread /\ (Fans(link[c].broadcasts, u) => Posted(u))
    BY <1>3, <1>l, <2>1, <2>2
  <2> QED
    BY <1>3, <2>2, <2>3, <2>4, HangsUpInv
<1>5. CASE l.responses # <<>>
  <2>1. unspread' = unspread \union Updates(l.broadcasts) /\ channel' = channel
    BY <1>5, <1>l DEF disconnect
  <2>2. Grows(c)
    BY <1>1, <2>1, GrowsStill
  <2>3. /\ serverDoc' \in SUBSET YjsUpdates /\ presence' \in [YjsClients -> Nat]
        /\ channel' \in Seq([from : YjsClients, msg : YjsMsg])
    BY <1>1, <1>3, <2>1 DEF YjsTypeOK
  <2>4. \A u \in serverDoc' \ unspread' : u \in serverDoc \ unspread /\ ~Fans(l.broadcasts, u)
    BY <1>2, <1>3, <2>1, UpdatesFanned
  <2> QED
    BY <1>3, <1>l, <2>2, <2>3, <2>4, HangsUpInv
<1> QED
  BY <1>4, <1>5

\* A receiver takes the next message, its own not, or finds that it lagged.
LEMMA RecvBroadcastInv == ASSUME YjsInv, NEW c \in YjsClients, recv_broadcast(c) PROVE YjsInv'
<1>1. YjsTypeOK /\ LinkOK(c) /\ CoverOK(c) /\ YjsOwn
  BY DEF YjsInv
<1>l. PICK l \in YjsLink : l = link[c]
  BY <1>1 DEF YjsTypeOK
<1>2. l.up = TRUE /\ l.pc = "select" /\ l.next <= Len(channel) /\ l.synced \in BOOLEAN /\ l.lagged \in BOOLEAN
  BY <1>l DEF recv_broadcast, YjsLink
<1>3. l.out \in Seq(YjsMsg) /\ l.next \in Nat /\ Len(channel) \in Nat /\ 1 <= l.next
  BY <1>1, <1>2, <1>l, YjsLengths DEF YjsLink, LinkOK
<1>o. PICK o : o = Oldest
  OBVIOUS
<1>4. o \in Nat /\ 1 <= o /\ o <= Len(channel) + 1
  BY <1>3, <1>o, YjsBufferNat DEF Oldest
<1>i. PICK item : item = channel[l.next]
  OBVIOUS
<1>5. item.from \in YjsClients /\ item.msg \in YjsMsg
  <2>1. l.next \in 1..Len(channel) /\ channel \in Seq([from : YjsClients, msg : YjsMsg])
    BY <1>1, <1>2, <1>3 DEF YjsTypeOK
  <2>2. item \in [from : YjsClients, msg : YjsMsg]
    BY <1>i, <2>1, ElementOfSeq
  <2> QED
    BY <2>2
<1>6. FanMsg(item.msg, editorDoc[item.from])
  BY <1>1, <1>2, <1>3, <1>i DEF YjsOwn
<1>n. PICK n : n = IF l.next < o THEN o ELSE l.next + 1
  OBVIOUS
<1>g. PICK lag : lag = (l.lagged \/ l.next < o)
  OBVIOUS
<1>t. PICK out : out = IF l.next < o \/ item.from = c THEN l.out ELSE Append(l.out, item.msg)
  OBVIOUS
<1>7. n \in Nat /\ 1 <= n /\ n <= Len(channel) + 1
  BY <1>2, <1>3, <1>4, <1>n
<1>8. lag \in BOOLEAN /\ out \in Seq(YjsMsg)
  BY <1>2, <1>3, <1>4, <1>5, <1>g, <1>t, AppendAt
<1> DEFINE r == [l EXCEPT !.next = n, !.lagged = lag, !.out = out]
<1>9. link' = [link EXCEPT ![c] = r]
  <2>1. link' = [link EXCEPT ![c].next = n, ![c].lagged = lag, ![c].out = out]
    BY <1>l, <1>o, <1>i, <1>n, <1>g, <1>t DEF recv_broadcast
  <2> QED
    BY <1>1, <1>l, <2>1 DEF YjsTypeOK, YjsLink
<1>10. r \in YjsLink
  BY <1>7, <1>8 DEF YjsLink
<1>11. /\ r.up = TRUE /\ r.pc = "select" /\ r.next = n /\ r.in = l.in /\ r.out = out
       /\ r.responses = l.responses /\ r.broadcasts = l.broadcasts /\ r.synced = l.synced /\ r.lagged = lag
  BY <1>2 DEF YjsLink
<1> HIDE DEF r
<1>12. link' \in [YjsClients -> YjsLink] /\ link'[c] = r /\ \A d \in YjsClients \ {c} : link'[d] = link[d]
  BY <1>1, <1>9, <1>10, LinkPut DEF YjsTypeOK
<1>13. UNCHANGED <<serverDoc, presence, channel, editorDoc, unspread>>
  BY DEF recv_broadcast
<1>14. Grows(c)
  BY <1>1, <1>13, GrowsStill
<1>15. Moves(c)
  BY <1>1, <1>12, <1>13, <1>14 DEF Moves, YjsTypeOK
<1>16. l.responses = <<>> /\ l.broadcasts = <<>>
  BY <1>1, <1>2, <1>l DEF LinkOK
<1>17. Hands(c)
  BY <1>13, <1>16, <1>l, EmptyMsgs DEF Hands
<1>18. \A i \in 1..Len(l.in) : OwnFrame(l.in[i], editorDoc[c])
  BY <1>1, <1>l DEF LinkOK
<1>19. LinkOK(c)'
  BY <1>7, <1>11, <1>12, <1>13, <1>16, <1>18, EmptyMsgs DEF LinkOK
<1>20. CoverOK(c)'
  <2> SUFFICES ASSUME ~lag, l.synced, NEW u \in serverDoc' \ unspread' PROVE Reaches(c, u)'
    BY <1>11, <1>12, <1>16, EmptyMsgs DEF CoverOK
  <2>1. Reaches(c, u) /\ ~l.lagged /\ ~(l.next < o)
    BY <1>1, <1>2, <1>13, <1>g, <1>l DEF CoverOK
  <2>2. n = l.next + 1
    BY <2>1, <1>n
  <2>3. CASE u \in editorDoc[c]
    BY <1>13, <2>3 DEF Reaches
  <2>4. CASE Carries(l.out, u)
    <3>1. Carries(out, u)
      BY <1>3, <1>5, <1>t, <2>4, CarriesAppend
    <3> QED
      BY <1>11, <1>12, <3>1 DEF Reaches, Carries
  <2>5. CASE Ahead(l.next, u)
    <3>1. PICK i \in l.next..Len(channel) : u \in channel[i].msg.ups
      BY <2>5 DEF Ahead
    <3>2. CASE i = l.next
      <4>1. u \in item.msg.ups /\ item.msg.kind = "update" /\ u \in editorDoc[item.from]
        BY <1>6, <1>i, <3>1, <3>2 DEF FanMsg
      <4>2. CASE item.from = c
        BY <1>13, <4>1, <4>2 DEF Reaches
      <4>3. CASE item.from # c
        <5>1. Carries(out, u)
          BY <1>3, <1>5, <1>t, <2>1, <4>1, <4>3, CarriesAppend
        <5> QED
          BY <1>11, <1>12, <5>1 DEF Reaches, Carries
      <4> QED
        BY <4>2, <4>3
    <3>3. CASE i # l.next
      <4>1. i \in n..Len(channel)
        BY <1>3, <2>2, <3>1, <3>3
      <4> QED
        BY <1>11, <1>12, <1>13, <3>1, <4>1 DEF Reaches, Ahead
    <3> QED
      BY <3>2, <3>3
  <2>6. CASE ToFan(u)
    <3>1. ~Posted(u)
      BY <1>3, <1>13 DEF Posted
    <3> QED
      BY <1>15, <1>17, <2>6, <3>1, ToFanKept DEF Reaches
  <2> QED
    BY <1>l, <2>1, <2>3, <2>4, <2>5, <2>6 DEF Reaches
<1> QED
  BY <1>15, <1>17, <1>19, <1>20, MovesInv

\* A frame under the lock: what it adds to the document it is to fan out, or,
\* if it fails, has not spread.
LEMMA ProcessInv == ASSUME YjsInv, NEW c \in YjsClients, process_incoming_binary(c) PROVE YjsInv'
<1>1. YjsTypeOK /\ LinkOK(c) /\ CoverOK(c)
  BY DEF YjsInv
<1>l. PICK l \in YjsLink : l = link[c]
  BY <1>1 DEF YjsTypeOK
<1>2. l.up = TRUE /\ l.pc = "select" /\ l.in # <<>> /\ l.in \in Seq(Seq(YjsMsg))
  BY <1>l DEF process_incoming_binary, YjsLink
<1>3. \A i \in 1..Len(l.in) : OwnFrame(l.in[i], editorDoc[c])
  BY <1>1, <1>l DEF LinkOK
<1>4. Head(l.in) \in Seq(YjsMsg) /\ OwnFrame(Head(l.in), editorDoc[c])
  BY <1>2, <1>3, TailAt
<1>5. Tail(l.in) \in Seq(Seq(YjsMsg)) /\ \A i \in 1..Len(Tail(l.in)) : OwnFrame(Tail(l.in)[i], editorDoc[c])
  BY <1>2, <1>3, TailAt
<1> DEFINE start == [doc |-> serverDoc, presence |-> presence, responses |-> <<>>,
                     broadcasts |-> <<>>, failed |-> FALSE]
<1>6. AccOK(start, serverDoc, editorDoc[c])
  <2>1. <<>> \in Seq(YjsMsg)
    OBVIOUS
  <2>2. start \in YjsAcc
    BY <1>1, <2>1 DEF YjsAcc, YjsTypeOK
  <2> QED
    BY <2>2, EmptyMsgs DEF AccOK
<1>d. PICK done : done = handle_frame(start, Head(l.in))
  OBVIOUS
<1>7. AccOK(done, serverDoc, editorDoc[c])
  <2> HIDE DEF start
  <2> QED
    BY <1>4, <1>6, <1>d, FrameOK
<1>8. /\ done.doc \in SUBSET YjsUpdates /\ done.presence \in [YjsClients -> Nat]
      /\ done.responses \in Seq(YjsMsg) /\ done.broadcasts \in Seq(YjsMsg)
  BY <1>7 DEF AccOK, YjsAcc
<1>9. /\ serverDoc' = done.doc /\ presence' = done.presence
      /\ UNCHANGED <<channel, editorDoc>>
      /\ IF done.failed
         THEN /\ link' = [link EXCEPT ![c] = Hangup(c)]
              /\ unspread' = unspread \union Updates(done.broadcasts)
         ELSE /\ link' = [link EXCEPT ![c].in = Tail(@), ![c].pc = "respond",
                                      ![c].responses = done.responses, ![c].broadcasts = done.broadcasts]
              /\ unspread' = unspread
  BY <1>d, <1>l DEF process_incoming_binary
<1>10. Grows(c)
  BY <1>1, <1>9, GrowsStill
<1>11. l.responses = <<>> /\ l.broadcasts = <<>>
  BY <1>1, <1>2, <1>l DEF LinkOK
<1>12. \A u \in done.doc : u \in serverDoc \/ Fans(done.broadcasts, u)
  BY <1>7 DEF AccOK
<1>13. CASE done.failed
  <2>1. \A u \in serverDoc' \ unspread' : u \in serverDoc \ unspread
    BY <1>8, <1>9, <1>12, <1>13, UpdatesFanned
  <2>2. \A u : ~Fans(link[c].broadcasts, u)
    BY <1>11, <1>l, EmptyMsgs
  <2>3. channel' \in Seq([from : YjsClients, msg : YjsMsg])
    BY <1>1, <1>9 DEF YjsTypeOK
  <2> QED
    BY <1>8, <1>9, <1>10, <1>13, <2>1, <2>2, <2>3, HangsUpInv
<1>14. CASE ~done.failed
  <2> DEFINE r == [l EXCEPT !.in = Tail(l.in), !.pc = "respond", !.responses = done.responses,
                            !.broadcasts = done.broadcasts]
  <2>1. link' = [link EXCEPT ![c] = r]
    <3>1. link' = [link EXCEPT ![c].in = Tail(l.in), ![c].pc = "respond",
                               ![c].responses = done.responses, ![c].broadcasts = done.broadcasts]
      BY <1>9, <1>14, <1>l
    <3> QED
      BY <1>1, <1>l, <3>1 DEF YjsTypeOK, YjsLink
  <2>2. r \in YjsLink
    BY <1>5, <1>8 DEF YjsLink
  <2>3. /\ r.up = TRUE /\ r.pc = "respond" /\ r.next = l.next /\ r.in = Tail(l.in) /\ r.out = l.out
        /\ r.responses = done.responses /\ r.broadcasts = done.broadcasts
        /\ r.synced = l.synced /\ r.lagged = l.lagged
    BY <1>2 DEF YjsLink
  <2> HIDE DEF r
  <2>4. link' \in [YjsClients -> YjsLink] /\ link'[c] = r /\ \A d \in YjsClients \ {c} : link'[d] = link[d]
    BY <1>1, <2>1, <2>2, LinkPut DEF YjsTypeOK
  <2>5. unspread' = unspread
    BY <1>9, <1>14
  <2>6. Moves(c)
    BY <1>1, <1>8, <1>9, <1>10, <2>4 DEF Moves, YjsTypeOK
  <2>7. Hands(c)
    BY <1>9, <1>11, <1>12, <1>l, <2>3, <2>4, <2>5, EmptyMsgs DEF Hands
  <2>8. l.next \in Nat /\ 1 <= l.next /\ l.next <= Len(channel) + 1
    BY <1>1, <1>2, <1>l DEF LinkOK, YjsLink
  <2>9. FanMsgs(done.broadcasts, editorDoc[c])
    BY <1>7 DEF AccOK
  <2>10. LinkOK(c)'
    BY <1>5, <1>9, <2>3, <2>4, <2>8, <2>9 DEF LinkOK
  <2>11. CoverOK(c)'
    <3> SUFFICES ASSUME ~l.lagged, NEW u \in serverDoc' \ unspread'
                 PROVE  /\ l.synced => Reaches(c, u)'
                        /\ Answers(done.responses) => Carries(done.responses, u) \/ Reaches(c, u)'
      BY <2>3, <2>4 DEF CoverOK
    <3>1. ASSUME l.synced PROVE Reaches(c, u)'
      <4>1. CASE Fans(done.broadcasts, u)
        <5>1. ToFan(u)'
          BY <2>3, <2>4, <4>1 DEF ToFan, Fans
        <5> QED
          BY <5>1 DEF Reaches
      <4>2. CASE u \in serverDoc
        <5>1. Reaches(c, u)
          BY <1>1, <1>2, <1>l, <2>5, <3>1, <4>2 DEF CoverOK
        <5> QED
          BY <1>1, <1>l, <2>3, <2>4, <2>6, <2>7, <2>8, <5>1, ReachesKept
      <4> QED
        BY <1>9, <1>12, <4>1, <4>2
    <3>2. ASSUME Answers(done.responses) PROVE Carries(done.responses, u) \/ Reaches(c, u)'
      <4>1. u \in editorDoc[c] \/ Carries(done.responses, u)
        BY <1>7, <1>9, <3>2 DEF AccOK
      <4> QED
        BY <1>9, <4>1 DEF Reaches
    <3> QED
      BY <3>1, <3>2
  <2> QED
    BY <2>6, <2>7, <2>10, <2>11, MovesInv
<1> QED
  BY <1>13, <1>14

\* A step of the editor: its socket and its document change, what it sends is
\* its own.
LEMMA EditorInv ==
    ASSUME YjsInv, NEW c \in YjsClients, NEW l \in YjsLink, l = link[c], l.up,
           NEW in \in Seq(Seq(YjsMsg)), NEW out \in Seq(YjsMsg), NEW E \in SUBSET YjsUpdates,
           link' = [link EXCEPT ![c] = [l EXCEPT !.out = out, !.in = in]],
           editorDoc' = [editorDoc EXCEPT ![c] = E], editorDoc[c] \subseteq E,
           UNCHANGED <<serverDoc, presence, channel, unspread>>,
           \A i \in 1..Len(in) : OwnFrame(in[i], E),
           \A u : Carries(l.out, u) => Carries(out, u) \/ u \in E
    PROVE  YjsInv'
<1>1. YjsTypeOK /\ LinkOK(c) /\ CoverOK(c)
  BY DEF YjsInv
<1> DEFINE r == [l EXCEPT !.out = out, !.in = in]
<1>2. r \in YjsLink
  BY DEF YjsLink
<1>3. /\ r.up = l.up /\ r.pc = l.pc /\ r.next = l.next /\ r.in = in /\ r.out = out /\ r.responses = l.responses
      /\ r.broadcasts = l.broadcasts /\ r.synced = l.synced /\ r.lagged = l.lagged
  BY DEF YjsLink
<1>r. link' = [link EXCEPT ![c] = r]
  OBVIOUS
<1> HIDE DEF r
<1>4. link' \in [YjsClients -> YjsLink] /\ link'[c] = r /\ \A d \in YjsClients \ {c} : link'[d] = link[d]
  BY <1>1, <1>2, <1>r, LinkPut DEF YjsTypeOK
<1>5. /\ editorDoc' \in [YjsClients -> SUBSET YjsUpdates] /\ editorDoc'[c] = E
      /\ \A d \in YjsClients : editorDoc[d] \subseteq editorDoc'[d]
  BY <1>1 DEF YjsTypeOK
<1>6. Grows(c)
  BY <1>1, GrowsStill
<1>7. Moves(c)
  BY <1>1, <1>4, <1>5, <1>6 DEF Moves, YjsTypeOK
<1>8. Hands(c)
  BY <1>3, <1>4 DEF Hands
<1>9. l.next \in Nat /\ 1 <= l.next /\ l.next <= Len(channel) + 1 /\ FanMsgs(l.broadcasts, editorDoc[c])
  BY <1>1 DEF LinkOK, YjsLink
<1>10. FanMsgs(l.broadcasts, E)
  BY <1>9, OwnGrows
<1>11. l.pc = "select" => l.responses = <<>> /\ l.broadcasts = <<>>
  BY <1>1 DEF LinkOK
<1>12. LinkOK(c)'
  BY <1>3, <1>4, <1>5, <1>9, <1>10, <1>11 DEF LinkOK
<1>13. ASSUME NEW u \in serverDoc' \ unspread', Reaches(c, u) PROVE Reaches(c, u)'
  <2>1. CASE u \in E
    BY <1>5, <2>1 DEF Reaches
  <2>2. CASE Carries(l.out, u)
    <3>1. Carries(out, u) \/ u \in E
      BY <2>2
    <3> QED
      BY <1>3, <1>4, <2>1, <3>1 DEF Reaches, Carries
  <2>3. CASE Ahead(l.next, u)
    BY <1>3, <1>4, <2>3 DEF Reaches, Ahead
  <2>4. CASE ToFan(u)
    <3>1. Len(channel) \in Nat
      BY <1>1, YjsLengths
    <3>2. ~Posted(u)
      BY <3>1 DEF Posted
    <3> QED
      BY <1>7, <1>8, <2>4, <3>2, ToFanKept DEF Reaches
  <2> QED
    BY <1>13, <2>1, <2>2, <2>3, <2>4 DEF Reaches
<1>14. CoverOK(c)'
  <2> SUFFICES ASSUME ~l.lagged, NEW u \in serverDoc' \ unspread'
               PROVE  /\ l.synced => Reaches(c, u)'
                      /\ Answers(l.responses) => Carries(l.responses, u) \/ Reaches(c, u)'
    BY <1>3, <1>4 DEF CoverOK
  <2> QED
    BY <1>1, <1>13 DEF CoverOK
<1> QED
  BY <1>7, <1>8, <1>12, <1>14, MovesInv

\* An editor writes: the update, or the update and garbage.
LEMMA EditsInv ==
    ASSUME YjsInv, NEW c \in YjsClients, NEW u \in YjsUpdates, editor_edits(c, u)
    PROVE  YjsInv'
<1>1. YjsTypeOK /\ LinkOK(c)
  BY DEF YjsInv
<1>l. PICK l \in YjsLink : l = link[c]
  BY <1>1 DEF YjsTypeOK
<1>2. l.up /\ l.in \in Seq(Seq(YjsMsg)) /\ l.out \in Seq(YjsMsg) /\ l.connects \in Nat
  BY <1>l DEF editor_edits, YjsLink
<1>e. PICK E : E = editorDoc[c] \union {u}
  OBVIOUS
<1>3. E \in SUBSET YjsUpdates /\ u \in E /\ editorDoc[c] \subseteq E
  BY <1>1, <1>e DEF YjsTypeOK
<1> DEFINE f1 == <<SyncUpdate({u}), AwarenessMsg({<<c, l.connects>>}), AwarenessQuery>>
           f2 == <<SyncUpdate({u}), BrokenMsg>>
<1>4. SyncUpdate({u}) \in YjsMsg /\ SyncUpdate({u}).ups = {u}
  BY YjsMsgs DEF SyncUpdate
<1>5. AwarenessMsg({<<c, l.connects>>}) \in YjsMsg /\ AwarenessMsg({<<c, l.connects>>}).ups = {}
  <2>1. {<<c, l.connects>>} \in SUBSET (YjsClients \X Nat)
    BY <1>2
  <2> QED
    BY <2>1, YjsMsgs DEF AwarenessMsg
<1>6. AwarenessQuery \in YjsMsg /\ AwarenessQuery.ups = {} /\ BrokenMsg \in YjsMsg /\ BrokenMsg.ups = {}
  BY YjsMsgs DEF AwarenessQuery, BrokenMsg
<1>7. f1 \in Seq(YjsMsg) /\ OwnFrame(f1, E)
  BY <1>3, <1>4, <1>5, <1>6 DEF OwnFrame
<1>8. f2 \in Seq(YjsMsg) /\ OwnFrame(f2, E)
  BY <1>3, <1>4, <1>6 DEF OwnFrame
<1>9. \E f \in {f1, f2} : link' = [link EXCEPT ![c].in = Append(l.in, f)]
  BY <1>l DEF editor_edits, EditorSends
<1> HIDE DEF f1, f2
<1>f. PICK f \in Seq(YjsMsg) : OwnFrame(f, E) /\ link' = [link EXCEPT ![c].in = Append(l.in, f)]
  BY <1>7, <1>8, <1>9
<1>10. Append(l.in, f) \in Seq(Seq(YjsMsg)) /\ \A i \in 1..Len(Append(l.in, f)) : OwnFrame(Append(l.in, f)[i], E)
  <2>1. \A i \in 1..Len(l.in) : OwnFrame(l.in[i], E)
    BY <1>1, <1>3, <1>l, OwnGrows DEF LinkOK
  <2> QED
    BY <1>2, <1>f, <2>1, AppendAt
<1>n. PICK in \in Seq(Seq(YjsMsg)) : in = Append(l.in, f)
  BY <1>10
<1>11. link' = [link EXCEPT ![c] = [l EXCEPT !.out = l.out, !.in = in]]
  BY <1>1, <1>l, <1>f, <1>n DEF YjsTypeOK, YjsLink
<1>12. editorDoc' = [editorDoc EXCEPT ![c] = E] /\ UNCHANGED <<serverDoc, presence, channel, unspread>>
  BY <1>e DEF editor_edits
<1> QED
  BY <1>2, <1>3, <1>10, <1>11, <1>12, <1>l, <1>n, EditorInv

\* An editor takes a message, and answers a state vector.
LEMMA ReceivesInv == ASSUME YjsInv, NEW c \in YjsClients, editor_receives(c) PROVE YjsInv'
<1>1. YjsTypeOK /\ LinkOK(c)
  BY DEF YjsInv
<1>l. PICK l \in YjsLink : l = link[c]
  BY <1>1 DEF YjsTypeOK
<1>2. l.up /\ l.in \in Seq(Seq(YjsMsg)) /\ l.out \in Seq(YjsMsg) /\ l.out # <<>>
  BY <1>l DEF editor_receives, YjsLink
<1>m. PICK msg \in YjsMsg : msg = Head(l.out)
  BY <1>2, TailAt
<1>3. msg.ups \in SUBSET YjsUpdates
  BY DEF YjsMsg
<1>e. PICK E : E = IF msg.kind \in {"step2", "update"} THEN editorDoc[c] \union msg.ups ELSE editorDoc[c]
  OBVIOUS
<1>4. E \in SUBSET YjsUpdates /\ editorDoc[c] \subseteq E
  BY <1>1, <1>3, <1>e DEF YjsTypeOK
<1>p. PICK reply : reply = IF msg.kind = "step1" THEN <<<<SyncStep2(editorDoc[c] \ msg.ups)>>>> ELSE <<>>
  OBVIOUS
<1>5. reply \in Seq(Seq(YjsMsg)) /\ \A i \in 1..Len(reply) : OwnFrame(reply[i], E)
  <2> DEFINE s == SyncStep2(editorDoc[c] \ msg.ups)
  <2>1. s \in YjsMsg /\ s.ups \subseteq E
    BY <1>1, <1>4, YjsMsgs DEF YjsTypeOK, SyncStep2
  <2>2. CASE msg.kind = "step1"
    <3>1. reply = <<<<s>>>>
      BY <1>p, <2>2
    <3> HIDE DEF s
    <3>2. <<s>> \in Seq(YjsMsg) /\ OwnFrame(<<s>>, E)
      BY <2>1 DEF OwnFrame
    <3> QED
      BY <3>1, <3>2
  <2>3. CASE msg.kind # "step1"
    BY <1>p, <2>3
  <2> QED
    BY <2>2, <2>3
<1>i. PICK in : in = l.in \o reply
  OBVIOUS
<1>6. in \in Seq(Seq(YjsMsg)) /\ \A i \in 1..Len(in) : OwnFrame(in[i], E)
  <2>1. \A i \in 1..Len(l.in) : OwnFrame(l.in[i], E)
    BY <1>1, <1>4, <1>l, OwnGrows DEF LinkOK
  <2>2. /\ l.in \o reply \in Seq(Seq(YjsMsg))
        /\ \A i \in 1..Len(l.in \o reply) : \/ i \in 1..Len(l.in) /\ (l.in \o reply)[i] = l.in[i]
                                            \/ i - Len(l.in) \in 1..Len(reply) /\ (l.in \o reply)[i] = reply[i - Len(l.in)]
    BY <1>2, <1>5, ConcatAt
  <2> QED
    BY <1>5, <1>i, <2>1, <2>2
<1>o. PICK out \in Seq(YjsMsg) : out = Tail(l.out)
  BY <1>2, TailAt
<1>7. \A u : Carries(l.out, u) => Carries(out, u) \/ u \in E
  BY <1>2, <1>e, <1>m, <1>o, CarriesTail
<1>8. link' = [link EXCEPT ![c] = [l EXCEPT !.out = out, !.in = in]]
  <2>1. link' = [link EXCEPT ![c].out = out, ![c].in = in]
    BY <1>i, <1>l, <1>m, <1>o, <1>p DEF editor_receives
  <2> QED
    BY <1>1, <1>l, <2>1 DEF YjsTypeOK, YjsLink
<1>9. editorDoc' = [editorDoc EXCEPT ![c] = E] /\ UNCHANGED <<serverDoc, presence, channel, unspread>>
  BY <1>e, <1>l, <1>m DEF editor_receives
<1> QED
  BY <1>2, <1>4, <1>6, <1>7, <1>8, <1>9, <1>l, EditorInv

\* Nothing moves.
LEMMA YjsStillInv == ASSUME YjsInv, UNCHANGED yjsVars PROVE YjsInv'
  BY DEF YjsInv, yjsVars, YjsTypeOK, YjsOwn, LinkOK, CoverOK, Reaches, Ahead, ToFan

\* Every step keeps the invariant.
LEMMA YjsNextInv == YjsInv /\ [YjsNext]_yjsVars => YjsInv'
<1> SUFFICES ASSUME YjsInv, [YjsNext]_yjsVars PROVE YjsInv'
  OBVIOUS
<1>1. CASE UNCHANGED yjsVars
  BY <1>1, YjsStillInv
<1>2. CASE YjsNext
  <2>1. PICK c \in YjsClients :
           \/ subscribe(c) \/ process_incoming_binary(c) \/ send_responses(c) \/ recv_broadcast(c) \/ disconnect(c)
           \/ \E u \in YjsUpdates : editor_edits(c, u)
           \/ editor_receives(c)
    BY <1>2 DEF YjsNext
  <2> QED
    BY <2>1, EditorSubscribeInv, ProcessInv, SendResponsesInv, RecvBroadcastInv, DisconnectInv, EditsInv, ReceivesInv
<1> QED
  BY <1>1, <1>2

\* Before the first connection.
LEMMA YjsInitInv == YjsInit => YjsInv
<1> SUFFICES ASSUME YjsInit PROVE YjsInv
  OBVIOUS
<1>1. Offline \in YjsLink
  <2>1. <<>> \in Seq(YjsMsg) /\ <<>> \in Seq(Seq(YjsMsg))
    OBVIOUS
  <2> QED
    BY <2>1 DEF Offline, YjsLink
<1>2. YjsTypeOK
  BY <1>1 DEF YjsInit, YjsTypeOK
<1>3. YjsOwn
  BY DEF YjsInit, YjsOwn
<1>4. Offline.up = FALSE /\ Offline.in = <<>> /\ Offline.responses = <<>> /\ Offline.broadcasts = <<>>
  BY DEF Offline
<1>5. \A c \in YjsClients : link[c] = Offline
  BY DEF YjsInit
<1>6. ASSUME NEW c \in YjsClients PROVE LinkOK(c) /\ CoverOK(c)
  BY <1>4, <1>5, EmptyMsgs DEF LinkOK, CoverOK
<1> QED
  BY <1>2, <1>3, <1>6 DEF YjsInv

\* What covers an update is where the property looks for it.
LEMMA YjsInvNotLost == YjsInv => YjsNotLost
<1> DEFINE Out(c) == UNION {m.ups : m \in {n \in Range(link[c].out) : n.kind \in {"step2", "update"}}}
           InChannel(c) == UNION {channel[i].msg.ups : i \in link[c].next..Len(channel)}
           Held == UNION {Updates(link[d].broadcasts) : d \in YjsClients}
<1>0. YjsNotLost <=> \A c \in YjsClients : link[c].up /\ link[c].synced /\ ~link[c].lagged =>
                        serverDoc \ unspread \subseteq editorDoc[c] \union Out(c) \union InChannel(c) \union Held
  BY DEF YjsNotLost
<1> SUFFICES ASSUME YjsInv, NEW c \in YjsClients, link[c].up, link[c].synced, ~link[c].lagged,
                    NEW u \in serverDoc \ unspread
             PROVE  u \in editorDoc[c] \/ u \in Out(c) \/ u \in InChannel(c) \/ u \in Held
  <2> HIDE DEF Out, InChannel, Held
  <2> QED
    BY <1>0
<1>1. Reaches(c, u)
  BY DEF YjsInv, CoverOK
<1>2. YjsTypeOK
  BY DEF YjsInv
<1>3. CASE Carries(link[c].out, u)
  <2>1. link[c].out \in Seq(YjsMsg)
    BY <1>2 DEF YjsTypeOK, YjsLink
  <2>2. \A i \in 1..Len(link[c].out) : link[c].out[i] \in Range(link[c].out)
    BY <2>1 DEF Range
  <2>3. \E m \in Range(link[c].out) : m.kind \in {"step2", "update"} /\ u \in m.ups
    BY <1>3, <2>2 DEF Carries
  <2> QED
    BY <2>3
<1>4. CASE ToFan(u)
  <2>1. PICK d \in YjsClients : Fans(link[d].broadcasts, u)
    BY <1>4 DEF ToFan
  <2>2. link[d].broadcasts \in Seq(YjsMsg)
    BY <1>2 DEF YjsTypeOK, YjsLink
  <2>3. u \in Updates(link[d].broadcasts)
    BY <2>1, <2>2, UpdatesFanned
  <2> QED
    BY <2>3
<1>5. CASE Ahead(link[c].next, u)
  BY <1>5 DEF Ahead
<1> QED
  BY <1>1, <1>3, <1>4, <1>5 DEF Reaches

\* handle_socket, process_incoming_binary: for any editors, frames, broken
\* messages and lost connections, whatever is in the endpoint's document is
\* in an answered editor's, or on its way to it.
THEOREM YjsNotLostHolds == YjsSpec => []YjsNotLost
<1>1. YjsInit => YjsInv
  BY YjsInitInv
<1>2. YjsInv /\ [YjsNext]_yjsVars => YjsInv'
  BY YjsNextInv
<1>3. YjsInv => YjsNotLost
  BY YjsInvNotLost
<1> QED
  BY <1>1, <1>2, <1>3, PTL DEF YjsSpec

-----------------------------------------------------------------------------
(* LanDiscovery *)

\* What the peers announce, together.
LanRecs == UNION {RecordsOf(Announcements[i]) : i \in DOMAIN Announcements}

LanMerged == [ptr : SUBSET {r.instance : r \in LanRecs}, srv : SUBSET LanRecs,
              txt : SUBSET LanRecs, addresses : SUBSET LanRecs]

OfType(R, t) == {r \in R : r.type = t}

\* The four tables hold the records R, every one in its own.
IsMerged(m, R) ==
    /\ m \in LanMerged
    /\ m.ptr = {r.instance : r \in OfType(R, "PTR")}
    /\ m.srv = OfType(R, "SRV") /\ m.txt = OfType(R, "TXT") /\ m.addresses = OfType(R, "A")

LanTables == [ptr |-> ptr, srv |-> srv, txt |-> txt, addresses |-> addresses]

LanInv ==
    /\ lanPacket \in [1..NameBytes -> NameCells]
    /\ packets \in Nat
    /\ received \subseteq LanRecs
    /\ IsMerged(LanTables, received)
    /\ discovery = "query" => packets = 0
    /\ discovery = "done" /\ packets > 0 => peers = resolve_records

-----------------------------------------------------------------------------
(* What is announced *)

\* Records of one instance come from its peer, and an instance has one SRV
\* and one TXT record.
LEMMA LanRecordsOne ==
    /\ \A r \in LanRecs : r.type \in {"PTR", "SRV", "TXT", "A"}
    /\ \A r, q \in LanRecs : r.type = q.type /\ r.type \in {"SRV", "TXT"} /\ r.instance = q.instance => r = q
    /\ \A r \in LanRecs : r.type # "A" => r.instance \in DOMAIN Announcements /\ r \in RecordsOf(Announcements[r.instance])
<1>1. ASSUME NEW r \in LanRecs
      PROVE  /\ r.type \in {"PTR", "SRV", "TXT", "A"}
             /\ r.type # "A" => r.instance \in DOMAIN Announcements /\ r \in RecordsOf(Announcements[r.instance])
  <2>1. PICK i \in DOMAIN Announcements : r \in RecordsOf(Announcements[i])
    BY DEF LanRecs
  <2> QED
    BY <2>1, LanAnnounced
<1>2. ASSUME NEW r \in LanRecs, NEW q \in LanRecs, r.type = q.type, r.type \in {"SRV", "TXT"}, r.instance = q.instance
      PROVE  r = q
  <2>1. PICK i \in DOMAIN Announcements : r \in RecordsOf(Announcements[i]) /\ q \in RecordsOf(Announcements[i])
    BY <1>1, <1>2
  <2>2. /\ \E x \in RecordsOf(Announcements[i]) : \A y \in RecordsOf(Announcements[i]) : y.type = "TXT" => y = x
        /\ \E x \in RecordsOf(Announcements[i]) : \A y \in RecordsOf(Announcements[i]) : y.type = "SRV" => y = x
    BY LanAnnounced
  <2> QED
    BY <1>2, <2>1, <2>2
<1> QED
  BY <1>1, <1>2

-----------------------------------------------------------------------------
(* Merging a packet *)

\* One record more.
LEMMA MergeOne ==
    ASSUME NEW R \in SUBSET LanRecs, NEW m, IsMerged(m, R), NEW rr \in LanRecs
    PROVE  IsMerged(MergeRecord(m, rr), R \union {rr})
<1> DEFINE n == MergeRecord(m, rr)
<1>1. m \in LanMerged /\ rr.type \in {"PTR", "SRV", "TXT", "A"}
  BY LanRecordsOne DEF IsMerged
<1>2. CASE rr.type = "PTR"
  <2>1. n = [m EXCEPT !.ptr = @ \union {rr.instance}]
    BY <1>2 DEF MergeRecord
  <2>2. /\ n.ptr = m.ptr \union {rr.instance} /\ n.srv = m.srv /\ n.txt = m.txt /\ n.addresses = m.addresses
        /\ n \in LanMerged
    BY <1>1, <2>1 DEF LanMerged
  <2>3. OfType(R \union {rr}, "PTR") = OfType(R, "PTR") \union {rr}
    BY <1>2 DEF OfType
  <2>4. \A t \in {"SRV", "TXT", "A"} : OfType(R \union {rr}, t) = OfType(R, t)
    BY <1>2 DEF OfType
  <2>5. n.ptr = {r.instance : r \in OfType(R \union {rr}, "PTR")}
    BY <2>2, <2>3 DEF IsMerged
  <2> QED
    BY <2>2, <2>4, <2>5 DEF IsMerged
<1>3. CASE rr.type = "SRV"
  <2>1. n = [m EXCEPT !.srv = {r \in @ : r.instance # rr.instance} \union {rr}]
    BY <1>3 DEF MergeRecord
  <2>2. /\ n.srv = {r \in m.srv : r.instance # rr.instance} \union {rr}
        /\ n.ptr = m.ptr /\ n.txt = m.txt /\ n.addresses = m.addresses
        /\ n \in LanMerged
    BY <1>1, <2>1 DEF LanMerged
  <2>3. \A r \in OfType(R, "SRV") : r.instance = rr.instance => r = rr
    BY <1>3, LanRecordsOne DEF OfType
  <2>4. \A t \in {"PTR", "TXT", "A"} : OfType(R \union {rr}, t) = OfType(R, t)
    BY <1>3 DEF OfType
  <2>5. n.srv = OfType(R \union {rr}, "SRV")
    BY <1>3, <2>2, <2>3 DEF IsMerged, OfType
  <2> QED
    BY <2>2, <2>4, <2>5 DEF IsMerged
<1>4. CASE rr.type = "TXT"
  <2>1. n = [m EXCEPT !.txt = {r \in @ : r.instance # rr.instance} \union {rr}]
    BY <1>4 DEF MergeRecord
  <2>2. /\ n.txt = {r \in m.txt : r.instance # rr.instance} \union {rr}
        /\ n.ptr = m.ptr /\ n.srv = m.srv /\ n.addresses = m.addresses
        /\ n \in LanMerged
    BY <1>1, <2>1 DEF LanMerged
  <2>3. \A r \in OfType(R, "TXT") : r.instance = rr.instance => r = rr
    BY <1>4, LanRecordsOne DEF OfType
  <2>4. \A t \in {"PTR", "SRV", "A"} : OfType(R \union {rr}, t) = OfType(R, t)
    BY <1>4 DEF OfType
  <2>5. n.txt = OfType(R \union {rr}, "TXT")
    BY <1>4, <2>2, <2>3 DEF IsMerged, OfType
  <2> QED
    BY <2>2, <2>4, <2>5 DEF IsMerged
<1>5. CASE rr.type = "A"
  <2>1. n = [m EXCEPT !.addresses = @ \union {rr}]
    BY <1>5 DEF MergeRecord
  <2>2. /\ n.addresses = m.addresses \union {rr} /\ n.ptr = m.ptr /\ n.srv = m.srv /\ n.txt = m.txt
        /\ n \in LanMerged
    BY <1>1, <2>1 DEF LanMerged
  <2>3. OfType(R \union {rr}, "A") = OfType(R, "A") \union {rr}
    BY <1>5 DEF OfType
  <2>4. \A t \in {"PTR", "SRV", "TXT"} : OfType(R \union {rr}, t) = OfType(R, t)
    BY <1>5 DEF OfType
  <2> QED
    BY <2>2, <2>3, <2>4 DEF IsMerged
<1> QED
  BY <1>1, <1>2, <1>3, <1>4, <1>5

\* The fold over a packet, from acc.
MergeSteps(g, acc, f, n) == [k \in 0..n |-> IF k = 0 THEN acc ELSE MergeRecord(g[k - 1], f[k])]

\* It has a value at every length.
LEMMA MergeFold == ASSUME NEW acc, NEW f, NEW n \in Nat PROVE \E g : g = MergeSteps(g, acc, f, n)
<1> DEFINE Good(k, g) == g = [j \in 0..k |-> IF j = 0 THEN acc ELSE MergeRecord(g[j - 1], f[j])]
           S == {k \in 0..n : \E g : Good(k, g)}
<1>1. 0 \in S
  <2>1. Good(0, [j \in 0..0 |-> acc])
    OBVIOUS
  <2>2. 0 \in 0..n
    OBVIOUS
  <2> HIDE DEF Good
  <2> QED
    BY <2>1, <2>2
<1>2. ASSUME NEW k \in 1..n, k - 1 \in S PROVE k \in S
  <2>1. PICK g : Good(k - 1, g)
    BY <1>2
  <2> DEFINE h == [j \in 0..k |-> IF j = k THEN MergeRecord(g[k - 1], f[k]) ELSE g[j]]
  <2>2. \A j \in 0..(k - 1) : h[j] = g[j]
    OBVIOUS
  <2>3. ASSUME NEW j \in 0..k
        PROVE h[j] = IF j = 0 THEN acc ELSE MergeRecord(h[j - 1], f[j])
    <3>1. CASE j = k
      <4>1. k # 0 /\ k - 1 \in 0..(k - 1)
        OBVIOUS
      <4>2. h[k - 1] = g[k - 1]
        BY <2>2, <4>1
      <4>3. h[j] = MergeRecord(g[k - 1], f[k])
        BY <3>1
      <4> HIDE DEF h
      <4> QED
        BY <3>1, <4>1, <4>2, <4>3
    <3>2. CASE j = 0
      <4>1. 0 \in 0..(k - 1)
        OBVIOUS
      <4>2. g[0] = acc
        BY <2>1, <4>1
      <4>3. h[0] = g[0]
        BY <2>2, <4>1
      <4> HIDE DEF h
      <4> QED
        BY <3>2, <4>2, <4>3
    <3>3. CASE j # k /\ j # 0
      <4>1. j \in 0..(k - 1) /\ j - 1 \in 0..(k - 1)
        BY <3>3
      <4>2. g[j] = MergeRecord(g[j - 1], f[j])
        BY <2>1, <3>3, <4>1
      <4>3. h[j] = g[j] /\ h[j - 1] = g[j - 1]
        BY <2>2, <4>1
      <4> HIDE DEF h
      <4> QED
        BY <3>3, <4>2, <4>3
    <3> QED
      BY <3>1, <3>2, <3>3
  <2>4. Good(k, h)
    <3>1. h = [j \in 0..k |-> h[j]]
      OBVIOUS
    <3> HIDE DEF h
    <3> QED
      BY <2>3, <3>1
  <2>5. k \in 0..n
    OBVIOUS
  <2> HIDE DEF Good, h
  <2> QED
    BY <2>4, <2>5
<1>3. n \in S
  <2> HIDE DEF S
  <2> QED
    BY <1>1, <1>2, UpTo
<1> QED
  BY <1>3 DEF MergeSteps

\* A packet up to where it is damaged.
LEMMA MergeAll ==
    ASSUME received \subseteq LanRecs, IsMerged(LanTables, received),
           NEW f \in Seq(LanRecs), NEW n \in 0..Len(f)
    PROVE  IsMerged(merge_records_from_packet(f, n), received \union {f[i] : i \in 1..n})
<1>t. PICK t : t = LanTables
  OBVIOUS
<1> DEFINE F(g) == MergeSteps(g, t, f, n)
           merged == CHOOSE g : g = F(g)
           Got(k) == received \union {f[i] : i \in 1..k}
           S == {k \in 0..n : IsMerged(merged[k], Got(k))}
<1>1. n \in Nat
  OBVIOUS
<1>2. merge_records_from_packet(f, n) = merged[n]
  BY <1>t DEF merge_records_from_packet, LanTables, MergeSteps
<1>3. merged = F(merged)
  <2>1. \E g : g = F(g)
    BY <1>1, MergeFold
  <2> QED
    BY <2>1
<1> HIDE DEF merged
<1>4. merged[0] = t /\ \A k \in 1..n : merged[k] = MergeRecord(merged[k - 1], f[k])
  BY <1>1, <1>3 DEF MergeSteps
<1>5. 0 \in S
  <2>1. Got(0) = received
    OBVIOUS
  <2>2. 0 \in 0..n
    BY <1>1
  <2> HIDE DEF Got
  <2> QED
    BY <1>t, <1>4, <2>1, <2>2
<1>6. ASSUME NEW k \in 1..n, k - 1 \in S PROVE k \in S
  <2>1. f[k] \in LanRecs
    BY ElementOfSeq
  <2>2. Got(k) = Got(k - 1) \union {f[k]}
    BY <1>1
  <2>3. Got(k - 1) \in SUBSET LanRecs
    <3>1. \A i \in 1..(k - 1) : i \in 1..Len(f)
      BY <1>1
    <3>2. \A i \in 1..(k - 1) : f[i] \in LanRecs
      BY <3>1, ElementOfSeq
    <3> QED
      BY <3>2
  <2>4. IsMerged(merged[k - 1], Got(k - 1)) /\ k \in 0..n
    BY <1>6
  <2> HIDE DEF Got
  <2>5. IsMerged(MergeRecord(merged[k - 1], f[k]), Got(k - 1) \union {f[k]})
    BY <2>1, <2>3, <2>4, MergeOne
  <2> QED
    BY <1>4, <2>2, <2>4, <2>5
<1>7. n \in S
  <2>1. n \in 0..n
    BY <1>1
  <2> HIDE DEF S
  <2>2. 0..n \subseteq S
    BY <1>1, <1>5, <1>6, UpTo
  <2> QED
    BY <2>1, <2>2
<1> QED
  BY <1>2, <1>7

-----------------------------------------------------------------------------
(* The steps *)

\* Before the query.
LEMMA LanInitInv == LanInit => LanInv
<1> SUFFICES ASSUME LanInit PROVE LanInv
  OBVIOUS
<1>1. LanTables \in LanMerged
  BY DEF LanInit, LanTables, LanMerged
<1>2. \A t : OfType({}, t) = {}
  BY DEF OfType
<1>3. IsMerged(LanTables, {})
  BY <1>1, <1>2 DEF IsMerged, LanInit, LanTables
<1> QED
  BY <1>3 DEF LanInit, LanInv

\* Whatever part of its announcement a peer sends.
LEMMA PacketRecords ==
    ASSUME NEW i \in DOMAIN Announcements, NEW p \in PacketsOf(Announcements[i])
    PROVE  p \in Seq(LanRecs)
<1> DEFINE a == Announcements[i]
<1>1. a \in Seq(RecordsOf(a)) /\ \E r \in RecordsOf(a) : TRUE
  BY LanAnnounced
<1>2. RecordsOf(a) \subseteq LanRecs
  BY DEF LanRecs
<1> HIDE DEF a
<1>3. a \in Seq(LanRecs) /\ Len(a) \in Nat /\ Len(a) # 0
  <2>1. DOMAIN a = 1..Len(a) /\ Len(a) \in Nat
    BY <1>1
  <2>2. Len(a) # 0
    BY <1>1, <2>1 DEF RecordsOf
  <2>3. \A k \in 1..Len(a) : a[k] \in LanRecs
    BY <1>2, <2>1 DEF RecordsOf
  <2>4. a = [k \in 1..Len(a) |-> a[k]]
    BY <1>1, <2>1
  <2> QED
    BY <2>1, <2>2, <2>3, <2>4
<1>4. a[Len(a)] \in LanRecs
  BY <1>3, ElementOfSeq
<1>5. SubSeq(a, 1, Len(a) - 1) \in Seq(LanRecs)
  BY <1>3
<1>6. <<a[Len(a)]>> \in Seq(LanRecs)
  BY <1>4
<1> QED
  BY <1>3, <1>5, <1>6 DEF PacketsOf, a

\* A packet came.
LEMMA RecvPacketInv ==
    ASSUME LanInv, NEW p \in Seq(LanRecs), NEW n \in 0..Len(p), recv_packet(p, n)
    PROVE  LanInv'
<1>m. PICK m : m = merge_records_from_packet(p, n)
  OBVIOUS
<1>1. /\ ptr' = m.ptr /\ srv' = m.srv /\ txt' = m.txt /\ addresses' = m.addresses
      /\ received' = received \union {p[i] : i \in 1..n}
      /\ packets' = packets + 1 /\ discovery = "listening" /\ UNCHANGED <<discovery, peers, lanPacket>>
  BY <1>m DEF recv_packet
<1>2. IsMerged(m, received')
  BY <1>1, <1>m, MergeAll DEF LanInv
<1>3. LanTables' = m
  BY <1>1, <1>2 DEF LanTables, IsMerged, LanMerged
<1>4. received' \subseteq LanRecs
  <2>1. \A i \in 1..n : i \in 1..Len(p)
    OBVIOUS
  <2>2. \A i \in 1..n : p[i] \in LanRecs
    BY <2>1, ElementOfSeq
  <2> QED
    BY <1>1, <2>2 DEF LanInv
<1>5. IsMerged(LanTables, received)'
  BY <1>2, <1>3 DEF IsMerged
<1>6. packets' \in Nat
  BY <1>1 DEF LanInv
<1> QED
  BY <1>1, <1>4, <1>5, <1>6 DEF LanInv

\* Every step keeps the tables what was received.
LEMMA LanNextInv == LanInv /\ [LanNext]_lanVars => LanInv'
<1> SUFFICES ASSUME LanInv, [LanNext]_lanVars PROVE LanInv'
  OBVIOUS
<1>t. ASSUME UNCHANGED <<ptr, srv, txt, addresses, received>>
      PROVE  IsMerged(LanTables, received)' /\ resolve_records' = resolve_records
  BY <1>t DEF LanInv, IsMerged, LanTables, resolve_records
<1>1. CASE UNCHANGED lanVars
  <2>1. UNCHANGED <<ptr, srv, txt, addresses, received>>
    BY <1>1 DEF lanVars
  <2> HIDE DEF resolve_records
  <2> QED
    BY <1>1, <1>t, <2>1 DEF lanVars, LanInv
<1>2. ASSUME NEW outcome \in {"listening", "done", "failed"}, send_query(outcome) PROVE LanInv'
  <2>1. UNCHANGED <<ptr, srv, txt, addresses, received, packets, lanPacket>> /\ discovery' = outcome /\ packets = 0
    BY <1>2 DEF send_query, LanInv
  <2> QED
    BY <1>t, <2>1 DEF LanInv
<1>3. ASSUME NEW i \in DOMAIN Announcements, NEW p \in PacketsOf(Announcements[i]), NEW n \in 0..Len(p),
             recv_packet(p, n)
      PROVE  LanInv'
  BY <1>3, PacketRecords, RecvPacketInv
<1>4. CASE deadline
  <2>1. /\ UNCHANGED <<ptr, srv, txt, addresses, received, packets, lanPacket>> /\ discovery' = "done"
        /\ peers' = resolve_records
    BY <1>4 DEF deadline
  <2> QED
    BY <1>t, <2>1 DEF LanInv
<1>5. CASE recv_fails
  <2>1. UNCHANGED <<ptr, srv, txt, addresses, received, packets, lanPacket>> /\ discovery' = "failed"
    BY <1>5 DEF recv_fails
  <2> QED
    BY <1>t, <2>1 DEF LanInv
<1> QED
  BY <1>1, <1>2, <1>3, <1>4, <1>5 DEF LanNext

-----------------------------------------------------------------------------
(* The answer *)

LanScoped(i) == \A r \in txt : r.instance = i => r.workspace = OwnWorkspace

LanAt(host) == {r.address : r \in {a \in addresses : a.instance = host}}

LanTarget(s) == IF LanAt(s.host) # {} THEN LanAt(s.host) ELSE LanAt(s.instance)

LanEndpoint(s, a) == [instance |-> s.instance, address |-> a, port |-> s.port]

\* What is an endpoint of the answer.
LEMMA ResolvedAre ==
    \A p : p \in resolve_records <=>
              \E s \in srv : s.instance \in ptr /\ LanScoped(s.instance) /\ \E a \in LanTarget(s) : p = LanEndpoint(s, a)
<1>1. resolve_records = UNION {{LanEndpoint(s, a) : a \in LanTarget(s)} :
                                  s \in {s \in srv : s.instance \in ptr /\ LanScoped(s.instance)}}
  BY DEF resolve_records, LanScoped, LanAt, LanTarget, LanEndpoint
<1> QED
  BY <1>1

\* The answer is exact.
LEMMA LanInvExact == LanInv => LanPeersExact
<1> DEFINE All(i) == {Announcements[i][k] : k \in DOMAIN Announcements[i]}
           Own(i) == \E k \in DOMAIN Announcements[i] :
                        Announcements[i][k].type = "TXT" /\ Announcements[i][k].workspace = OwnWorkspace
           Found(i) == {p \in peers : p.instance = i}
<1> SUFFICES ASSUME LanInv, discovery = "done", packets > 0, NEW i \in DOMAIN Announcements
             PROVE  /\ All(i) \subseteq received => Cardinality(Found(i)) = (IF Own(i) THEN 1 ELSE 0)
                    /\ Found(i) # {} => Own(i) \/ {r \in received : r.type = "TXT" /\ r.instance = i} = {}
  BY DEF LanPeersExact
<1>1. All(i) = RecordsOf(Announcements[i])
  BY DEF RecordsOf
<1>2. Own(i) <=> \E r \in All(i) : r.type = "TXT" /\ r.workspace = OwnWorkspace
  OBVIOUS
<1> HIDE DEF Own
<1>3. /\ ptr = {r.instance : r \in {q \in received : q.type = "PTR"}}
      /\ srv = {q \in received : q.type = "SRV"}
      /\ txt = {q \in received : q.type = "TXT"}
      /\ addresses = {q \in received : q.type = "A"}
      /\ received \subseteq LanRecs
  BY DEF LanInv, IsMerged, LanTables, OfType
<1>4. \A p \in Found(i) : \E s \in srv : /\ s.instance = i /\ LanScoped(i)
                                          /\ \E a \in LanTarget(s) : p = LanEndpoint(s, a)
  <2> TAKE p \in Found(i)
  <2>1. p \in resolve_records /\ p.instance = i
    BY DEF LanInv
  <2>2. PICK s \in srv : LanScoped(s.instance) /\ \E a \in LanTarget(s) : p = LanEndpoint(s, a)
    BY <2>1, ResolvedAre
  <2>3. s.instance = i
    BY <2>1, <2>2 DEF LanEndpoint
  <2> QED
    BY <2>2, <2>3
<1>5. ASSUME Found(i) # {}, NEW r \in received, r.type = "TXT", r.instance = i PROVE Own(i)
  <2>1. LanScoped(i)
    BY <1>4, <1>5
  <2>2. r.workspace = OwnWorkspace
    BY <1>3, <1>5, <2>1 DEF LanScoped
  <2>3. r \in All(i)
    BY <1>1, <1>3, <1>5, LanRecordsOne
  <2> QED
    BY <1>2, <1>5, <2>2, <2>3
<1>6. ASSUME All(i) \subseteq received PROVE Cardinality(Found(i)) = (IF Own(i) THEN 1 ELSE 0)
  <2>a. \A r \in All(i) : r.type # "A" => r.instance = i
    BY <1>1, LanAnnounced
  <2>t. PICK t \in All(i) : t.type = "TXT" /\ \A q \in All(i) : q.type = "TXT" => q = t
    BY <1>1, LanAnnounced
  <2>p. PICK pt \in All(i) : pt.type = "PTR"
    BY <1>1, LanAnnounced
  <2>s. PICK s, a \in All(i) :
           /\ s.type = "SRV"
           /\ a.type = "A" /\ a.instance \in {s.host, i}
           /\ \A j \in DOMAIN Announcements : \A q \in RecordsOf(Announcements[j]) :
                 q.type = "A" /\ q.instance \in {s.host, i} => q.address = a.address
    <3>1. \E s, a \in RecordsOf(Announcements[i]) :
             /\ s.type = "SRV" /\ \A q \in RecordsOf(Announcements[i]) : q.type = "SRV" => q = s
             /\ a.type = "A" /\ a.instance \in {s.host, i}
             /\ \A j \in DOMAIN Announcements : \A q \in RecordsOf(Announcements[j]) :
                   q.type = "A" /\ q.instance \in {s.host, i} => q.address = a.address
      BY LanAnnounced
    <3> HIDE DEF All
    <3> QED
      BY <1>1, <3>1
  <2>1. CASE ~Own(i)
    <3>1. t \in received /\ t.instance = i /\ t.workspace # OwnWorkspace
      BY <1>2, <1>6, <2>1, <2>a, <2>t
    <3>2. ~LanScoped(i)
      BY <1>3, <2>t, <3>1 DEF LanScoped
    <3>3. Found(i) = {}
      BY <1>4, <3>2
    <3> QED
      BY <2>1, <3>3, FS_EmptySet
  <2>2. CASE Own(i)
    <3>1. LanScoped(i)
      <4> SUFFICES ASSUME NEW r \in txt, r.instance = i PROVE r.workspace = OwnWorkspace
        BY DEF LanScoped
      <4>1. r \in All(i) /\ r.type = "TXT"
        BY <1>1, <1>3, LanRecordsOne
      <4> QED
        BY <1>2, <2>2, <2>t, <4>1
    <3>2. s \in srv /\ s.instance = i /\ i \in ptr
      BY <1>3, <1>6, <2>a, <2>p, <2>s
    <3>3. \A q \in addresses : q.instance \in {s.host, i} => q.address = a.address
      BY <1>3, <2>s DEF LanRecs
    <3>4. a \in addresses
      BY <1>3, <1>6, <2>s
    <3>5. LanTarget(s) = {a.address}
      <4>1. LanAt(s.host) \subseteq {a.address} /\ LanAt(i) \subseteq {a.address}
        BY <3>3 DEF LanAt
      <4>2. a.address \in LanAt(s.host) \/ a.address \in LanAt(i)
        BY <2>s, <3>4 DEF LanAt
      <4> QED
        BY <3>2, <4>1, <4>2 DEF LanTarget
    <3>6. LanEndpoint(s, a.address) \in Found(i)
      <4>1. LanEndpoint(s, a.address) \in resolve_records
        BY <3>1, <3>2, <3>5, ResolvedAre
      <4>2. LanEndpoint(s, a.address).instance = i
        BY <3>2 DEF LanEndpoint
      <4> QED
        BY <4>1, <4>2 DEF LanInv
    <3>7. ASSUME NEW p \in Found(i) PROVE p = LanEndpoint(s, a.address)
      <4>1. PICK z \in srv : z.instance = i /\ \E b \in LanTarget(z) : p = LanEndpoint(z, b)
        BY <1>4
      <4>2. z = s
        BY <1>3, <2>s, <3>2, <4>1, LanRecordsOne
      <4> QED
        BY <3>5, <4>1, <4>2
    <3>8. Found(i) = {LanEndpoint(s, a.address)}
      BY <3>6, <3>7
    <3> HIDE DEF Found
    <3> QED
      BY <2>2, <3>8, FS_Singleton
  <2> QED
    BY <2>1, <2>2
<1> QED
  BY <1>5, <1>6

-----------------------------------------------------------------------------
(* Names *)

NameAt == [state : {"name", "end", "failed"}, cursor : Int, labels : Seq(Int), next : Int]

\* The loop after n turns, at a name that starts at offset in a packet of m
\* bytes: it has no more labels than turns, fewer once it has ended, and
\* where the name ends in the record is behind its first byte.
NameOK(at, offset, n, m) ==
    /\ at \in NameAt
    /\ at.state = "name" => /\ at.cursor \in Nat /\ Len(at.labels) <= n
                            /\ IF at.next = -1 THEN offset <= at.cursor ELSE at.next \in (offset + 1)..m
    /\ at.state = "end" => at.next \in (offset + 1)..m /\ Len(at.labels) < n

\* One turn more.
LEMMA DecodeStepOK ==
    ASSUME NEW m \in Nat, NEW packet \in Seq(NameCells), Len(packet) = m, NEW offset \in Nat,
           NEW n \in Nat, NEW at, NameOK(at, offset, n, m)
    PROVE  NameOK(decode_step(packet, at), offset, n + 1, m)
<1> DEFINE d == decode_step(packet, at)
<1>1. /\ at \in NameAt
      /\ Len(at.labels) \in Nat
  BY DEF NameOK, NameAt
<1>f. NameOK(Failed, offset, n + 1, m)
  BY DEF NameOK, NameAt, Failed
<1>2. CASE at.state # "name"
  <2>1. d = at
    BY <1>2 DEF decode_step
  <2> QED
    BY <1>1, <1>2, <2>1 DEF NameOK
<1>3. CASE at.state = "name" /\ at.cursor >= m
  BY <1>f, <1>3 DEF decode_step
<1>4. CASE at.state = "name" /\ ~(at.cursor >= m)
  <2>c. PICK c : c = packet[at.cursor + 1]
    OBVIOUS
  <2>1. at.cursor \in Nat /\ at.cursor + 1 \in 1..m
    BY <1>4 DEF NameOK
  <2>2. c \in NameCells
    BY <2>1, <2>c, ElementOfSeq
  <2>3. c.kind \in {"end", "pointer", "label"} /\ c.to \in Nat
    BY <2>2, NameBytesNat DEF NameCells
  <2>4. /\ Len(at.labels) <= n
        /\ IF at.next = -1 THEN offset <= at.cursor ELSE at.next \in (offset + 1)..m
    BY <1>4 DEF NameOK
  <2>e. PICK e1, e2 : /\ e1 = (IF at.next = -1 THEN at.cursor + 1 ELSE at.next)
                      /\ e2 = (IF at.next = -1 THEN at.cursor + 2 ELSE at.next)
    OBVIOUS
  <2>5. CASE c.kind = "end"
    <3>1. d = [at EXCEPT !.state = "end", !.next = e1]
      BY <1>4, <2>5, <2>c, <2>e DEF decode_step
    <3>2. e1 \in (offset + 1)..m
      BY <1>4, <2>1, <2>4, <2>e
    <3>3. /\ d \in NameAt
          /\ d.state = "end" /\ d.next = e1 /\ d.labels = at.labels
      <4>1. e1 \in Int
        BY <3>2
      <4> QED
        BY <1>1, <3>1, <4>1 DEF NameAt
    <3> QED
      BY <1>1, <2>4, <3>2, <3>3 DEF NameOK
  <2>6. CASE c.kind = "pointer"
    <3>1. CASE at.cursor + 1 >= m \/ c.to >= m
      <4>1. d = Failed
        BY <1>4, <2>6, <2>c, <3>1 DEF decode_step
      <4> QED
        BY <1>f, <4>1
    <3>2. CASE ~(at.cursor + 1 >= m \/ c.to >= m)
      <4>1. d = [at EXCEPT !.cursor = c.to, !.next = e2]
        BY <1>4, <2>6, <2>c, <2>e, <3>2 DEF decode_step
      <4>2. e2 \in (offset + 1)..m /\ e2 # -1
        BY <1>4, <2>1, <2>4, <2>e, <3>2
      <4>3. /\ d \in NameAt
            /\ d.state = "name" /\ d.next = e2 /\ d.labels = at.labels /\ d.cursor = c.to
        <5>1. e2 \in Int /\ c.to \in Int
          BY <2>3, <4>2
        <5> QED
          BY <1>1, <1>4, <4>1, <5>1 DEF NameAt
      <4> QED
        BY <1>1, <2>3, <2>4, <4>2, <4>3 DEF NameOK
    <3> QED
      BY <3>1, <3>2
  <2>7. CASE c.kind = "label"
    <3>1. CASE at.cursor + 2 > m
      <4>1. d = Failed
        BY <1>4, <2>7, <2>c, <3>1 DEF decode_step
      <4> QED
        BY <1>f, <4>1
    <3>2. CASE ~(at.cursor + 2 > m)
      <4>1. d = [at EXCEPT !.cursor = at.cursor + 2, !.labels = Append(at.labels, at.cursor + 1)]
        BY <1>4, <2>7, <2>c, <3>2 DEF decode_step
      <4>2. Append(at.labels, at.cursor + 1) \in Seq(Int) /\ Len(Append(at.labels, at.cursor + 1)) = Len(at.labels) + 1
        <5>1. at.labels \in Seq(Int) /\ at.cursor + 1 \in Int
          BY <1>1, <2>1 DEF NameAt
        <5> QED
          BY <5>1
      <4>3. /\ d \in NameAt
            /\ d.state = "name" /\ d.next = at.next /\ d.cursor = at.cursor + 2
            /\ Len(d.labels) = Len(at.labels) + 1
        <5>l. PICK labels \in Seq(Int) : labels = Append(at.labels, at.cursor + 1)
          BY <4>2
        <5>1. at.cursor + 2 \in Int
          BY <2>1
        <5>2. d = [at EXCEPT !.cursor = at.cursor + 2, !.labels = labels]
          BY <4>1, <5>l
        <5> QED
          BY <1>1, <1>4, <4>2, <5>1, <5>2, <5>l DEF NameAt
      <4> QED
        BY <1>1, <2>1, <2>4, <4>3 DEF NameOK
    <3> QED
      BY <3>1, <3>2
  <2> QED
    BY <2>3, <2>5, <2>6, <2>7
<1> QED
  BY <1>2, <1>3, <1>4

\* The loop, turn by turn.
DecodeSteps(g, packet, start, n) == [k \in 0..n |-> IF k = 0 THEN start ELSE decode_step(packet, g[k - 1])]

\* It has a state after every turn.
LEMMA DecodeFold == ASSUME NEW f, NEW acc, NEW n \in Nat PROVE \E g : g = DecodeSteps(g, f, acc, n)
<1> DEFINE Good(k, g) == g = [j \in 0..k |-> IF j = 0 THEN acc ELSE decode_step(f, g[j - 1])]
           S == {k \in 0..n : \E g : Good(k, g)}
<1>1. 0 \in S
  <2>1. Good(0, [j \in 0..0 |-> acc])
    OBVIOUS
  <2>2. 0 \in 0..n
    OBVIOUS
  <2> HIDE DEF Good
  <2> QED
    BY <2>1, <2>2
<1>2. ASSUME NEW k \in 1..n, k - 1 \in S PROVE k \in S
  <2>1. PICK g : Good(k - 1, g)
    BY <1>2
  <2> DEFINE h == [j \in 0..k |-> IF j = k THEN decode_step(f, g[k - 1]) ELSE g[j]]
  <2>2. \A j \in 0..(k - 1) : h[j] = g[j]
    OBVIOUS
  <2>3. ASSUME NEW j \in 0..k
        PROVE h[j] = IF j = 0 THEN acc ELSE decode_step(f, h[j - 1])
    <3>1. CASE j = k
      <4>1. k # 0 /\ k - 1 \in 0..(k - 1)
        OBVIOUS
      <4>2. h[k - 1] = g[k - 1]
        BY <2>2, <4>1
      <4>3. h[j] = decode_step(f, g[k - 1])
        BY <3>1
      <4> HIDE DEF h
      <4> QED
        BY <3>1, <4>1, <4>2, <4>3
    <3>2. CASE j = 0
      <4>1. 0 \in 0..(k - 1)
        OBVIOUS
      <4>2. g[0] = acc
        BY <2>1, <4>1
      <4>3. h[0] = g[0]
        BY <2>2, <4>1
      <4> HIDE DEF h
      <4> QED
        BY <3>2, <4>2, <4>3
    <3>3. CASE j # k /\ j # 0
      <4>1. j \in 0..(k - 1) /\ j - 1 \in 0..(k - 1)
        BY <3>3
      <4>2. g[j] = decode_step(f, g[j - 1])
        BY <2>1, <3>3, <4>1
      <4>3. h[j] = g[j] /\ h[j - 1] = g[j - 1]
        BY <2>2, <4>1
      <4> HIDE DEF h
      <4> QED
        BY <3>3, <4>2, <4>3
    <3> QED
      BY <3>1, <3>2, <3>3
  <2>4. Good(k, h)
    <3>1. h = [j \in 0..k |-> h[j]]
      OBVIOUS
    <3> HIDE DEF h
    <3> QED
      BY <2>3, <3>1
  <2>5. k \in 0..n
    OBVIOUS
  <2> HIDE DEF Good, h
  <2> QED
    BY <2>4, <2>5
<1>3. n \in S
  <2> HIDE DEF S
  <2> QED
    BY <1>1, <1>2, UpTo
<1> QED
  BY <1>3 DEF DecodeSteps

\* A name that decodes ends behind its first byte and inside the packet.
LEMMA NameEnds ==
    ASSUME NEW packet \in Seq(NameCells), NEW offset \in Nat
    PROVE  NameOK(decode_dns_name(packet, offset), offset, Len(packet), Len(packet))
<1> DEFINE n == Len(packet)
           start == [state |-> "name", cursor |-> offset, labels |-> <<>>, next |-> -1]
           F(g) == DecodeSteps(g, packet, start, n)
           turn == CHOOSE g : g = F(g)
           S == {k \in 0..n : NameOK(turn[k], offset, k, n)}
<1>1. n \in Nat
  OBVIOUS
<1>2. decode_dns_name(packet, offset) = turn[n]
  BY DEF decode_dns_name, DecodeSteps
<1>3. turn = F(turn)
  <2>1. \E g : g = F(g)
    BY <1>1, DecodeFold
  <2> QED
    BY <2>1
<1> HIDE DEF turn
<1>4. turn[0] = start /\ \A k \in 1..n : turn[k] = decode_step(packet, turn[k - 1])
  BY <1>1, <1>3 DEF DecodeSteps
<1>5. 0 \in S
  <2>1. start \in NameAt
    BY DEF NameAt
  <2>2. start.state = "name" /\ start.cursor = offset /\ Len(start.labels) = 0 /\ start.next = -1
    OBVIOUS
  <2> HIDE DEF start
  <2>3. NameOK(start, offset, 0, n)
    BY <2>1, <2>2 DEF NameOK
  <2> QED
    BY <1>1, <1>4, <2>3
<1>6. ASSUME NEW k \in 1..n, k - 1 \in S PROVE k \in S
  <2>1. NameOK(turn[k - 1], offset, k - 1, n) /\ k - 1 \in Nat /\ (k - 1) + 1 = k /\ k \in 0..n
    BY <1>1, <1>6
  <2>2. NameOK(decode_step(packet, turn[k - 1]), offset, (k - 1) + 1, n)
    BY <1>1, <2>1, DecodeStepOK
  <2> QED
    BY <1>4, <2>1, <2>2
<1>7. n \in S
  <2>1. n \in 0..n
    BY <1>1
  <2> HIDE DEF S, n
  <2>2. 0..n \subseteq S
    BY <1>1, <1>5, <1>6, UpTo
  <2> QED
    BY <2>1, <2>2
<1> QED
  BY <1>2, <1>7

\* The same for the packet at hand.
LEMMA LanInvNames == LanInv => LanNamesEnd
<1> SUFFICES ASSUME LanInv, NEW offset \in 0..NameBytes - 1
             PROVE  decode_dns_name(lanPacket, offset).state = "end" =>
                       /\ decode_dns_name(lanPacket, offset).next \in offset + 1..NameBytes
                       /\ Len(decode_dns_name(lanPacket, offset).labels) < NameBytes
  BY DEF LanNamesEnd
<1>p. PICK packet : packet = lanPacket
  OBVIOUS
<1>1. packet \in Seq(NameCells) /\ Len(packet) = NameBytes
  <2>1. packet \in [1..NameBytes -> NameCells]
    BY <1>p DEF LanInv
  <2> QED
    BY <2>1, NameBytesNat
<1>2. offset \in Nat
  BY NameBytesNat
<1>3. NameOK(decode_dns_name(packet, offset), offset, NameBytes, NameBytes)
  BY <1>1, <1>2, NameEnds
<1> QED
  BY <1>3, <1>p DEF NameOK

\* discover_lan_peers, decode_dns_name: for any peers, packets in any order
\* and damage, the answer is exact, and names end, whatever their pointers.
THEOREM LanSoundHolds == LanSpec => []LanSound
<1>1. LanInit => LanInv
  BY LanInitInv
<1>2. LanInv /\ [LanNext]_lanVars => LanInv'
  BY LanNextInv
<1>3. LanInv => LanSound
  BY LanInvExact, LanInvNames DEF LanSound
<1> QED
  BY <1>1, <1>2, <1>3, PTL DEF LanSpec

-----------------------------------------------------------------------------
(* DaemonSnapshots: the payload codec *)

Runs == Seq(Nat \X Nat)

\* What one run stands for.
Copies(run) == [n \in 1..run[1] |-> run[2]]

\* The runs stand for x: g is what the first k of them stand for.
Expands(runs, x) ==
    \E g : /\ g[0] = <<>>
           /\ \A k \in 1..Len(runs) : g[k] = g[k - 1] \o Copies(runs[k])
           /\ \A k \in 0..Len(runs) : g[k] \in Seq(Nat)
           /\ x = g[Len(runs)]

\* A run is a sequence of its one byte.
LEMMA CopiesSeq ==
    ASSUME NEW run \in Nat \X Nat
    PROVE  /\ Copies(run) \in Seq(Nat) /\ Len(Copies(run)) = run[1]
           /\ \A i \in 1..run[1] : Copies(run)[i] = run[2]
<1>1. run[1] \in Nat /\ run[2] \in Nat
  OBVIOUS
<1>2. Copies(run) \in Seq(Nat)
  BY <1>1, IsASeq DEF Copies
<1> QED
  BY <1>1, <1>2 DEF Copies

\* One byte more makes the last run longer or a new one.
LEMMA AddExpands ==
    ASSUME NEW runs \in Runs, NEW x, Expands(runs, x), NEW b \in Nat
    PROVE  add_to_runs(runs, b) \in Runs /\ Expands(add_to_runs(runs, b), Append(x, b))
<1> DEFINE L == Len(runs)
           last == runs[L]
           grow == runs # <<>> /\ last[2] = b /\ last[1] < MaxRun
<1>1. L \in Nat
  BY DEF Runs
<1>2. PICK g : /\ g[0] = <<>>
               /\ \A k \in 1..L : g[k] = g[k - 1] \o Copies(runs[k])
               /\ \A k \in 0..L : g[k] \in Seq(Nat)
               /\ x = g[L]
  BY DEF Expands
<1>3. x \in Seq(Nat)
  BY <1>1, <1>2
<1>4. Append(x, b) \in Seq(Nat)
  BY <1>3
<1>5. CASE grow
  <2> DEFINE new == [runs EXCEPT ![L] = <<last[1] + 1, b>>]
             h == [k \in 0..L |-> IF k = L THEN Append(x, b) ELSE g[k]]
  <2>1. L \in 1..L
    BY <1>1, <1>5, EmptySeq DEF Runs
  <2>2. last \in Nat \X Nat
    BY <2>1, ElementOfSeq DEF Runs
  <2>3. <<last[1] + 1, b>> \in Nat \X Nat
    BY <2>2
  <2>4. /\ new \in Runs /\ Len(new) = L
        /\ \A j \in 1..L : new[j] = IF j = L THEN <<last[1] + 1, b>> ELSE runs[j]
    BY <2>1, <2>3, ExceptSeq DEF Runs
  <2>5. add_to_runs(runs, b) = new
    BY <1>5 DEF add_to_runs
  <2>6. g[L - 1] \in Seq(Nat) /\ x = g[L - 1] \o Copies(last) /\ L - 1 \in 0..L /\ L # 0
    <3>1. L - 1 \in 0..L /\ L # 0
      BY <1>1, <2>1
    <3>2. g[L] = g[L - 1] \o Copies(runs[L])
      BY <1>2, <2>1
    <3> QED
      BY <1>2, <3>1, <3>2
  <2>7. Append(x, b) = g[L - 1] \o Copies(<<last[1] + 1, b>>)
    <3> DEFINE u == g[L - 1]
               c == Copies(last)
               d == Copies(<<last[1] + 1, b>>)
               n == last[1]
    <3>1. n \in Nat /\ last[2] = b
      BY <1>5, <2>2
    <3>2. c \in Seq(Nat) /\ Len(c) = n /\ \A i \in 1..n : c[i] = b
      BY <2>2, <3>1, CopiesSeq
    <3>3. d \in Seq(Nat) /\ Len(d) = n + 1 /\ \A i \in 1..(n + 1) : d[i] = b
      BY <2>3, <3>1, CopiesSeq
    <3>4. u \in Seq(Nat) /\ Len(u) \in Nat
      BY <2>6
    <3>5. x = u \o c
      BY <2>6
    <3> HIDE DEF u, c, d, n
    <3>6. /\ Len(x) = Len(u) + n
          /\ \A i \in 1..(Len(u) + n) : x[i] = IF i <= Len(u) THEN u[i] ELSE c[i - Len(u)]
      BY <3>2, <3>4, <3>5, ConcatProperties
    <3>7. /\ u \o d \in Seq(Nat) /\ Len(u \o d) = Len(u) + n + 1
          /\ \A i \in 1..(Len(u) + n + 1) : (u \o d)[i] = IF i <= Len(u) THEN u[i] ELSE d[i - Len(u)]
      <4>1. Len(u) + Len(d) = Len(u) + n + 1
        BY <3>1, <3>3, <3>4
      <4> QED
        BY <3>3, <3>4, <4>1, ConcatProperties
    <3>8. /\ Len(Append(x, b)) = Len(x) + 1
          /\ \A i \in 1..(Len(x) + 1) : Append(x, b)[i] = IF i = Len(x) + 1 THEN b ELSE x[i]
      BY <1>3
    <3>9. ASSUME NEW i \in 1..(Len(u) + n + 1) PROVE Append(x, b)[i] = (u \o d)[i]
      <4>1. CASE i <= Len(u)
        BY <3>1, <3>4, <3>6, <3>7, <3>8, <4>1
      <4>2. CASE i > Len(u)
        <5>1. i - Len(u) \in 1..(n + 1)
          BY <3>1, <3>4, <4>2
        <5>2. (u \o d)[i] = b
          BY <3>3, <3>4, <3>7, <4>2, <5>1
        <5>3. CASE i = Len(u) + n + 1
          BY <3>6, <3>8, <5>2, <5>3
        <5>4. CASE i # Len(u) + n + 1
          <6>1. i - Len(u) \in 1..n /\ i \in 1..(Len(u) + n)
            BY <3>1, <3>4, <4>2, <5>4
          <6>2. x[i] = b
            BY <3>2, <3>4, <3>6, <4>2, <6>1
          <6> QED
            BY <3>6, <3>8, <5>2, <5>4, <6>2
        <5> QED
          BY <5>3, <5>4
      <4>3. i <= Len(u) \/ i > Len(u)
        BY <3>1, <3>4
      <4> QED
        BY <4>1, <4>2, <4>3
    <3>10. Append(x, b) = u \o d
      <4>1. Len(Append(x, b)) = Len(u \o d) /\ Len(Append(x, b)) = Len(u) + n + 1
        BY <3>1, <3>4, <3>6, <3>7, <3>8
      <4> QED
        BY <1>4, <3>7, <3>9, <4>1, SeqEqual
    <3> QED
      BY <3>10 DEF u, d, n
  <2>8. Expands(new, Append(x, b))
    <3>1. h[0] = <<>>
      BY <1>1, <1>2, <2>6
    <3>2. ASSUME NEW k \in 1..L PROVE h[k] = h[k - 1] \o Copies(new[k])
      <4>1. k \in 0..L /\ k - 1 \in 0..L /\ k - 1 # L
        BY <1>1
      <4>2. h[k - 1] = g[k - 1]
        BY <4>1
      <4>3. CASE k = L
        <5>1. h[k] = Append(x, b)
          BY <4>1, <4>3
        <5>2. new[k] = <<last[1] + 1, b>>
          BY <2>4, <4>3
        <5> HIDE DEF h, new
        <5> QED
          BY <2>7, <4>2, <4>3, <5>1, <5>2
      <4>4. CASE k # L
        <5>1. h[k] = g[k]
          BY <4>1, <4>4
        <5>2. new[k] = runs[k]
          BY <2>4, <4>4
        <5> HIDE DEF h, new
        <5> QED
          BY <1>2, <4>2, <5>1, <5>2
      <4> QED
        BY <4>3, <4>4
    <3>3. \A k \in 0..L : h[k] \in Seq(Nat)
      BY <1>2, <1>4
    <3>4. h[L] = Append(x, b)
      BY <1>1
    <3> HIDE DEF h, new
    <3> QED
      BY <2>4, <3>1, <3>2, <3>3, <3>4 DEF Expands
  <2> QED
    BY <2>4, <2>5, <2>8
<1>6. CASE ~grow
  <2> DEFINE new == Append(runs, <<1, b>>)
             h == [k \in 0..(L + 1) |-> IF k = L + 1 THEN Append(x, b) ELSE g[k]]
  <2>1. <<1, b>> \in Nat \X Nat
    OBVIOUS
  <2>2. /\ new \in Runs /\ Len(new) = L + 1
        /\ \A j \in 1..(L + 1) : new[j] = IF j = L + 1 THEN <<1, b>> ELSE runs[j]
    BY <2>1 DEF Runs
  <2>3. add_to_runs(runs, b) = new
    BY <1>6 DEF add_to_runs
  <2>4. Append(x, b) = x \o Copies(<<1, b>>)
    <3> DEFINE d == Copies(<<1, b>>)
    <3>1. d \in Seq(Nat) /\ Len(d) = 1 /\ d[1] = b
      <4> DEFINE r == <<1, b>>
      <4>1. r \in Nat \X Nat /\ r[1] = 1 /\ r[2] = b
        OBVIOUS
      <4> HIDE DEF r
      <4>2. Copies(r) \in Seq(Nat) /\ Len(Copies(r)) = r[1] /\ \A i \in 1..r[1] : Copies(r)[i] = r[2]
        BY <4>1, CopiesSeq
      <4>3. Copies(r) \in Seq(Nat) /\ Len(Copies(r)) = 1 /\ Copies(r)[1] = b
        BY <4>1, <4>2
      <4> QED
        BY <4>3 DEF r
    <3> HIDE DEF d
    <3>2. /\ x \o d \in Seq(Nat) /\ Len(x \o d) = Len(x) + 1
          /\ \A i \in 1..(Len(x) + 1) : (x \o d)[i] = IF i <= Len(x) THEN x[i] ELSE d[i - Len(x)]
      <4>1. Len(x) + Len(d) = Len(x) + 1
        BY <1>3, <3>1
      <4> QED
        BY <1>3, <3>1, <4>1, ConcatProperties
    <3>3. /\ Len(Append(x, b)) = Len(x) + 1 /\ Len(x) \in Nat
          /\ \A i \in 1..(Len(x) + 1) : Append(x, b)[i] = IF i = Len(x) + 1 THEN b ELSE x[i]
      BY <1>3
    <3>4. ASSUME NEW i \in 1..(Len(x) + 1) PROVE Append(x, b)[i] = (x \o d)[i]
      <4>1. CASE i = Len(x) + 1
        BY <3>1, <3>2, <3>3, <4>1
      <4>2. CASE i # Len(x) + 1
        BY <3>2, <3>3, <4>2
      <4> QED
        BY <4>1, <4>2
    <3>5. Append(x, b) = x \o d
      BY <1>4, <3>2, <3>3, <3>4, SeqEqual
    <3> QED
      BY <3>5 DEF d
  <2>5. Expands(new, Append(x, b))
    <3>1. h[0] = <<>>
      BY <1>1, <1>2
    <3>2. ASSUME NEW k \in 1..(L + 1) PROVE h[k] = h[k - 1] \o Copies(new[k])
      <4>1. k \in 0..(L + 1) /\ k - 1 \in 0..(L + 1) /\ k - 1 # L + 1
        BY <1>1
      <4>2. h[k - 1] = g[k - 1]
        BY <4>1
      <4>3. CASE k = L + 1
        <5>1. h[k] = Append(x, b)
          BY <4>1, <4>3
        <5>2. new[k] = <<1, b>> /\ k - 1 = L
          BY <1>1, <2>2, <4>3
        <5> HIDE DEF h, new
        <5> QED
          BY <1>2, <2>4, <4>2, <4>3, <5>1, <5>2
      <4>4. CASE k # L + 1
        <5>1. h[k] = g[k]
          BY <4>1, <4>4
        <5>2. new[k] = runs[k] /\ k \in 1..L
          BY <1>1, <2>2, <4>4
        <5> HIDE DEF h, new
        <5> QED
          BY <1>2, <4>2, <5>1, <5>2
      <4> QED
        BY <4>3, <4>4
    <3>3. \A k \in 0..(L + 1) : h[k] \in Seq(Nat)
      BY <1>1, <1>2, <1>4
    <3>4. h[L + 1] = Append(x, b)
      BY <1>1
    <3> HIDE DEF h, new
    <3> QED
      BY <2>2, <3>1, <3>2, <3>3, <3>4 DEF Expands
  <2> QED
    BY <2>2, <2>3, <2>5
<1> QED
  BY <1>5, <1>6

\* The fold of rle_compress.
CompressSteps(g, acc, f, n) == [k \in 0..n |-> IF k = 0 THEN acc ELSE add_to_runs(g[k - 1], f[k])]

\* It has a value for every input.
LEMMA CompressFold == ASSUME NEW acc, NEW f, NEW n \in Nat PROVE \E g : g = CompressSteps(g, acc, f, n)
<1> DEFINE Good(k, g) == g = [j \in 0..k |-> IF j = 0 THEN acc ELSE add_to_runs(g[j - 1], f[j])]
           S == {k \in 0..n : \E g : Good(k, g)}
<1>1. 0 \in S
  <2>1. Good(0, [j \in 0..0 |-> acc])
    OBVIOUS
  <2>2. 0 \in 0..n
    OBVIOUS
  <2> HIDE DEF Good
  <2> QED
    BY <2>1, <2>2
<1>2. ASSUME NEW k \in 1..n, k - 1 \in S PROVE k \in S
  <2>1. PICK g : Good(k - 1, g)
    BY <1>2
  <2> DEFINE h == [j \in 0..k |-> IF j = k THEN add_to_runs(g[k - 1], f[k]) ELSE g[j]]
  <2>2. \A j \in 0..(k - 1) : h[j] = g[j]
    OBVIOUS
  <2>3. ASSUME NEW j \in 0..k
        PROVE h[j] = IF j = 0 THEN acc ELSE add_to_runs(h[j - 1], f[j])
    <3>1. CASE j = k
      <4>1. k # 0 /\ k - 1 \in 0..(k - 1)
        OBVIOUS
      <4>2. h[k - 1] = g[k - 1]
        BY <2>2, <4>1
      <4>3. h[j] = add_to_runs(g[k - 1], f[k])
        BY <3>1
      <4> HIDE DEF h
      <4> QED
        BY <3>1, <4>1, <4>2, <4>3
    <3>2. CASE j = 0
      <4>1. 0 \in 0..(k - 1)
        OBVIOUS
      <4>2. g[0] = acc
        BY <2>1, <4>1
      <4>3. h[0] = g[0]
        BY <2>2, <4>1
      <4> HIDE DEF h
      <4> QED
        BY <3>2, <4>2, <4>3
    <3>3. CASE j # k /\ j # 0
      <4>1. j \in 0..(k - 1) /\ j - 1 \in 0..(k - 1)
        BY <3>3
      <4>2. g[j] = add_to_runs(g[j - 1], f[j])
        BY <2>1, <3>3, <4>1
      <4>3. h[j] = g[j] /\ h[j - 1] = g[j - 1]
        BY <2>2, <4>1
      <4> HIDE DEF h
      <4> QED
        BY <3>3, <4>2, <4>3
    <3> QED
      BY <3>1, <3>2, <3>3
  <2>4. Good(k, h)
    <3>1. h = [j \in 0..k |-> h[j]]
      OBVIOUS
    <3> HIDE DEF h
    <3> QED
      BY <2>3, <3>1
  <2>5. k \in 0..n
    OBVIOUS
  <2> HIDE DEF Good, h
  <2> QED
    BY <2>4, <2>5
<1>3. n \in S
  <2> HIDE DEF S
  <2> QED
    BY <1>1, <1>2, UpTo
<1> QED
  BY <1>3 DEF CompressSteps

\* The runs of an input stand for it.
LEMMA CompressRuns ==
    ASSUME NEW input \in Seq(Nat)
    PROVE  \E runs \in Runs :
              /\ Expands(runs, input)
              /\ rle_compress(input) = [j \in 1..2 * Len(runs) |-> runs[(j + 1) \div 2][2 - (j % 2)]]
<1> DEFINE n == Len(input)
           F(g) == CompressSteps(g, <<>>, input, n)
           upto == CHOOSE g : g = F(g)
           S == {k \in 0..n : upto[k] \in Runs /\ Expands(upto[k], SubSeq(input, 1, k))}
<1>1. n \in Nat
  OBVIOUS
<1>2. rle_compress(input) = [j \in 1..2 * Len(upto[n]) |-> upto[n][(j + 1) \div 2][2 - (j % 2)]]
  BY DEF rle_compress, CompressSteps
<1>3. upto = F(upto)
  <2>1. \E g : g = F(g)
    BY <1>1, CompressFold
  <2> QED
    BY <2>1
<1> HIDE DEF upto
<1>4. upto[0] = <<>> /\ \A k \in 1..n : upto[k] = add_to_runs(upto[k - 1], input[k])
  <2>1. \A k \in 0..n : upto[k] = IF k = 0 THEN <<>> ELSE add_to_runs(upto[k - 1], input[k])
    BY <1>3 DEF CompressSteps
  <2>2. 0 \in 0..n /\ \A k \in 1..n : k \in 0..n /\ k # 0
    BY <1>1
  <2> QED
    BY <2>1, <2>2
<1>5. 0 \in S
  <2>1. SubSeq(input, 1, 0) = <<>>
    BY SubSeqEmpty
  <2>2. <<>> \in Runs
    BY DEF Runs
  <2>3. Expands(<<>>, <<>>)
    <3> DEFINE g == [k \in 0..0 |-> <<>>]
    <3>1. g[0] = <<>> /\ Len(<<>>) = 0 /\ \A k \in 0..0 : g[k] \in Seq(Nat)
      OBVIOUS
    <3>2. \A k \in 1..0 : g[k] = g[k - 1] \o Copies(<<>>[k])
      OBVIOUS
    <3> HIDE DEF g
    <3> QED
      BY <3>1, <3>2 DEF Expands
  <2>4. 0 \in 0..n
    BY <1>1
  <2> QED
    BY <1>4, <2>1, <2>2, <2>3, <2>4
<1>6. ASSUME NEW k \in 1..n, k - 1 \in S PROVE k \in S
  <2>1. upto[k - 1] \in Runs /\ Expands(upto[k - 1], SubSeq(input, 1, k - 1)) /\ k \in 0..n
    BY <1>6
  <2>2. input[k] \in Nat
    BY ElementOfSeq
  <2>3. Append(SubSeq(input, 1, k - 1), input[k]) = SubSeq(input, 1, k)
    BY <2>2
  <2>4. /\ add_to_runs(upto[k - 1], input[k]) \in Runs
        /\ Expands(add_to_runs(upto[k - 1], input[k]), SubSeq(input, 1, k))
    BY <2>1, <2>2, <2>3, AddExpands
  <2> QED
    BY <1>4, <2>1, <2>4
<1>7. upto[n] \in Runs /\ Expands(upto[n], input)
  <2>1. n \in 0..n
    BY <1>1
  <2>2. 0..n \subseteq S
    <3> HIDE DEF S
    <3> QED
      BY <1>1, <1>5, <1>6, UpTo
  <2>3. upto[n] \in Runs /\ Expands(upto[n], SubSeq(input, 1, n))
    BY <2>1, <2>2
  <2> QED
    BY <2>3, SubSeqFull
<1> QED
  BY <1>2, <1>7

\* The fold of rle_decompress.
DecompressSteps(g, input, m) ==
    [k \in 0..m |-> IF k = 0 THEN <<>> ELSE g[k - 1] \o [n \in 1..input[2 * k - 1] |-> input[2 * k]]]

\* What was compressed is decompressed again.
LEMMA RleRoundTrip ==
    ASSUME NEW input \in Seq(Nat)
    PROVE  /\ Len(rle_compress(input)) % 2 = 0
           /\ rle_decompress(rle_compress(input)) = input
<1>1. PICK runs \in Runs :
              /\ Expands(runs, input)
              /\ rle_compress(input) = [j \in 1..2 * Len(runs) |-> runs[(j + 1) \div 2][2 - (j % 2)]]
  BY CompressRuns
<1>2. PICK data : data = rle_compress(input)
  OBVIOUS
<1> DEFINE L == Len(runs)
<1>3. L \in Nat
  BY DEF Runs
<1>4. Len(data) = 2 * L
  BY <1>1, <1>2, <1>3
<1>5. Len(data) % 2 = 0 /\ Len(data) \div 2 = L
  BY <1>3, <1>4
<1>6. ASSUME NEW k \in 1..L PROVE data[2 * k - 1] = runs[k][1] /\ data[2 * k] = runs[k][2]
  <2>1. 2 * k - 1 \in 1..2 * L /\ 2 * k \in 1..2 * L
    BY <1>3
  <2>2. (2 * k - 1 + 1) \div 2 = k /\ (2 * k + 1) \div 2 = k
    BY <1>3
  <2>3. 2 - ((2 * k - 1) % 2) = 1 /\ 2 - ((2 * k) % 2) = 2
    BY <1>3
  <2> QED
    BY <1>1, <1>2, <2>1, <2>2, <2>3
<1>7. PICK g : /\ g[0] = <<>>
               /\ \A k \in 1..L : g[k] = g[k - 1] \o Copies(runs[k])
               /\ \A k \in 0..L : g[k] \in Seq(Nat)
               /\ input = g[L]
  BY <1>1 DEF Expands
<1>8. \A k \in 1..L : [n \in 1..data[2 * k - 1] |-> data[2 * k]] = Copies(runs[k])
  BY <1>6 DEF Copies
<1> DEFINE F(o) == DecompressSteps(o, data, L)
           out == CHOOSE o : o = F(o)
           S == {k \in 0..L : out[k] = g[k]}
<1>9. rle_decompress(data) = out[L]
  BY <1>5 DEF rle_decompress, DecompressSteps
<1>10. out = F(out)
  <2> DEFINE h == [k \in 0..L |-> g[k]]
  <2>1. ASSUME NEW k \in 0..L
        PROVE  h[k] = IF k = 0 THEN <<>> ELSE h[k - 1] \o [n \in 1..data[2 * k - 1] |-> data[2 * k]]
    <3>1. CASE k = 0
      BY <1>7, <3>1
    <3>2. CASE k # 0
      <4>1. k \in 1..L /\ k - 1 \in 0..L
        BY <1>3, <3>2
      <4>2. h[k] = g[k] /\ h[k - 1] = g[k - 1]
        BY <4>1
      <4> HIDE DEF h
      <4> QED
        BY <1>7, <1>8, <3>2, <4>1, <4>2
    <3> QED
      BY <3>1, <3>2
  <2>2. h = F(h)
    <3>1. h = [k \in 0..L |-> h[k]]
      OBVIOUS
    <3> HIDE DEF h
    <3> QED
      BY <2>1, <3>1 DEF DecompressSteps
  <2> HIDE DEF h
  <2>3. \E o : o = F(o)
    BY <2>2
  <2> QED
    BY <2>3
<1> HIDE DEF out
<1>11. out[0] = <<>> /\ \A k \in 1..L : out[k] = out[k - 1] \o Copies(runs[k])
  <2>1. \A k \in 0..L : out[k] = IF k = 0 THEN <<>> ELSE out[k - 1] \o [n \in 1..data[2 * k - 1] |-> data[2 * k]]
    BY <1>10 DEF DecompressSteps
  <2>2. 0 \in 0..L /\ \A k \in 1..L : k \in 0..L /\ k # 0
    BY <1>3
  <2> QED
    BY <1>8, <2>1, <2>2
<1>12. 0 \in S
  BY <1>3, <1>7, <1>11
<1>13. ASSUME NEW k \in 1..L, k - 1 \in S PROVE k \in S
  <2>1. out[k - 1] = g[k - 1] /\ k \in 0..L
    BY <1>3, <1>13
  <2> QED
    BY <1>7, <1>11, <2>1
<1>14. L \in S
  <2>1. L \in 0..L
    BY <1>3
  <2> HIDE DEF S
  <2>2. 0..L \subseteq S
    BY <1>3, <1>12, <1>13, UpTo
  <2> QED
    BY <2>1, <2>2
<1> QED
  BY <1>2, <1>5, <1>7, <1>9, <1>14

\* save_snapshot and load_snapshot: the payload comes back, whichever codec
\* was taken.
LEMMA SnapshotLoads ==
    ASSUME NEW payload \in Seq(Nat), NEW seq
    PROVE  load_snapshot(SnapshotOf(seq, payload)) = payload /\ SnapshotOf(seq, payload).seq = seq
<1> DEFINE rle == rle_compress(payload)
           e == encode_payload(payload)
<1>1. Len(rle) % 2 = 0 /\ rle_decompress(rle) = payload
  BY RleRoundTrip
<1> HIDE DEF rle
<1>2. e = [codec |-> "rle", data |-> rle] \/ e = [codec |-> "raw", data |-> payload]
  BY DEF encode_payload, rle
<1> HIDE DEF e
<1>3. SnapshotOf(seq, payload) = [there |-> TRUE, whole |-> TRUE, seq |-> seq, codec |-> e.codec, data |-> e.data,
                                  len |-> Len(payload)]
  BY DEF SnapshotOf, e
<1>4. load_snapshot(SnapshotOf(seq, payload)) = decode_payload(e.codec, e.data, Len(payload))
  BY <1>3 DEF load_snapshot
<1>5. CASE e = [codec |-> "rle", data |-> rle]
  <2>1. e.codec = "rle" /\ e.data = rle
    BY <1>5
  <2> QED
    BY <1>1, <1>3, <1>4, <2>1 DEF decode_payload
<1>6. CASE e = [codec |-> "raw", data |-> payload]
  <2>1. e.codec = "raw" /\ e.data = payload
    BY <1>6
  <2> QED
    BY <1>3, <1>4, <2>1 DEF decode_payload
<1> QED
  BY <1>2, <1>5, <1>6

-----------------------------------------------------------------------------
(* DaemonSnapshots: recovery and replay *)

Frames == [byte : UpdateBytes, at : Nat]

\* The log is in the order of its times.
InOrder(wal) == \A i, j \in 1..Len(wal) : i <= j => wal[i].at <= wal[j].at

\* A point of the history: the first p.seq frames, at a time between theirs
\* and the others'.
PointOK(p, wal, now) ==
    /\ p.seq \in 0..Len(wal) /\ p.at \in Nat /\ p.at <= now
    /\ p.payload = SubSeq(Written(wal), 1, p.seq)
    /\ \A i \in 1..Len(wal) : IF i <= p.seq THEN wal[i].at <= p.at ELSE p.at <= wal[i].at

\* What a log wrote.
LEMMA WrittenSeq ==
    ASSUME NEW wal \in Seq(Frames)
    PROVE  /\ Written(wal) \in Seq(Nat) /\ Len(Written(wal)) = Len(wal)
           /\ \A i \in 1..Len(wal) : Written(wal)[i] = wal[i].byte
<1>1. Len(wal) \in Nat /\ DOMAIN wal = 1..Len(wal)
  BY LenProperties
<1>2. \A i \in 1..Len(wal) : wal[i].byte \in Nat
  <2>1. \A i \in 1..Len(wal) : wal[i] \in Frames
    BY ElementOfSeq
  <2> QED
    BY <2>1, SnapBytesNat DEF Frames
<1>3. Written(wal) = [i \in 1..Len(wal) |-> wal[i].byte]
  BY <1>1 DEF Written
<1>4. Written(wal) \in Seq(Nat)
  BY <1>1, <1>2, <1>3, IsASeq
<1> QED
  BY <1>1, <1>3, <1>4

\* One frame more.
LEMMA WrittenAppend ==
    ASSUME NEW wal \in Seq(Frames), NEW f \in Frames
    PROVE  Written(Append(wal, f)) = Append(Written(wal), f.byte)
<1> DEFINE new == Append(wal, f)
           x == Written(new)
           y == Append(Written(wal), f.byte)
<1>1. /\ new \in Seq(Frames) /\ Len(new) = Len(wal) + 1 /\ Len(wal) \in Nat
      /\ \A i \in 1..(Len(wal) + 1) : new[i] = IF i = Len(wal) + 1 THEN f ELSE wal[i]
  OBVIOUS
<1>2. f.byte \in Nat
  BY SnapBytesNat DEF Frames
<1>3. /\ Written(wal) \in Seq(Nat) /\ Len(Written(wal)) = Len(wal)
      /\ \A i \in 1..Len(wal) : Written(wal)[i] = wal[i].byte
  BY WrittenSeq
<1>4. /\ y \in Seq(Nat) /\ Len(y) = Len(wal) + 1
      /\ \A i \in 1..(Len(wal) + 1) : y[i] = IF i = Len(wal) + 1 THEN f.byte ELSE Written(wal)[i]
  BY <1>2, <1>3
<1> HIDE DEF new
<1>5. /\ x \in Seq(Nat) /\ Len(x) = Len(wal) + 1
      /\ \A i \in 1..(Len(wal) + 1) : x[i] = new[i].byte
  BY <1>1, WrittenSeq
<1> HIDE DEF x, y
<1>6. ASSUME NEW i \in 1..(Len(wal) + 1) PROVE x[i] = y[i]
  <2>1. CASE i = Len(wal) + 1
    BY <1>1, <1>4, <1>5, <2>1
  <2>2. CASE i # Len(wal) + 1
    <3>1. i \in 1..Len(wal)
      BY <1>1, <2>2
    <3> QED
      BY <1>1, <1>3, <1>4, <1>5, <2>2, <3>1
  <2> QED
    BY <2>1, <2>2
<1>7. x = y
  BY <1>4, <1>5, <1>6, SeqEqual
<1> QED
  BY <1>7 DEF x, y, new

\* The beginning of what a log wrote stays when a frame follows it.
LEMMA WrittenPrefix ==
    ASSUME NEW wal \in Seq(Frames), NEW f \in Frames, NEW n \in 0..Len(wal)
    PROVE  SubSeq(Written(Append(wal, f)), 1, n) = SubSeq(Written(wal), 1, n)
<1> DEFINE w == Written(wal)
           b == f.byte
<1>1. w \in Seq(Nat) /\ Len(w) = Len(wal) /\ b \in Nat
  BY WrittenSeq, SnapBytesNat DEF Frames
<1>2. Written(Append(wal, f)) = Append(w, b)
  BY WrittenAppend
<1> HIDE DEF w, b
<1> DEFINE y == Append(w, b)
<1>3. y \in Seq(Nat) /\ Len(y) = Len(w) + 1 /\ \A i \in 1..Len(w) : y[i] = w[i]
  BY <1>1
<1> HIDE DEF y
<1>4. \A i \in 1..n : i \in 1..Len(w) /\ w[i] \in Nat /\ y[i] = w[i]
  BY <1>1, <1>3, ElementOfSeq
<1>5. n \in Int /\ n - 1 + 1 = n /\ (1 <= n \/ n = 0)
  BY <1>1
<1>6. SubSeq(w, 1, n) \in Seq(Nat) /\ Len(SubSeq(w, 1, n)) = n /\ \A i \in 1..n : SubSeq(w, 1, n)[i] = w[i]
  BY <1>1, <1>4, <1>5, SubSeqProperties
<1>7. SubSeq(y, 1, n) \in Seq(Nat) /\ Len(SubSeq(y, 1, n)) = n /\ \A i \in 1..n : SubSeq(y, 1, n)[i] = y[i]
  BY <1>3, <1>4, <1>5, SubSeqProperties
<1>8. \A i \in 1..n : SubSeq(y, 1, n)[i] = SubSeq(w, 1, n)[i]
  BY <1>4, <1>6, <1>7
<1>9. SubSeq(y, 1, n) = SubSeq(w, 1, n)
  BY <1>6, <1>7, <1>8, SeqEqual
<1> QED
  BY <1>2, <1>9 DEF y, w

\* A point stays one when time passes.
LEMMA PointLater ==
    ASSUME NEW wal, NEW now \in Nat, NEW p, PointOK(p, wal, now)
    PROVE  PointOK(p, wal, now + 1)
BY DEF PointOK

\* A point stays one when a frame is added.
LEMMA PointKept ==
    ASSUME NEW wal \in Seq(Frames), NEW b \in UpdateBytes, NEW now \in Nat, NEW p, PointOK(p, wal, now)
    PROVE  PointOK(p, Append(wal, [byte |-> b, at |-> now]), now)
<1> DEFINE f == [byte |-> b, at |-> now]
           new == Append(wal, f)
<1>1. f \in Frames /\ f.at = now
  BY DEF Frames
<1> HIDE DEF f
<1>2. /\ Len(new) = Len(wal) + 1 /\ Len(wal) \in Nat
      /\ \A i \in 1..(Len(wal) + 1) : new[i] = IF i = Len(wal) + 1 THEN f ELSE wal[i]
  BY <1>1
<1>3. p.seq \in 0..Len(wal) /\ p.at \in Nat /\ p.at <= now /\ p.payload = SubSeq(Written(wal), 1, p.seq)
  BY DEF PointOK
<1>4. p.payload = SubSeq(Written(new), 1, p.seq)
  BY <1>1, <1>3, WrittenPrefix
<1> HIDE DEF new
<1>5. ASSUME NEW i \in 1..Len(new) PROVE IF i <= p.seq THEN new[i].at <= p.at ELSE p.at <= new[i].at
  <2>1. CASE i = Len(wal) + 1
    BY <1>1, <1>2, <1>3, <2>1
  <2>2. CASE i # Len(wal) + 1
    <3>1. i \in 1..Len(wal) /\ new[i] = wal[i]
      BY <1>2, <2>2
    <3> QED
      BY <3>1 DEF PointOK
  <2> QED
    BY <2>1, <2>2
<1>6. PointOK(p, new, now)
  BY <1>2, <1>3, <1>4, <1>5 DEF PointOK
<1> QED
  BY <1>6 DEF new, f

\* recover_document: the snapshot of a beginning of the log, and the rest.
LEMMA RecoverWhole ==
    ASSUME NEW wal \in Seq(Frames), NEW seq \in 0..Len(wal), NEW file,
           \/ file = NoSnapshot /\ seq = 0
           \/ file = SnapshotOf(seq, SubSeq(Written(wal), 1, seq))
    PROVE  recover_document(file, wal) = Written(wal)
<1> DEFINE w == Written(wal)
           base == load_snapshot(file)
<1>1. w \in Seq(Nat) /\ Len(w) = Len(wal) /\ Len(wal) \in Nat
  BY WrittenSeq
<1> HIDE DEF w
<1>2. SubSeq(w, 1, seq) \in Seq(Nat)
  <2>1. \A i \in 1..seq : i \in 1..Len(w) /\ w[i] \in Nat
    BY <1>1, ElementOfSeq
  <2> QED
    BY <2>1, SubSeqProperties
<1>3. base = SubSeq(w, 1, seq) /\ file.seq = seq
  <2>1. CASE file = NoSnapshot /\ seq = 0
    <3>1. SubSeq(w, 1, 0) = <<>>
      BY SubSeqEmpty
    <3> QED
      BY <2>1, <3>1 DEF load_snapshot, NoSnapshot
  <2>2. CASE file = SnapshotOf(seq, SubSeq(Written(wal), 1, seq))
    BY <1>2, <2>2, SnapshotLoads DEF w
  <2> QED
    BY <2>1, <2>2
<1>4. base # Corrupt
  <2>1. SUFFICES ASSUME base = <<-1>> PROVE FALSE
    BY DEF Corrupt
  <2>2. <<-1>> \in Seq(Nat) /\ Len(<<-1>>) = 1 /\ <<-1>>[1] = -1
    BY <1>2, <1>3, <2>1
  <2>3. -1 \in Nat
    BY <2>2, ElementOfSeq
  <2> QED
    BY <2>3
<1>5. SubSeq(w, 1, seq) \o SubSeq(w, seq + 1, Len(w)) = SubSeq(w, 1, Len(w))
  <2>1. 1 \in 1..(Len(w) + 1) /\ seq \in (1 - 1)..Len(w) /\ Len(w) \in seq..Len(w)
    BY <1>1
  <2> QED
    BY <1>1, <2>1, ConcatAdjacentSubSeq
<1>6. SubSeq(w, 1, Len(w)) = w
  BY <1>1, SubSeqFull
<1>7. recover_document(file, wal) = base \o SubSeq(w, seq + 1, Len(wal))
  BY <1>3, <1>4 DEF recover_document, replay_from_frame, w
<1> QED
  BY <1>1, <1>3, <1>5, <1>6, <1>7 DEF w

\* The fold of replayable_entries.
ReplaySteps(g, wal, seq, target, m) ==
    [n \in 0..m |-> IF n = 0 THEN <<>>
                    ELSE IF n > seq /\ wal[n].at <= target THEN Append(g[n - 1], wal[n].byte)
                    ELSE g[n - 1]]

\* The frames until a time are a beginning of the log.
LEMMA ByThen ==
    ASSUME NEW wal \in Seq(Frames), InOrder(wal), NEW target \in Nat
    PROVE  \E N \in 0..Len(wal) : \A i \in 1..Len(wal) : wal[i].at <= target <=> i <= N
<1> DEFINE Cut(k, N) == \A i \in 1..k : wal[i].at <= target <=> i <= N
           S == {k \in 0..Len(wal) : \E N \in 0..k : Cut(k, N)}
<1>1. Len(wal) \in Nat
  OBVIOUS
<1>2. 0 \in S
  <2>1. Cut(0, 0) /\ 0 \in 0..0 /\ 0 \in 0..Len(wal)
    BY <1>1
  <2> HIDE DEF Cut
  <2> QED
    BY <2>1
<1>3. ASSUME NEW k \in 1..Len(wal), k - 1 \in S PROVE k \in S
  <2>1. PICK N \in 0..(k - 1) : Cut(k - 1, N)
    BY <1>3
  <2>2. k \in 0..Len(wal)
    BY <1>1
  <2>3. \A i \in 1..k : wal[i].at \in Nat /\ wal[i].at <= wal[k].at
    <3>1. \A i \in 1..k : i \in 1..Len(wal) /\ i <= k
      BY <1>1
    <3>2. \A i \in 1..k : wal[i] \in Frames
      BY <3>1, ElementOfSeq
    <3> QED
      BY <3>1, <3>2 DEF InOrder, Frames
  <2>4. CASE wal[k].at <= target
    <3>1. Cut(k, k) /\ k \in 0..k
      BY <1>1, <2>3, <2>4
    <3> HIDE DEF Cut
    <3> QED
      BY <2>2, <3>1
  <2>5. CASE ~(wal[k].at <= target)
    <3>1. N \in 0..k
      BY <1>1, <2>1
    <3>2. ASSUME NEW i \in 1..k PROVE wal[i].at <= target <=> i <= N
      <4>1. CASE i = k
        BY <1>1, <2>1, <2>5, <4>1
      <4>2. CASE i # k
        <5>1. i \in 1..(k - 1)
          BY <1>1, <4>2
        <5> QED
          BY <2>1, <5>1
      <4> QED
        BY <4>1, <4>2
    <3>3. Cut(k, N)
      BY <3>2
    <3> HIDE DEF Cut
    <3> QED
      BY <2>2, <3>1, <3>3
  <2> QED
    BY <2>4, <2>5
<1>4. Len(wal) \in S
  <2>1. Len(wal) \in 0..Len(wal)
    BY <1>1
  <2> HIDE DEF S
  <2>2. 0..Len(wal) \subseteq S
    BY <1>1, <1>2, <1>3, UpTo
  <2> QED
    BY <2>1, <2>2
<1> QED
  BY <1>4

\* The entries to replay are the ones between the snapshot and the time.
LEMMA ReplayIs ==
    ASSUME NEW wal \in Seq(Frames), NEW target \in Nat,
           NEW N \in 0..Len(wal), \A i \in 1..Len(wal) : wal[i].at <= target <=> i <= N,
           NEW seq \in 0..N
    PROVE  replayable_entries(wal, seq, target) = SubSeq(Written(wal), seq + 1, N)
<1> DEFINE L == Len(wal)
           w == Written(wal)
           Upper(n) == IF n <= N THEN n ELSE N
           Part(n) == SubSeq(w, seq + 1, Upper(n))
           F(g) == ReplaySteps(g, wal, seq, target, L)
           upto == CHOOSE g : g = F(g)
           S == {n \in 0..L : upto[n] = Part(n)}
<1>1. L \in Nat /\ w \in Seq(Nat) /\ Len(w) = L /\ \A i \in 1..L : w[i] = wal[i].byte
  BY WrittenSeq
<1> HIDE DEF w
<1>2. Part(0) = <<>>
  <2>1. Upper(0) = 0 /\ 0 < seq + 1 /\ seq + 1 \in Int
    BY <1>1
  <2> QED
    BY <2>1, SubSeqEmpty
<1>3. ASSUME NEW n \in 1..L
      PROVE  Part(n) = IF n > seq /\ wal[n].at <= target THEN Append(Part(n - 1), wal[n].byte) ELSE Part(n - 1)
  <2>1. wal[n].at <= target <=> n <= N
    OBVIOUS
  <2>2. CASE n > seq /\ n <= N
    <3>1. Upper(n) = n /\ Upper(n - 1) = n - 1
      BY <1>1, <2>2
    <3>2. seq + 1 \in 1..Len(w) /\ n \in (seq + 1)..Len(w)
      BY <1>1, <2>2
    <3>3. SubSeq(w, seq + 1, n) = SubSeq(w, seq + 1, n - 1) \o <<w[n]>>
      BY <1>1, <3>2, SubSeqRecursiveSecond
    <3>4. SubSeq(w, seq + 1, n - 1) \in Seq(Nat) /\ w[n] \in Nat
      <4>1. \A i \in (seq + 1)..(n - 1) : i \in 1..Len(w) /\ w[i] \in Nat
        BY <1>1, ElementOfSeq
      <4>2. seq + 1 \in Int /\ n - 1 \in Int
        BY <1>1
      <4>3. w[n] \in Nat
        BY <1>1, ElementOfSeq
      <4> QED
        BY <4>1, <4>2, <4>3, SubSeqProperties
    <3>5. SubSeq(w, seq + 1, n - 1) \o <<w[n]>> = Append(SubSeq(w, seq + 1, n - 1), w[n])
      BY <3>4, AppendIsConcat
    <3> QED
      BY <1>1, <2>1, <2>2, <3>1, <3>3, <3>5
  <2>3. CASE n <= seq
    <3>1. Upper(n) = n /\ Upper(n - 1) = n - 1 /\ n < seq + 1 /\ n - 1 < seq + 1 /\ ~(n > seq)
          /\ seq + 1 \in Int /\ n \in Int /\ n - 1 \in Int
      BY <1>1, <2>3
    <3>2. Part(n) = <<>> /\ Part(n - 1) = <<>>
      BY <3>1, SubSeqEmpty
    <3> QED
      BY <3>1, <3>2
  <2>4. CASE ~(n <= N)
    <3>1. Upper(n) = N /\ Upper(n - 1) = N
      BY <1>1, <2>4
    <3> QED
      BY <2>1, <2>4, <3>1
  <2> QED
    BY <1>1, <2>2, <2>3, <2>4
<1> HIDE DEF Part
<1>4. replayable_entries(wal, seq, target) = upto[L]
  BY DEF replayable_entries, ReplaySteps
<1>5. upto = F(upto)
  <2> DEFINE h == [n \in 0..L |-> Part(n)]
  <2>1. ASSUME NEW n \in 0..L
        PROVE  h[n] = IF n = 0 THEN <<>>
                      ELSE IF n > seq /\ wal[n].at <= target THEN Append(h[n - 1], wal[n].byte)
                      ELSE h[n - 1]
    <3>1. CASE n = 0
      BY <1>2, <3>1
    <3>2. CASE n # 0
      <4>1. n \in 1..L /\ n - 1 \in 0..L
        BY <1>1, <3>2
      <4>2. h[n] = Part(n) /\ h[n - 1] = Part(n - 1)
        BY <4>1
      <4> HIDE DEF h
      <4> QED
        BY <1>3, <3>2, <4>1, <4>2
    <3> QED
      BY <3>1, <3>2
  <2>2. h = F(h)
    <3>1. h = [n \in 0..L |-> h[n]]
      OBVIOUS
    <3> HIDE DEF h
    <3> QED
      BY <2>1, <3>1 DEF ReplaySteps
  <2> HIDE DEF h
  <2>3. \E g : g = F(g)
    BY <2>2
  <2> QED
    BY <2>3
<1> HIDE DEF upto
<1>6. /\ upto[0] = <<>>
      /\ \A n \in 1..L : upto[n] = IF n > seq /\ wal[n].at <= target THEN Append(upto[n - 1], wal[n].byte)
                                   ELSE upto[n - 1]
  <2>1. \A n \in 0..L : upto[n] = IF n = 0 THEN <<>>
                                  ELSE IF n > seq /\ wal[n].at <= target THEN Append(upto[n - 1], wal[n].byte)
                                  ELSE upto[n - 1]
    BY <1>5 DEF ReplaySteps
  <2>2. 0 \in 0..L /\ \A n \in 1..L : n \in 0..L /\ n # 0
    BY <1>1
  <2> QED
    BY <2>1, <2>2
<1>7. 0 \in S
  BY <1>1, <1>2, <1>6
<1>8. ASSUME NEW n \in 1..L, n - 1 \in S PROVE n \in S
  <2>1. upto[n - 1] = Part(n - 1) /\ n \in 0..L
    BY <1>1, <1>8
  <2> QED
    BY <1>3, <1>6, <2>1
<1>9. upto[L] = Part(L)
  <2>1. L \in 0..L
    BY <1>1
  <2>2. 0..L \subseteq S
    <3> HIDE DEF S
    <3> QED
      BY <1>1, <1>7, <1>8, UpTo
  <2> QED
    BY <2>1, <2>2
<1>10. Upper(L) = N
  BY <1>1
<1> QED
  BY <1>4, <1>9, <1>10 DEF Part, w

\* Beginnings of a sequence, put together and cut again.
LEMMA Beginnings ==
    ASSUME NEW w \in Seq(Nat), NEW N \in 0..Len(w), NEW s \in 0..N, NEW m \in 0..(N - s)
    PROVE  /\ Len(SubSeq(w, s + 1, N)) = N - s
           /\ SubSeq(w, 1, s) \o SubSeq(SubSeq(w, s + 1, N), 1, m) = SubSeq(w, 1, s + m)
           /\ SubSeq(SubSeq(w, 1, N), 1, s + m) = SubSeq(w, 1, s + m)
<1>1. Len(w) \in Nat /\ \A i \in 1..Len(w) : w[i] \in Nat
  BY ElementOfSeq
<1> DEFINE r == SubSeq(w, s + 1, N)
           a == SubSeq(r, 1, m)
           b == SubSeq(w, s + 1, s + m)
           c == SubSeq(w, 1, N)
           d == SubSeq(c, 1, s + m)
           e == SubSeq(w, 1, s + m)
<1>2. r \in Seq(Nat) /\ Len(r) = N - s /\ \A i \in 1..(N - s) : r[i] = w[s + i]
  <2>1. s + 1 \in Int /\ N \in Int /\ \A i \in (s + 1)..N : w[i] \in Nat
    BY <1>1
  <2>2. r \in Seq(Nat) /\ Len(r) = (IF s + 1 <= N THEN N - (s + 1) + 1 ELSE 0)
        /\ \A i \in 1..(N - (s + 1) + 1) : r[i] = w[s + 1 + i - 1]
    <3>1. PICK x \in Int : x = s + 1
      BY <2>1
    <3>2. \A i \in x..N : w[i] \in Nat
      BY <2>1, <3>1
    <3>3. /\ SubSeq(w, x, N) \in Seq(Nat) /\ Len(SubSeq(w, x, N)) = (IF x <= N THEN N - x + 1 ELSE 0)
          /\ \A i \in 1..(N - x + 1) : SubSeq(w, x, N)[i] = w[x + i - 1]
      BY <2>1, <3>2, SubSeqProperties
    <3> QED
      BY <3>1, <3>3
  <2> HIDE DEF r
  <2>3. N - (s + 1) + 1 = N - s /\ \A i \in 1..(N - s) : s + 1 + i - 1 = s + i
    BY <1>1
  <2>4. Len(r) = N - s
    BY <1>1, <2>2
  <2>5. \A i \in 1..(N - s) : r[i] = w[s + i]
    BY <2>2, <2>3
  <2> QED
    BY <2>2, <2>4, <2>5
<1> HIDE DEF r
<1>3. b \in Seq(Nat) /\ Len(b) = m /\ \A i \in 1..m : b[i] = w[s + i]
  <2>1. s + 1 \in Int /\ s + m \in Int /\ \A i \in (s + 1)..(s + m) : w[i] \in Nat
    BY <1>1
  <2>2. b \in Seq(Nat) /\ Len(b) = (IF s + 1 <= s + m THEN s + m - (s + 1) + 1 ELSE 0)
        /\ \A i \in 1..(s + m - (s + 1) + 1) : b[i] = w[s + 1 + i - 1]
    <3>1. PICK x \in Int : x = s + 1
      BY <2>1
    <3>2. PICK y \in Int : y = s + m
      BY <2>1
    <3>3. \A i \in x..y : w[i] \in Nat
      BY <2>1, <3>1, <3>2
    <3>4. /\ SubSeq(w, x, y) \in Seq(Nat) /\ Len(SubSeq(w, x, y)) = (IF x <= y THEN y - x + 1 ELSE 0)
          /\ \A i \in 1..(y - x + 1) : SubSeq(w, x, y)[i] = w[x + i - 1]
      BY <3>3, SubSeqProperties
    <3> QED
      BY <3>1, <3>2, <3>4
  <2> HIDE DEF b
  <2>3. s + m - (s + 1) + 1 = m /\ \A i \in 1..m : s + 1 + i - 1 = s + i
    BY <1>1
  <2>4. Len(b) = m
    BY <1>1, <2>2
  <2>5. \A i \in 1..m : b[i] = w[s + i]
    BY <2>2, <2>3
  <2> QED
    BY <2>2, <2>4, <2>5
<1>4. a \in Seq(Nat) /\ Len(a) = m /\ \A i \in 1..m : a[i] = r[i]
  <2>1. m \in Int /\ m - 1 + 1 = m /\ (1 <= m \/ m = 0) /\ \A i \in 1..m : i \in 1..Len(r)
    BY <1>1, <1>2
  <2>2. \A i \in 1..m : r[i] \in Nat
    BY <1>2, <2>1, ElementOfSeq
  <2> QED
    BY <2>1, <2>2, SubSeqProperties
<1> HIDE DEF a, b
<1>5. a = b
  <2>1. \A i \in 1..m : i \in 1..(N - s)
    BY <1>1
  <2>2. \A i \in 1..m : a[i] = b[i]
    BY <1>2, <1>3, <1>4, <2>1
  <2> QED
    BY <1>3, <1>4, <2>2, SeqEqual
<1>6. SubSeq(w, 1, s) \o b = e
  <2>1. 1 \in 1..(Len(w) + 1) /\ s \in (1 - 1)..Len(w) /\ s + m \in s..Len(w)
    BY <1>1
  <2> QED
    BY <2>1, ConcatAdjacentSubSeq DEF b
<1>7. c \in Seq(Nat) /\ Len(c) = N /\ \A i \in 1..N : c[i] = w[i]
  <2>1. N \in Int /\ N - 1 + 1 = N /\ (1 <= N \/ N = 0) /\ \A i \in 1..N : w[i] \in Nat
    BY <1>1
  <2> QED
    BY <2>1, SubSeqProperties
<1> HIDE DEF c
<1>8. s + m \in 0..N
  BY <1>1
<1> DEFINE k == s + m
<1>9. k \in Int /\ k - 1 + 1 = k /\ (1 <= k \/ k = 0) /\ \A i \in 1..k : i \in 1..N /\ w[i] \in Nat /\ c[i] \in Nat
  BY <1>1, <1>7, <1>8
<1>10. e \in Seq(Nat) /\ Len(e) = k /\ \A i \in 1..k : e[i] = w[i]
  BY <1>9, SubSeqProperties
<1>11. d \in Seq(Nat) /\ Len(d) = k /\ \A i \in 1..k : d[i] = c[i]
  BY <1>9, SubSeqProperties
<1> HIDE DEF d, e, k
<1>12. d = e
  BY <1>7, <1>9, <1>10, <1>11, SeqEqual
<1> QED
  BY <1>2, <1>5, <1>6, <1>12 DEF r, a, c, d, e

\* The snapshot a replay starts from when there is none.
NoPoint == [seq |-> 0, at |-> 0, payload |-> <<>>]

\* scrub_to_time: whichever point it starts from, the document is a beginning
\* of what was written by then, and all of it unless the replay was cut.
LEMMA ScrubExact ==
    ASSUME NEW wal \in Seq(Frames), InOrder(wal), NEW now \in Nat, NEW saved, NEW current,
           \A p \in saved : PointOK(p, wal, now), NEW target \in 0..now
    PROVE  LET bythen == replayable_entries(wal, 0, target)
               scrub == scrub_to_time(saved, wal, target)
           IN /\ IF scrub.capped THEN \E n \in 0..Len(bythen) : scrub.document = SubSeq(bythen, 1, n)
                 ELSE scrub.document = bythen
              /\ restore_to_time(current, saved, wal, target) = scrub.document
<1> DEFINE bythen == replayable_entries(wal, 0, target)
           scrub == scrub_to_time(saved, wal, target)
           w == Written(wal)
           before == {s \in saved : s.at <= target}
           base == IF before = {} THEN NoPoint ELSE CHOOSE s \in before : \A t \in before : t.at <= s.at
<1>1. w \in Seq(Nat) /\ Len(w) = Len(wal) /\ Len(wal) \in Nat /\ target \in Nat
  BY WrittenSeq
<1>2. PICK N \in 0..Len(wal) : \A i \in 1..Len(wal) : wal[i].at <= target <=> i <= N
  BY <1>1, ByThen
<1>3. bythen = SubSeq(w, 1, N)
  <2>1. 0 \in 0..N /\ 0 + 1 = 1
    BY <1>1, <1>2
  <2>2. bythen = SubSeq(w, 0 + 1, N)
    BY <1>1, <1>2, <2>1, ReplayIs
  <2> QED
    BY <2>1, <2>2
<1>4. base.seq \in 0..N /\ base.payload = SubSeq(w, 1, base.seq)
  <2>1. CASE before = {}
    <3>1. base = NoPoint
      BY <2>1
    <3>2. base.seq = 0 /\ base.payload = <<>>
      BY <3>1 DEF NoPoint
    <3>3. SubSeq(w, 1, 0) = <<>>
      BY SubSeqEmpty
    <3> HIDE DEF base, w
    <3> QED
      BY <1>1, <1>2, <3>2, <3>3
  <2>2. CASE before # {}
    <3> DEFINE Ats == {s.at : s \in before}
    <3>1. Ats \in SUBSET Nat /\ Ats # {} /\ \A x \in Ats : x <= now
      BY <2>2 DEF PointOK
    <3>2. \E x \in Ats : \A y \in Ats : y <= x
      <4> HIDE DEF Ats
      <4> QED
        BY <3>1, GreatestMember
    <3>3. \E s \in before : \A t \in before : t.at <= s.at
      BY <3>2
    <3>4. base \in before
      <4> HIDE DEF before
      <4> QED
        BY <2>2, <3>3
    <3>5. PointOK(base, wal, now) /\ base.at <= target
      BY <3>4
    <3> HIDE DEF base, w
    <3>6. base.seq \in 0..Len(wal) /\ base.at \in Nat /\ base.payload = SubSeq(w, 1, base.seq)
      BY <3>5 DEF PointOK, w
    <3>7. base.seq <= N
      <4>1. CASE base.seq = 0
        BY <1>1, <1>2, <4>1
      <4>2. CASE base.seq # 0
        <5>1. base.seq \in 1..Len(wal)
          BY <1>1, <3>6, <4>2
        <5>2. wal[base.seq].at <= base.at
          BY <1>1, <3>5, <5>1 DEF PointOK
        <5>3. wal[base.seq].at \in Nat
          <6>1. wal[base.seq] \in Frames
            BY <5>1, ElementOfSeq
          <6> QED
            BY <6>1 DEF Frames
        <5>4. wal[base.seq].at <= target
          BY <1>1, <3>5, <3>6, <5>2, <5>3
        <5> QED
          BY <1>2, <5>1, <5>4
      <4> QED
        BY <4>1, <4>2
    <3> QED
      BY <1>1, <1>2, <3>6, <3>7
  <2> QED
    BY <2>1, <2>2
<1> DEFINE replayable == replayable_entries(wal, base.seq, target)
           capped == Len(replayable) > MaxReplayOps
           m == IF capped THEN MaxReplayOps ELSE Len(replayable)
<1>5. scrub = [document |-> base.payload \o SubSeq(replayable, 1, m), base |-> base.seq, capped |-> capped]
  BY DEF scrub_to_time, NoPoint
<1> HIDE DEF base
<1>6. PICK s : s = base.seq
  OBVIOUS
<1>7. replayable = SubSeq(w, s + 1, N)
  BY <1>1, <1>2, <1>4, <1>6, ReplayIs
<1> HIDE DEF replayable, w, bythen, scrub
<1>8. Len(replayable) = N - s
  <2>1. 0 \in 0..(N - s)
    BY <1>1, <1>2, <1>4, <1>6
  <2> QED
    BY <1>1, <1>2, <1>4, <1>6, <1>7, <2>1, Beginnings
<1>9. m \in 0..(N - s) /\ (~capped => m = N - s)
  BY <1>1, <1>2, <1>4, <1>6, <1>8, SnapReplayNat
<1> HIDE DEF capped, m
<1>10. /\ SubSeq(w, 1, s) \o SubSeq(replayable, 1, m) = SubSeq(w, 1, s + m)
       /\ SubSeq(bythen, 1, s + m) = SubSeq(w, 1, s + m)
  BY <1>1, <1>2, <1>3, <1>4, <1>6, <1>7, <1>9, Beginnings
<1>11. scrub.document = SubSeq(bythen, 1, s + m) /\ scrub.capped = capped
  BY <1>4, <1>5, <1>6, <1>10
<1>12. Len(bythen) = N
  <2>1. \A i \in 1..N : i \in 1..Len(w) /\ w[i] \in Nat
    BY <1>1, <1>2, ElementOfSeq
  <2>2. N \in Int /\ N - 1 + 1 = N /\ (1 <= N \/ N = 0)
    BY <1>1, <1>2
  <2> QED
    BY <1>3, <2>1, <2>2, SubSeqProperties
<1>13. IF scrub.capped THEN \E n \in 0..Len(bythen) : scrub.document = SubSeq(bythen, 1, n)
       ELSE scrub.document = bythen
  <2>1. CASE scrub.capped
    <3>1. s + m \in 0..Len(bythen)
      BY <1>1, <1>2, <1>4, <1>6, <1>9, <1>12
    <3> QED
      BY <1>11, <2>1, <3>1
  <2>2. CASE ~scrub.capped
    <3>1. s + m = N
      BY <1>1, <1>2, <1>4, <1>6, <1>9, <1>11, <2>2
    <3> QED
      BY <1>3, <1>10, <1>11, <2>2, <3>1
  <2> QED
    BY <2>1, <2>2
<1>14. restore_to_time(current, saved, wal, target) = scrub.document
  BY DEF restore_to_time, scrub
<1> QED
  BY <1>13, <1>14 DEF bythen, scrub

-----------------------------------------------------------------------------
(* DaemonSnapshots: the invariant *)

\* What a call of save_snapshot has written.
SavedPoint(v) == [seq |-> v.file.seq, at |-> v.at, payload |-> v.payload]

SavedOK(v, wal, now) ==
    v.pc = "written" => /\ PointOK(SavedPoint(v), wal, now)
                        /\ v.file = SnapshotOf(v.file.seq, v.payload)

\* The log and the clock; the document is what the log wrote; every snapshot
\* on its way, in the history or in the file is a point of the log.
SnapInv ==
    /\ frames \in Seq(Frames) /\ snapClock \in Nat
    /\ InOrder(frames) /\ \A i \in 1..Len(frames) : frames[i].at <= snapClock
    /\ ydoc = Written(frames)
    /\ DOMAIN saver = Savers
    /\ \A s \in Savers : SavedOK(saver[s], frames, snapClock)
    /\ \A p \in points : PointOK(p, frames, snapClock)
    /\ snapFile = NoSnapshot \/ \E p \in points : snapFile = SnapshotOf(p.seq, p.payload)

\* A snapshot on its way stays a point of the log when a frame is added.
LEMMA SavedKept ==
    ASSUME NEW wal \in Seq(Frames), NEW b \in UpdateBytes, NEW now \in Nat, NEW v, SavedOK(v, wal, now)
    PROVE  SavedOK(v, Append(wal, [byte |-> b, at |-> now]), now)
BY PointKept DEF SavedOK

\* The start.
LEMMA SnapInvInit == ASSUME SnapInit PROVE SnapInv
<1>1. frames = <<>> /\ ydoc = <<>> /\ snapFile = NoSnapshot /\ points = {} /\ snapClock = 0
  BY DEF SnapInit
<1>2. frames \in Seq(Frames) /\ Len(frames) = 0
  BY <1>1
<1>3. Written(frames) = <<>>
  <2>1. Written(frames) \in Seq(Nat) /\ Len(Written(frames)) = 0
    <3>1. PICK wal : wal = frames
      OBVIOUS
    <3> QED
      BY <1>2, <3>1, WrittenSeq
  <2> QED
    BY <2>1, EmptySeq
<1>4. saver = [s \in Savers |-> NoSave]
  BY DEF SnapInit
<1>5. \A s \in Savers : saver[s].pc # "written"
  BY <1>4 DEF NoSave
<1> QED
  BY <1>1, <1>2, <1>3, <1>4, <1>5 DEF SnapInv, InOrder, SavedOK

\* What is recovered is what the log wrote.
LEMMA SnapInvRecovers == ASSUME SnapInv PROVE recover_document(snapFile, frames) = Written(frames)
<1>1. PICK wal \in Seq(Frames) : wal = frames
  BY DEF SnapInv
<1>2. PICK file : file = snapFile
  OBVIOUS
<1>3. CASE snapFile = NoSnapshot
  <2>1. 0 \in 0..Len(wal)
    OBVIOUS
  <2> QED
    BY <1>1, <1>2, <1>3, <2>1, RecoverWhole
<1>4. CASE \E p \in points : snapFile = SnapshotOf(p.seq, p.payload)
  <2>1. PICK p \in points : snapFile = SnapshotOf(p.seq, p.payload)
    BY <1>4
  <2>2. PICK n : n = p.seq
    OBVIOUS
  <2>3. n \in 0..Len(wal) /\ file = SnapshotOf(n, SubSeq(Written(wal), 1, n))
    BY <1>1, <1>2, <2>1, <2>2 DEF SnapInv, PointOK
  <2> QED
    BY <1>1, <1>2, <2>3, RecoverWhole
<1> QED
  BY <1>3, <1>4 DEF SnapInv

\* An update, and its frame.
LEMMA SnapInvAppend == ASSUME SnapInv, NEW b \in UpdateBytes, append_frame(b) PROVE SnapInv'
<1>1. PICK wal \in Seq(Frames) : wal = frames
  BY DEF SnapInv
<1>2. PICK now \in Nat : now = snapClock
  BY DEF SnapInv
<1> DEFINE f == [byte |-> b, at |-> now]
           new == Append(wal, f)
<1>3. f \in Frames /\ f.at = now /\ f.byte = b
  BY DEF Frames
<1> HIDE DEF f
<1>4. /\ frames' = new /\ ydoc' = Append(ydoc, b)
      /\ snapFile' = snapFile /\ saver' = saver /\ points' = points /\ snapClock' = now
  BY <1>1, <1>2 DEF append_frame, f
<1>5. /\ new \in Seq(Frames) /\ Len(new) = Len(wal) + 1 /\ Len(wal) \in Nat
      /\ \A i \in 1..(Len(wal) + 1) : new[i] = IF i = Len(wal) + 1 THEN f ELSE wal[i]
  BY <1>3
<1>6. Written(new) = Append(Written(wal), b)
  BY <1>3, WrittenAppend
<1>7. \A i \in 1..Len(wal) : wal[i].at <= now
  BY <1>1, <1>2 DEF SnapInv
<1>8. InOrder(wal)
  BY <1>1 DEF SnapInv
<1>9. \A s \in Savers : SavedOK(saver[s], new, now)
  <2>1. TAKE s \in Savers
  <2>2. PICK v : v = saver[s]
    OBVIOUS
  <2>3. SavedOK(v, wal, now)
    BY <1>1, <1>2, <2>2 DEF SnapInv
  <2> QED
    BY <2>2, <2>3, SavedKept DEF f
<1>10. \A p \in points : PointOK(p, new, now)
  <2>1. \A p \in points : PointOK(p, wal, now)
    BY <1>1, <1>2 DEF SnapInv
  <2> QED
    BY <2>1, PointKept DEF f
<1> HIDE DEF new
<1>11. \A i \in 1..Len(new) : new[i].at <= now
  BY <1>3, <1>5, <1>7
<1>12. InOrder(new)
  <2>1. ASSUME NEW i \in 1..Len(new), NEW j \in 1..Len(new), i <= j PROVE new[i].at <= new[j].at
    <3>1. CASE j = Len(wal) + 1
      BY <1>3, <1>5, <1>11, <3>1
    <3>2. CASE j # Len(wal) + 1
      <4>1. i \in 1..Len(wal) /\ j \in 1..Len(wal) /\ new[i] = wal[i] /\ new[j] = wal[j]
        BY <1>5, <2>1, <3>2
      <4> QED
        BY <1>8, <2>1, <4>1 DEF InOrder
    <3> QED
      BY <3>1, <3>2
  <2> QED
    BY <2>1 DEF InOrder
<1>13. ydoc' = Written(new)
  BY <1>1, <1>4, <1>6 DEF SnapInv
<1>14. DOMAIN saver = Savers /\ (snapFile = NoSnapshot \/ \E p \in points : snapFile = SnapshotOf(p.seq, p.payload))
  BY DEF SnapInv
<1> QED
  BY <1>2, <1>4, <1>5, <1>9, <1>10, <1>11, <1>12, <1>13, <1>14 DEF SnapInv

\* save_snapshot writes a point of the log.
LEMMA SnapInvSave == ASSUME SnapInv, NEW s \in Savers, save_snapshot(s) PROVE SnapInv'
<1>1. PICK wal \in Seq(Frames) : wal = frames
  BY DEF SnapInv
<1>2. PICK now \in Nat : now = snapClock
  BY DEF SnapInv
<1> DEFINE L == Len(wal)
           w == Written(wal)
           v == [pc |-> "written", file |-> SnapshotOf(L, w), payload |-> w, at |-> now]
<1>3. w \in Seq(Nat) /\ Len(w) = L /\ L \in Nat
  BY WrittenSeq
<1>4. ydoc = w
  BY <1>1 DEF SnapInv
<1>5. /\ saver' = [saver EXCEPT ![s] = v] /\ frames' = frames /\ ydoc' = ydoc
      /\ snapFile' = snapFile /\ points' = points /\ snapClock' = snapClock
  BY <1>1, <1>2, <1>4 DEF save_snapshot
<1>6. SavedOK(v, wal, now)
  <2> DEFINE file == SnapshotOf(L, w)
             p == [seq |-> L, at |-> now, payload |-> w]
  <2>1. file.seq = L
    BY DEF SnapshotOf
  <2> HIDE DEF file
  <2>2. SavedPoint(v) = p /\ v.file = file /\ v.payload = w
    BY <2>1 DEF SavedPoint, file
  <2>3. SubSeq(w, 1, L) = w
    BY <1>3, SubSeqFull
  <2>4. \A i \in 1..L : wal[i].at <= now
    BY <1>1, <1>2 DEF SnapInv
  <2>5. PointOK(p, wal, now)
    <3>1. p.seq = L /\ p.at = now /\ p.payload = w
      OBVIOUS
    <3>2. p.seq \in 0..L /\ \A i \in 1..L : i <= p.seq
      BY <1>3, <3>1
    <3> HIDE DEF p
    <3> QED
      BY <1>3, <2>3, <2>4, <3>1, <3>2 DEF PointOK
  <2> HIDE DEF v
  <2> QED
    BY <2>1, <2>2, <2>5 DEF SavedOK, file
<1> HIDE DEF v
<1>7. \A t \in Savers : SavedOK(saver'[t], wal, now)
  <2>1. TAKE t \in Savers
  <2>2. SavedOK(saver[t], wal, now) /\ DOMAIN saver = Savers
    BY <1>1, <1>2 DEF SnapInv
  <2>3. saver'[t] = IF t = s THEN v ELSE saver[t]
    BY <1>5, <2>2
  <2> QED
    BY <1>6, <2>2, <2>3
<1>8. DOMAIN saver' = Savers
  BY <1>5 DEF SnapInv
<1> QED
  BY <1>1, <1>2, <1>5, <1>7, <1>8 DEF SnapInv

\* rename_snapshot puts a point of the log into the file and the history.
LEMMA SnapInvRename == ASSUME SnapInv, NEW s \in Savers, rename_snapshot(s) PROVE SnapInv'
<1> DEFINE v == saver[s]
           p == SavedPoint(v)
<1>1. /\ v.pc = "written" /\ snapFile' = v.file /\ points' = points \union {p}
      /\ saver' = [saver EXCEPT ![s] = NoSave] /\ frames' = frames /\ ydoc' = ydoc /\ snapClock' = snapClock
  BY DEF rename_snapshot, SavedPoint
<1>2. PointOK(p, frames, snapClock) /\ v.file = SnapshotOf(v.file.seq, v.payload)
  BY <1>1 DEF SnapInv, SavedOK
<1>3. p.seq = v.file.seq /\ p.payload = v.payload
  BY DEF SavedPoint
<1> HIDE DEF v, p
<1>4. snapFile' = SnapshotOf(p.seq, p.payload)
  BY <1>1, <1>2, <1>3
<1>5. \A q \in points' : PointOK(q, frames, snapClock)
  BY <1>1, <1>2 DEF SnapInv
<1>6. DOMAIN saver' = Savers /\ \A t \in Savers : SavedOK(saver'[t], frames, snapClock)
  <2>1. DOMAIN saver = Savers /\ \A t \in Savers : SavedOK(saver[t], frames, snapClock)
    BY DEF SnapInv
  <2>2. \A t \in Savers : saver'[t] = IF t = s THEN NoSave ELSE saver[t]
    BY <1>1, <2>1
  <2>3. SavedOK(NoSave, frames, snapClock)
    BY DEF SavedOK, NoSave
  <2> QED
    BY <1>1, <2>1, <2>2, <2>3
<1>7. p \in points'
  BY <1>1
<1> QED
  BY <1>1, <1>4, <1>5, <1>6, <1>7 DEF SnapInv

\* A crash loses the calls of save_snapshot; the document is recovered.
LEMMA SnapInvCrash == ASSUME SnapInv, SnapCrash PROVE SnapInv'
<1>1. /\ saver' = [t \in Savers |-> NoSave] /\ ydoc' = recover_document(snapFile, frames)
      /\ frames' = frames /\ snapFile' = snapFile /\ points' = points /\ snapClock' = snapClock
  BY DEF SnapCrash
<1>2. ydoc' = Written(frames)
  BY <1>1, SnapInvRecovers
<1>3. DOMAIN saver' = Savers /\ \A t \in Savers : SavedOK(saver'[t], frames, snapClock)
  BY <1>1 DEF SavedOK, NoSave
<1> QED
  BY <1>1, <1>2, <1>3 DEF SnapInv

\* Time passes.
LEMMA SnapInvTick == ASSUME SnapInv, SnapTick PROVE SnapInv'
<1>1. PICK wal \in Seq(Frames) : wal = frames
  BY DEF SnapInv
<1>2. PICK now \in Nat : now = snapClock
  BY DEF SnapInv
<1>3. /\ snapClock' = now + 1 /\ frames' = wal /\ ydoc' = ydoc
      /\ snapFile' = snapFile /\ saver' = saver /\ points' = points
  BY <1>1, <1>2 DEF SnapTick
<1>5. \A p \in points : PointOK(p, wal, now + 1)
  <2>1. \A p \in points : PointOK(p, wal, now)
    BY <1>1, <1>2 DEF SnapInv
  <2> QED
    BY <2>1, PointLater
<1>6. \A s \in Savers : SavedOK(saver[s], wal, now + 1)
  <2>1. \A s \in Savers : SavedOK(saver[s], wal, now)
    BY <1>1, <1>2 DEF SnapInv
  <2> QED
    BY <2>1, PointLater DEF SavedOK
<1>7. \A i \in 1..Len(wal) : wal[i].at <= now + 1
  <2>1. \A i \in 1..Len(wal) : wal[i] \in Frames
    BY ElementOfSeq
  <2>2. \A i \in 1..Len(wal) : wal[i].at <= now /\ wal[i].at \in Nat
    BY <1>1, <1>2, <2>1 DEF SnapInv, Frames
  <2> QED
    BY <2>2
<1>8. /\ InOrder(wal) /\ ydoc = Written(wal) /\ DOMAIN saver = Savers
      /\ snapFile = NoSnapshot \/ \E p \in points : snapFile = SnapshotOf(p.seq, p.payload)
  BY <1>1 DEF SnapInv
<1>9. now + 1 \in Nat
  OBVIOUS
<1> QED
  BY <1>3, <1>5, <1>6, <1>7, <1>8, <1>9 DEF SnapInv

\* What the invariant says of recovery and of replay.
LEMMA SnapInvSound == ASSUME SnapInv PROVE SnapSound
<1>1. SnapRecovers
  BY SnapInvRecovers DEF SnapRecovers, SnapInv
<1>2. PICK wal \in Seq(Frames) : wal = frames
  BY DEF SnapInv
<1>3. PICK now \in Nat : now = snapClock
  BY DEF SnapInv
<1>4. PICK saved : saved = points
  OBVIOUS
<1>5. PICK current : current = ydoc
  OBVIOUS
<1>6. InOrder(wal) /\ \A p \in saved : PointOK(p, wal, now)
  BY <1>2, <1>3, <1>4 DEF SnapInv
<1>7. SnapScrubExact
  <2>1. ASSUME NEW target \in 0..now
        PROVE  LET bythen == replayable_entries(wal, 0, target)
                   scrub == scrub_to_time(saved, wal, target)
               IN /\ IF scrub.capped THEN \E n \in 0..Len(bythen) : scrub.document = SubSeq(bythen, 1, n)
                     ELSE scrub.document = bythen
                  /\ restore_to_time(current, saved, wal, target) = scrub.document
    BY <1>6, ScrubExact
  <2> QED
    BY <1>2, <1>3, <1>4, <1>5, <2>1 DEF SnapScrubExact
<1> QED
  BY <1>1, <1>7 DEF SnapSound

\* Snapshots (SnapSound): whichever of several saves is renamed last and
\* wherever a crash stops one, the snapshot file and the log give back every
\* update once, and the document at a past time is what was written by then,
\* whichever snapshot the replay starts from; for every number of savers, of
\* updates and of crashes, every longest run of the codec and every cut.
THEOREM SnapSoundHolds == SnapSpec => []SnapSound
<1>1. SnapInit => SnapInv
  BY SnapInvInit
<1>2. SnapInv /\ [SnapNext]_snapVars => SnapInv'
  <2>1. SUFFICES ASSUME SnapInv, [SnapNext]_snapVars PROVE SnapInv'
    OBVIOUS
  <2>2. CASE \E b \in UpdateBytes : append_frame(b)
    BY <2>1, <2>2, SnapInvAppend
  <2>3. CASE \E s \in Savers : save_snapshot(s)
    BY <2>1, <2>3, SnapInvSave
  <2>4. CASE \E s \in Savers : rename_snapshot(s)
    BY <2>1, <2>4, SnapInvRename
  <2>5. CASE SnapCrash
    BY <2>1, <2>5, SnapInvCrash
  <2>6. CASE SnapTick
    BY <2>1, <2>6, SnapInvTick
  <2>7. CASE UNCHANGED snapVars
    BY <2>1, <2>7 DEF snapVars, SnapInv
  <2> QED
    BY <2>1, <2>2, <2>3, <2>4, <2>5, <2>6, <2>7 DEF SnapNext
<1>3. SnapInv => SnapSound
  BY SnapInvSound
<1> QED
  BY <1>1, <1>2, <1>3, PTL DEF SnapSpec
=============================================================================
