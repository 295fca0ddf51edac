-------------------------- MODULE DaemonLiveProofs --------------------------
(***************************************************************************)
(* Proofs about what the daemon does in the background, for any number of  *)
(* updates, workspaces, files and agents and whatever the limits and the   *)
(* delays: an update is sent a bounded number of times and never too soon  *)
(* (DaemonOutbox); the documents agree with the files that were last read  *)
(* (DaemonFiles); and what the daemon says of agents, their sessions and   *)
(* their leases is true (DaemonAgents).                                    *)
(***************************************************************************)
EXTENDS DaemonOutbox, DaemonFiles, DaemonAgents, FiniteSetTheorems, WellFoundedInduction, TLAPS

-----------------------------------------------------------------------------
(* The queue for the relay.  That an update waits long enough between two  *)
(* sends is a matter of two clocks, the row's wait and the history's since; *)
(* the invariant relates them, and the row's retry to the number of sends. *)

ObRow == [ws : ObWorkspaces, state : {"pending", "sent", "acked", "dead"}, retry : Nat, wait : Nat]

\* The rows of w that count for the limit, in a table r.
ObOpen(r, w) == {i \in DOMAIN r : r[i].ws = w /\ r[i].state \in {"pending", "sent"}}

ObTypeOK ==
    /\ rows \in Seq(ObRow)
    /\ sends \in Seq(Nat)
    /\ since \in Seq(Nat)
    /\ Len(sends) = Len(rows)
    /\ Len(since) = Len(rows)

\* What the retries say of the sends, and the wait of the time since.
ObRowInv(row, n, t) ==
    /\ row.state = "pending" =>
          /\ n = row.retry
          /\ row.retry < MAX_ATTEMPTS
          /\ row.retry > 0 => t + row.wait >= backoff_delay(row.retry - 1)
    /\ row.state = "sent" => n = row.retry + 1 /\ n <= MAX_ATTEMPTS
    /\ row.state # "pending" => row.wait = 0

ObClocks == \A i \in DOMAIN rows : ObRowInv(rows[i], sends[i], since[i])

ObLimited == \A w \in ObWorkspaces : Cardinality(ObOpen(rows, w)) <= MAX_PENDING_UPDATES

ObInv == ObTypeOK /\ ObClocks /\ ObLimited

LEMMA ObPower == ASSUME NEW k \in 0..7 PROVE 2^k \in Nat
<1>1. CASE k = 0
  BY <1>1
<1>2. CASE k = 1
  BY <1>2
<1>3. CASE k = 2
  BY <1>3
<1>4. CASE k = 3
  BY <1>4
<1>5. CASE k = 4
  BY <1>5
<1>6. CASE k = 5
  BY <1>6
<1>7. CASE k = 6
  BY <1>7
<1>8. CASE k = 7
  BY <1>8
<1> QED
  BY <1>1, <1>2, <1>3, <1>4, <1>5, <1>6, <1>7, <1>8

\* A delay is a time, and none is longer than the longest.
LEMMA ObDelay == ASSUME NEW a \in Nat PROVE backoff_delay(a) \in Nat /\ backoff_delay(a) <= MAX_DELAY
<1>1. Lesser(a, 7) \in 0..7
  BY DEF Lesser
<1> DEFINE p == 2^Lesser(a, 7)
<1>2. p \in Nat
  BY <1>1, ObPower
<1> HIDE DEF p
<1>3. BASE_DELAY * p \in Nat
  BY <1>2, ObAssumption
<1> DEFINE q == BASE_DELAY * p
<1>4. backoff_delay(a) = Lesser(q, MAX_DELAY)
  BY DEF backoff_delay, p
<1> HIDE DEF q
<1>5. q \in Nat
  BY <1>3 DEF q
<1> QED
  BY <1>4, <1>5, ObAssumption DEF Lesser

\* A set of numbers that has a member has a least one.
LEMMA LeastMember ==
    ASSUME NEW S \in SUBSET Nat, S # {} PROVE \E x \in S : \A y \in S : x <= y
<1> DEFINE R == {ss \in Nat \X Nat : ss[1] < ss[2]}
<1>1. IsWellFoundedOn(R, Nat)
  BY NatLessThanWellFounded DEF OpToRel
<1>2. \A m, n \in Nat : <<m, n>> \notin R => n <= m
  OBVIOUS
<1> HIDE DEF R
<1>3. PICK x \in S : \A y \in S : ~(<<y, x>> \in R)
  BY <1>1, WFMin
<1>4. \A y \in S : x <= y
  BY <1>2, <1>3
<1> QED
  BY <1>4

LEMMA FunctionIsSequence ==
    ASSUME NEW S, NEW n \in Nat, NEW f \in [1..n -> S] PROVE f \in Seq(S) /\ Len(f) = n
OBVIOUS

\* What is open is finite, and fewer rows that are open are no more of them.
LEMMA ObOpenFinite ==
    ASSUME NEW r \in Seq(ObRow), NEW w
    PROVE  IsFiniteSet(ObOpen(r, w)) /\ Cardinality(ObOpen(r, w)) \in Nat
<1>1. DOMAIN r = 1..Len(r) /\ Len(r) \in Nat
  OBVIOUS
<1>2. IsFiniteSet(1..Len(r))
  BY <1>1, FS_Interval
<1>3. ObOpen(r, w) \in SUBSET (1..Len(r))
  BY <1>1 DEF ObOpen
<1>4. IsFiniteSet(ObOpen(r, w))
  BY <1>2, <1>3, FS_Subset
<1> QED
  BY <1>4, FS_CardinalityType

LEMMA ObOpenFewer ==
    ASSUME NEW r \in Seq(ObRow), NEW s \in Seq(ObRow), NEW w, Len(s) = Len(r),
           Cardinality(ObOpen(r, w)) <= MAX_PENDING_UPDATES,
           \A i \in DOMAIN s : s[i].ws = r[i].ws
                /\ (s[i].state \in {"pending", "sent"} => r[i].state \in {"pending", "sent"})
    PROVE  Cardinality(ObOpen(s, w)) <= MAX_PENDING_UPDATES
<1>1. DOMAIN r = DOMAIN s
  OBVIOUS
<1>2. ObOpen(s, w) \in SUBSET ObOpen(r, w)
  BY <1>1 DEF ObOpen
<1>3. Cardinality(ObOpen(s, w)) <= Cardinality(ObOpen(r, w))
  BY <1>2, ObOpenFinite, FS_Subset
<1> QED
  BY <1>3, ObOpenFinite, ObAssumption

LEMMA ObInitInv == ObInit => ObInv
<1> SUFFICES ASSUME ObInit PROVE ObInv
  OBVIOUS
<1>1. rows = <<>> /\ sends = <<>> /\ since = <<>>
  BY DEF ObInit
<1>2. ObTypeOK
  BY <1>1 DEF ObTypeOK
<1>3. ObClocks
  BY <1>1 DEF ObClocks
<1>4. ASSUME NEW w \in ObWorkspaces PROVE Cardinality(ObOpen(rows, w)) <= MAX_PENDING_UPDATES
  <2>1. ObOpen(rows, w) = {}
    BY <1>1 DEF ObOpen
  <2>2. Cardinality(ObOpen(rows, w)) = 0
    BY <2>1, FS_EmptySet
  <2> QED
    BY <2>2, ObAssumption
<1> QED
  BY <1>2, <1>3, <1>4 DEF ObInv, ObLimited

\* Where the row i of the table becomes another that the history agrees with, and does not open,
\* everything that the invariant says of the rows is kept.
LEMMA ObRowStep ==
    ASSUME ObInv, NEW i \in DOMAIN rows, NEW r \in ObRow, NEW n \in Nat, NEW t \in Nat,
           r.ws = rows[i].ws,
           r.state \in {"pending", "sent"} => rows[i].state \in {"pending", "sent"},
           ObRowInv(r, n, t),
           rows' = [rows EXCEPT ![i] = r],
           sends' = [sends EXCEPT ![i] = n],
           since' = [since EXCEPT ![i] = t]
    PROVE  ObInv'
<1>1. rows' \in Seq(ObRow) /\ Len(rows') = Len(rows) /\ DOMAIN rows' = DOMAIN rows
  BY DEF ObInv, ObTypeOK
<1>2. sends' \in Seq(Nat) /\ Len(sends') = Len(sends) /\ since' \in Seq(Nat) /\ Len(since') = Len(since)
  BY DEF ObInv, ObTypeOK
<1>3. ObTypeOK'
  BY <1>1, <1>2 DEF ObInv, ObTypeOK
<1>4. ASSUME NEW j \in DOMAIN rows' PROVE ObRowInv(rows'[j], sends'[j], since'[j])
  <2>1. j \in DOMAIN rows /\ j \in DOMAIN sends /\ j \in DOMAIN since
    BY <1>1 DEF ObInv, ObTypeOK
  <2>2. CASE j = i
    <3>1. rows'[j] = r /\ sends'[j] = n /\ since'[j] = t
      BY <2>1, <2>2
    <3> QED
      BY <3>1
  <2>3. CASE j # i
    <3>1. rows'[j] = rows[j] /\ sends'[j] = sends[j] /\ since'[j] = since[j]
      BY <2>1, <2>3
    <3> QED
      BY <2>1, <3>1 DEF ObInv, ObClocks
  <2> QED
    BY <2>2, <2>3
<1>5. ASSUME NEW w \in ObWorkspaces PROVE Cardinality(ObOpen(rows', w)) <= MAX_PENDING_UPDATES
  <2>1. \A j \in DOMAIN rows' : /\ rows'[j].ws = rows[j].ws
                                /\ rows'[j].state \in {"pending", "sent"} => rows[j].state \in {"pending", "sent"}
    <3>1. \A j \in DOMAIN rows' : rows'[j] = IF j = i THEN r ELSE rows[j]
      BY <1>1 DEF ObInv, ObTypeOK
    <3> QED
      BY <3>1
  <2> QED
    BY <1>1, <1>5, <2>1, ObOpenFewer DEF ObInv, ObTypeOK, ObLimited
<1> QED
  BY <1>3, <1>4, <1>5 DEF ObInv, ObClocks, ObLimited

\* What a step may do to the sends and to what is settled.
ObStep ==
    /\ \A i \in DOMAIN sends : sends'[i] > sends[i] =>
          /\ sends'[i] <= MAX_ATTEMPTS
          /\ sends[i] > 0 => since[i] >= backoff_delay(sends[i] - 1)
    /\ \A i \in DOMAIN rows : rows[i].state \in {"acked", "dead"} => rows'[i] = rows[i]

LEMMA ObEnqueueInv == ASSUME ObInv, NEW w \in ObWorkspaces, enqueue(w) PROVE ObInv' /\ ObStep
<1> DEFINE row == [ws |-> w, state |-> "pending", retry |-> 0, wait |-> 0]
<1>1. rows \in Seq(ObRow) /\ sends \in Seq(Nat) /\ since \in Seq(Nat)
      /\ Len(sends) = Len(rows) /\ Len(since) = Len(rows)
  BY DEF ObInv, ObTypeOK
<1>2. row \in ObRow /\ row.ws = w /\ row.state = "pending" /\ row.retry = 0
  BY DEF ObRow
<1>3. rows' = Append(rows, row) /\ sends' = Append(sends, 0) /\ since' = Append(since, 0)
  BY DEF enqueue
<1> HIDE DEF row
<1> DEFINE k == Len(rows) + 1
<1>4. /\ DOMAIN rows = 1..Len(rows) /\ DOMAIN sends = 1..Len(rows) /\ DOMAIN since = 1..Len(rows)
      /\ Len(rows) \in Nat
      /\ rows' \in Seq(ObRow) /\ sends' \in Seq(Nat) /\ since' \in Seq(Nat)
      /\ Len(rows') = k /\ Len(sends') = k /\ Len(since') = k
      /\ DOMAIN rows' = 1..k
  BY <1>1, <1>2, <1>3
<1>5. /\ rows'[k] = row /\ sends'[k] = 0 /\ since'[k] = 0
      /\ \A i \in DOMAIN rows : rows'[i] = rows[i] /\ sends'[i] = sends[i] /\ since'[i] = since[i]
  <2>1. k \in 1..k /\ (\A i \in 1..Len(rows) : i \in 1..k /\ i # k)
    BY <1>4
  <2>2. rows'[k] = row /\ sends'[k] = 0 /\ since'[k] = 0
    BY <1>1, <1>2, <1>3, <1>4
  <2>3. \A i \in 1..Len(rows) : rows'[i] = rows[i] /\ sends'[i] = sends[i] /\ since'[i] = since[i]
    BY <1>1, <1>2, <1>3, <1>4, <2>1
  <2> QED
    BY <1>4, <2>2, <2>3
<1>6. ObTypeOK'
  BY <1>4 DEF ObTypeOK
<1>7. ASSUME NEW i \in DOMAIN rows' PROVE ObRowInv(rows'[i], sends'[i], since'[i])
  <2>1. CASE i = k
    BY <1>2, <1>5, <2>1, ObAssumption DEF ObRowInv
  <2>2. CASE i # k
    <3>1. i \in DOMAIN rows
      BY <1>4, <2>2
    <3> QED
      BY <1>5, <3>1 DEF ObInv, ObClocks
  <2> QED
    BY <2>1, <2>2
<1>8. ASSUME NEW v \in ObWorkspaces PROVE Cardinality(ObOpen(rows', v)) <= MAX_PENDING_UPDATES
  <2>1. IsFiniteSet(ObOpen(rows, v)) /\ Cardinality(ObOpen(rows, v)) \in Nat
        /\ Cardinality(ObOpen(rows, v)) <= MAX_PENDING_UPDATES
    BY <1>1, ObOpenFinite DEF ObInv, ObLimited
  <2>2. CASE v = w
    <3>1. ObOpen(rows', v) = ObOpen(rows, v) \cup {k}
      BY <1>2, <1>4, <1>5, <2>2 DEF ObOpen
    <3>2. k \notin ObOpen(rows, v)
      BY <1>4 DEF ObOpen
    <3>3. Cardinality(ObOpen(rows', v)) = Cardinality(ObOpen(rows, v)) + 1
      BY <2>1, <3>1, <3>2, FS_AddElement
    <3>4. ~(Cardinality(ObOpen(rows, v)) >= MAX_PENDING_UPDATES)
      BY <2>2 DEF enqueue, check_backpressure, ObOpen
    <3> QED
      BY <2>1, <3>3, <3>4, ObAssumption
  <2>3. CASE v # w
    <3>1. ObOpen(rows', v) = ObOpen(rows, v)
      BY <1>2, <1>4, <1>5, <2>3 DEF ObOpen
    <3> QED
      BY <2>1, <3>1
  <2> QED
    BY <2>2, <2>3
<1>9. ObStep
  BY <1>1, <1>4, <1>5 DEF ObStep
<1> QED
  BY <1>6, <1>7, <1>8, <1>9 DEF ObInv, ObClocks, ObLimited

LEMMA ObSentInv == ASSUME ObInv, mark_sent PROVE ObInv' /\ ObStep
<1>1. rows \in Seq(ObRow) /\ sends \in Seq(Nat) /\ since \in Seq(Nat)
      /\ DOMAIN rows = 1..Len(rows) /\ DOMAIN sends = DOMAIN rows /\ DOMAIN since = DOMAIN rows
  BY DEF ObInv, ObTypeOK
<1> DEFINE i == CHOOSE x \in ready_to_send : \A y \in ready_to_send : x <= y
<1>2. i \in ready_to_send
  <2>1. ready_to_send \in SUBSET Nat
    BY <1>1 DEF ready_to_send
  <2>2. ready_to_send # {}
    BY DEF mark_sent
  <2> QED
    BY <2>1, <2>2, LeastMember
<1>3. rows' = [rows EXCEPT ![i].state = "sent"] /\ sends' = [sends EXCEPT ![i] = @ + 1]
      /\ since' = [since EXCEPT ![i] = 0]
  BY DEF mark_sent
<1> HIDE DEF i
<1>4. i \in DOMAIN rows /\ rows[i].state = "pending" /\ rows[i].wait = 0
  BY <1>2 DEF ready_to_send
<1>5. rows[i] \in ObRow /\ sends[i] \in Nat /\ since[i] \in Nat
  BY <1>1, <1>4
<1> DEFINE r == [rows[i] EXCEPT !.state = "sent"]
           n == sends[i] + 1
<1>6. /\ r \in ObRow /\ r.ws = rows[i].ws /\ r.state = "sent"
      /\ r.retry = rows[i].retry /\ r.wait = rows[i].wait
  BY <1>5 DEF ObRow
<1>7. n \in Nat
  BY <1>5
<1>8. rows' = [rows EXCEPT ![i] = r] /\ sends' = [sends EXCEPT ![i] = n]
  BY <1>1, <1>3, <1>4
<1>9. /\ sends[i] = rows[i].retry /\ rows[i].retry < MAX_ATTEMPTS
      /\ rows[i].retry > 0 => since[i] + rows[i].wait >= backoff_delay(rows[i].retry - 1)
  BY <1>4 DEF ObInv, ObClocks, ObRowInv
<1> HIDE DEF r
<1>10. ObRowInv(r, n, 0)
  <2>1. n <= MAX_ATTEMPTS
    BY <1>5, <1>9, ObAssumption
  <2> QED
    BY <1>4, <1>6, <1>9, <2>1 DEF ObRowInv
<1>11. ObStep
  <2>1. ASSUME NEW j \in DOMAIN sends, sends'[j] > sends[j]
        PROVE  sends'[j] <= MAX_ATTEMPTS /\ (sends[j] > 0 => since[j] >= backoff_delay(sends[j] - 1))
    <3>1. j = i
      BY <1>1, <1>8, <2>1
    <3>2. sends'[j] = n
      BY <1>1, <1>4, <1>8, <3>1
    <3>3. n <= MAX_ATTEMPTS
      BY <1>5, <1>9, ObAssumption
    <3>4. sends[i] > 0 => since[i] >= backoff_delay(sends[i] - 1)
      BY <1>4, <1>5, <1>9
    <3> QED
      BY <3>1, <3>2, <3>3, <3>4
  <2>2. \A j \in DOMAIN rows : rows[j].state \in {"acked", "dead"} => rows'[j] = rows[j]
    BY <1>1, <1>4, <1>8
  <2> QED
    BY <2>1, <2>2 DEF ObStep
<1> HIDE DEF n
<1>12. ObInv'
  <2>1. rows[i].state \in {"pending", "sent"} /\ 0 \in Nat
    BY <1>4
  <2>2. since' = [since EXCEPT ![i] = 0]
    BY <1>3
  <2> QED
    BY <1>4, <1>6, <1>7, <1>8, <1>10, <2>1, <2>2, ObRowStep
<1> QED
  BY <1>11, <1>12

\* A report changes its row alone, and one that is not sent not at all.
LEMMA ObReportInv ==
    ASSUME ObInv, NEW i \in DOMAIN rows, NEW r,
           r \in {Acked(rows[i]), Failed(rows[i])},
           rows' = [rows EXCEPT ![i] = r], UNCHANGED <<sends, since>>
    PROVE  ObInv' /\ ObStep
<1>1. rows \in Seq(ObRow) /\ sends \in Seq(Nat) /\ since \in Seq(Nat)
      /\ DOMAIN rows = 1..Len(rows) /\ DOMAIN sends = DOMAIN rows /\ DOMAIN since = DOMAIN rows
  BY DEF ObInv, ObTypeOK
<1>2. rows[i] \in ObRow /\ sends[i] \in Nat /\ since[i] \in Nat /\ ObRowInv(rows[i], sends[i], since[i])
  BY <1>1 DEF ObInv, ObClocks
<1>3. sends' = [sends EXCEPT ![i] = sends[i]] /\ since' = [since EXCEPT ![i] = since[i]]
  BY <1>1
<1> DEFINE k == rows[i].retry + 1
           d == backoff_delay(rows[i].retry)
<1>4. k \in Nat /\ k > 0 /\ k - 1 = rows[i].retry /\ rows[i].retry \in Nat
  BY <1>2 DEF ObRow
<1>5. d \in Nat
  BY <1>4, ObDelay
<1>6. /\ r \in ObRow /\ r.ws = rows[i].ws
      /\ r.state \in {"pending", "sent"} => rows[i].state \in {"pending", "sent"}
      /\ rows[i].state # "sent" => r = rows[i]
      /\ ObRowInv(r, sends[i], since[i])
  <2>1. CASE rows[i].state # "sent"
    <3>1. r = rows[i]
      BY <2>1 DEF Acked, Failed
    <3> QED
      BY <1>2, <3>1
  <2>2. CASE rows[i].state = "sent" /\ r = Acked(rows[i])
    <3>1. r = [rows[i] EXCEPT !.state = "acked"]
      BY <2>2 DEF Acked
    <3>2. r \in ObRow /\ r.ws = rows[i].ws /\ r.state = "acked" /\ r.wait = rows[i].wait
      BY <1>2, <3>1 DEF ObRow
    <3> QED
      BY <1>2, <2>2, <3>2 DEF ObRowInv
  <2>3. CASE rows[i].state = "sent" /\ r = Failed(rows[i]) /\ k >= MAX_ATTEMPTS
    <3>1. r = [rows[i] EXCEPT !.state = "dead", !.retry = k]
      BY <2>3 DEF Failed
    <3> HIDE DEF k
    <3>2. r \in ObRow /\ r.ws = rows[i].ws /\ r.state = "dead" /\ r.wait = rows[i].wait
      BY <1>2, <1>4, <3>1 DEF ObRow
    <3> QED
      BY <1>2, <2>3, <3>2 DEF ObRowInv
  <2>4. CASE rows[i].state = "sent" /\ r = Failed(rows[i]) /\ ~(k >= MAX_ATTEMPTS)
    <3>1. r = [rows[i] EXCEPT !.state = "pending", !.retry = k, !.wait = d]
      BY <2>4 DEF Failed
    <3>2. sends[i] = k
      BY <1>2, <2>4 DEF ObRowInv
    <3>3. d = backoff_delay(k - 1)
      BY <1>4
    <3> HIDE DEF k, d
    <3>4. r \in ObRow /\ r.ws = rows[i].ws /\ r.state = "pending" /\ r.retry = k /\ r.wait = d
      BY <1>2, <1>4, <1>5, <3>1 DEF ObRow
    <3>5. k < MAX_ATTEMPTS
      BY <1>4, <2>4, ObAssumption
    <3>6. since[i] + d >= d
      BY <1>2, <1>5
    <3> QED
      BY <1>2, <2>4, <3>2, <3>3, <3>4, <3>5, <3>6 DEF ObRowInv
  <2> QED
    BY <2>1, <2>2, <2>3, <2>4
<1>7. ObInv'
  BY <1>2, <1>3, <1>6, ObRowStep
<1>8. ObStep
  <2>1. \A j \in DOMAIN sends : ~(sends'[j] > sends[j])
    BY <1>1
  <2>2. \A j \in DOMAIN rows : rows[j].state \in {"acked", "dead"} => rows'[j] = rows[j]
    BY <1>1, <1>6
  <2> QED
    BY <2>1, <2>2 DEF ObStep
<1> QED
  BY <1>7, <1>8

LEMMA ObTickInv == ASSUME ObInv, ObTick PROVE ObInv' /\ ObStep
<1>1. rows \in Seq(ObRow) /\ sends \in Seq(Nat) /\ since \in Seq(Nat)
      /\ DOMAIN rows = 1..Len(rows) /\ DOMAIN sends = DOMAIN rows /\ DOMAIN since = DOMAIN rows
      /\ Len(rows) \in Nat /\ Len(sends) = Len(rows) /\ Len(since) = Len(rows)
  BY DEF ObInv, ObTypeOK
<1> DEFINE less(t) == IF t = 0 THEN 0 ELSE t - 1
           row(i) == [rows[i] EXCEPT !.wait = less(rows[i].wait)]
           time(i) == Lesser(since[i] + 1, MAX_DELAY)
<1>2. rows' = [i \in 1..Len(rows) |-> row(i)] /\ since' = [i \in 1..Len(rows) |-> time(i)]
      /\ sends' = sends
  BY <1>1 DEF ObTick
<1>3. ASSUME NEW i \in DOMAIN rows
      PROVE  /\ row(i) \in ObRow /\ row(i).ws = rows[i].ws /\ row(i).state = rows[i].state
             /\ row(i).retry = rows[i].retry /\ row(i).wait = less(rows[i].wait)
             /\ rows[i].wait = 0 => row(i) = rows[i]
             /\ rows[i].wait \in Nat /\ less(rows[i].wait) \in Nat
             /\ time(i) \in Nat /\ since[i] \in Nat
  <2>1. rows[i] \in ObRow /\ since[i] \in Nat
    BY <1>1
  <2>2. rows[i].wait \in Nat
    BY <2>1 DEF ObRow
  <2>3. less(rows[i].wait) \in Nat
    BY <2>2
  <2>4. time(i) \in Nat
    BY <2>1, ObAssumption DEF Lesser
  <2>5. rows[i].wait = 0 => less(rows[i].wait) = rows[i].wait
    BY <2>2
  <2> HIDE DEF less
  <2>6. /\ row(i) \in ObRow /\ row(i).ws = rows[i].ws /\ row(i).state = rows[i].state
        /\ row(i).retry = rows[i].retry /\ row(i).wait = less(rows[i].wait)
    BY <2>1, <2>3 DEF ObRow
  <2>7. rows[i].wait = 0 => row(i) = rows[i]
    BY <2>1, <2>5 DEF ObRow
  <2> QED
    BY <2>1, <2>2, <2>3, <2>4, <2>6, <2>7
<1>4. ASSUME NEW i \in DOMAIN rows PROVE ObRowInv(row(i), sends[i], time(i))
  <2>1. ObRowInv(rows[i], sends[i], since[i])
    BY DEF ObInv, ObClocks
  <2>2. rows[i].retry \in Nat
    <3>1. rows[i] \in ObRow
      BY <1>1
    <3> QED
      BY <3>1 DEF ObRow
  <2>3. ASSUME rows[i].state = "pending", rows[i].retry > 0
        PROVE  time(i) + less(rows[i].wait) >= backoff_delay(rows[i].retry - 1)
    <3>1. rows[i].retry - 1 \in Nat
      BY <2>2, <2>3
    <3> DEFINE b == backoff_delay(rows[i].retry - 1)
    <3>2. b \in Nat /\ b <= MAX_DELAY
      BY <3>1, ObDelay
    <3>3. since[i] + rows[i].wait >= b
      BY <2>1, <2>3 DEF ObRowInv
    <3> HIDE DEF b
    <3> DEFINE v == rows[i].wait
               u == since[i]
    <3>4. v \in Nat /\ u \in Nat /\ MAX_DELAY \in Nat
      BY <1>3, ObAssumption
    <3>5. time(i) >= b \/ time(i) = u + 1
      BY <3>2, <3>4, ObAssumption DEF Lesser
    <3>6. less(v) >= 0 /\ less(v) + 1 >= v /\ less(v) \in Nat /\ time(i) \in Nat
      BY <3>4 DEF Lesser
    <3>7. u + v >= b
      BY <3>3
    <3> HIDE DEF u, v, time, less
    <3>8. time(i) + less(v) >= b
      BY <3>2, <3>4, <3>5, <3>6, <3>7
    <3> QED
      BY <3>8 DEF b, v
  <2>4. rows[i].wait = 0 => less(rows[i].wait) = 0
    OBVIOUS
  <2>5. /\ row(i).state = rows[i].state /\ row(i).retry = rows[i].retry
        /\ row(i).wait = less(rows[i].wait)
    BY <1>3
  <2> HIDE DEF row, less, time
  <2> QED
    BY <2>1, <2>3, <2>4, <2>5 DEF ObRowInv
<1>5. ASSUME NEW i \in DOMAIN rows, rows[i].state \in {"acked", "dead"} PROVE row(i) = rows[i]
  <2>1. rows[i].wait = 0
    BY <1>5 DEF ObInv, ObClocks, ObRowInv
  <2> QED
    BY <1>3, <2>1
<1> HIDE DEF row, less, time
<1>6. /\ DOMAIN rows' = DOMAIN rows /\ DOMAIN since' = DOMAIN rows
      /\ \A i \in DOMAIN rows : rows'[i] = row(i) /\ since'[i] = time(i)
  BY <1>1, <1>2
<1>7. rows' \in Seq(ObRow) /\ since' \in Seq(Nat) /\ Len(rows') = Len(rows) /\ Len(since') = Len(rows)
  <2>1. rows' \in [1..Len(rows) -> ObRow] /\ since' \in [1..Len(rows) -> Nat]
    BY <1>1, <1>2, <1>3
  <2> QED
    BY <1>1, <2>1, FunctionIsSequence
<1>8. ObTypeOK'
  BY <1>1, <1>2, <1>7 DEF ObTypeOK
<1>9. ObClocks'
  BY <1>2, <1>4, <1>6 DEF ObClocks
<1>10. ObLimited'
  <2> SUFFICES ASSUME NEW w \in ObWorkspaces PROVE Cardinality(ObOpen(rows', w)) <= MAX_PENDING_UPDATES
    BY DEF ObLimited
  <2>1. \A j \in DOMAIN rows' : /\ rows'[j].ws = rows[j].ws
                                /\ rows'[j].state \in {"pending", "sent"} => rows[j].state \in {"pending", "sent"}
    BY <1>3, <1>6
  <2> QED
    BY <1>1, <1>7, <2>1, ObOpenFewer DEF ObInv, ObLimited
<1>11. ObStep
  <2>1. \A j \in DOMAIN sends : ~(sends'[j] > sends[j])
    BY <1>1, <1>2
  <2>2. \A j \in DOMAIN rows : rows[j].state \in {"acked", "dead"} => rows'[j] = rows[j]
    BY <1>5, <1>6
  <2> QED
    BY <2>1, <2>2 DEF ObStep
<1> QED
  BY <1>8, <1>9, <1>10, <1>11 DEF ObInv

LEMMA ObNextInv == ASSUME ObInv, [ObNext]_obVars PROVE ObInv' /\ ObStep
<1>1. ASSUME UNCHANGED <<rows, sends, since>> PROVE ObInv' /\ ObStep
  <2>1. ObInv'
    BY <1>1 DEF ObInv, ObTypeOK, ObClocks, ObLimited
  <2>2. \A i \in DOMAIN sends : ~(sends'[i] > sends[i])
    BY <1>1 DEF ObInv, ObTypeOK
  <2>3. ObStep
    BY <1>1, <2>2 DEF ObStep
  <2> QED
    BY <2>1, <2>3
<1>2. CASE UNCHANGED obVars
  BY <1>1, <1>2 DEF obVars
<1>3. CASE \E w \in ObWorkspaces : enqueue(w)
  BY <1>3, ObEnqueueInv
<1>4. CASE mark_sent
  BY <1>4, ObSentInv
<1>5. ASSUME NEW i \in DOMAIN rows, send_timeout(i) \/ mark_acked(i) \/ mark_failed(i)
      PROVE  ObInv' /\ ObStep
  <2>1. CASE send_timeout(i)
    BY <1>1, <2>1 DEF send_timeout
  <2>2. CASE mark_acked(i)
    <3>1. rows' = [rows EXCEPT ![i] = Acked(rows[i])] /\ UNCHANGED <<sends, since>>
      BY <2>2 DEF mark_acked
    <3> QED
      BY <3>1, ObReportInv
  <2>3. CASE mark_failed(i)
    <3>1. rows' = [rows EXCEPT ![i] = Failed(rows[i])] /\ UNCHANGED <<sends, since>>
      BY <2>3 DEF mark_failed
    <3> QED
      BY <3>1, ObReportInv
  <2> QED
    BY <1>5, <2>1, <2>2, <2>3
<1>6. CASE ObCrash
  BY <1>1, <1>6 DEF ObCrash
<1>7. CASE ObTick
  BY <1>7, ObTickInv
<1> QED
  BY <1>2, <1>3, <1>4, <1>5, <1>6, <1>7 DEF ObNext

\* mark_acked, mark_failed and ready_to_send: whatever answers come late, twice or not at all, an
\* update is sent MAX_ATTEMPTS times at most and never before the delay of backoff_delay is over,
\* what is acknowledged or given up stays so, and no workspace has more in the queue than the limit.
THEOREM ObSpacedHolds == ObSpec => ObSpaced
<1>1. ObInit => ObInv
  BY ObInitInv
<1>2. ObInv /\ [ObNext]_obVars => ObInv'
  BY ObNextInv
<1>3. ObInv /\ ObInv' /\ [ObNext]_obVars =>
      [/\ \A i \in DOMAIN sends : sends'[i] > sends[i] =>
             /\ sends'[i] <= MAX_ATTEMPTS
             /\ sends[i] > 0 => since[i] >= backoff_delay(sends[i] - 1)
       /\ \A i \in DOMAIN rows : rows[i].state \in {"acked", "dead"} => rows'[i] = rows[i]
       /\ \A w \in ObWorkspaces :
             Cardinality({i \in DOMAIN rows' : rows'[i].ws = w /\ rows'[i].state \in {"pending", "sent"}})
                <= MAX_PENDING_UPDATES]_obVars
  <2> SUFFICES ASSUME ObInv, ObInv', [ObNext]_obVars
               PROVE  /\ ObStep
                      /\ \A w \in ObWorkspaces : Cardinality(ObOpen(rows', w)) <= MAX_PENDING_UPDATES
    BY DEF ObStep, ObOpen
  <2> QED
    BY ObNextInv DEF ObInv, ObLimited
<1> QED
  BY <1>1, <1>2, <1>3, PTL DEF ObSpec, ObSpaced

-----------------------------------------------------------------------------
(* Files and documents.  While a save and a remote update are not under way *)
(* together, the invariant says what is on its way to the document, and     *)
(* that neither the pause nor the hash lets the pipeline drop it.           *)

FilesKinds == {"create", "modify", "remove"}

FilesEvents == [kind : FilesKinds, age : Nat]

FilesEdits == LocalEdits \cup RemoteEdits

FilesPipeSteps == [at : {"idle", "read", "diff", "hash"}, text : SUBSET FilesEdits]

FilesRemoteSteps == [at : {"idle", "compare", "write", "hash"}, text : SUBSET FilesEdits]

FilesTodo == [local : SUBSET LocalEdits, remote : SUBSET RemoteEdits, removals : Int]

FilesTypeOK ==
    /\ doc \in SUBSET FilesEdits
    /\ disk = NoFile \/ disk \in SUBSET FilesEdits
    /\ storedHash \in SUBSET (FilesEdits \cup {"no hash"})
    /\ raw \in Seq(FilesKinds)
    /\ debounced \in Seq(FilesEvents)
    /\ Len(debounced) <= 1
    /\ pipe \in FilesPipeSteps
    /\ remote \in FilesRemoteSteps
    /\ pipe.at = "idle" => pipe = Idle
    /\ remote.at = "idle" => remote = Idle
    /\ todo \in FilesTodo
    /\ pausedFor \in Nat
    /\ overlap \in BOOLEAN

\* The edits still to be made are in no text.
FilesFresh ==
    /\ \A e \in todo.local : e \notin doc /\ e \notin storedHash /\ e \notin disk
                           /\ e \notin pipe.text /\ e \notin remote.text
    /\ remote.at # "idle" => remote.text # {}

\* The last event is not of a removal while there is a file.
FilesLastKind ==
    disk # NoFile =>
      /\ raw # <<>> => raw[Len(raw)] # "remove"
      /\ raw = <<>> /\ debounced # <<>> => debounced[1].kind # "remove"

\* Before it is written, a remote update has the pipeline to itself.
FilesRemote ==
    /\ remote.at \in {"compare", "write"} => PipelineQuiet /\ remote.text = doc
    /\ remote.at = "hash" =>
          /\ doc = disk /\ remote.text = disk
          /\ pipe.at \in {"diff", "hash"} => pipe.text = disk
    /\ pausedFor > 0 => pipe = Idle

\* A file that the document is behind is still to be read, and its hash is not known.
FilesPending ==
    LET settled == remote.at \in {"idle", "hash"}
    IN  /\ settled /\ disk = storedHash => doc = disk
        /\ settled /\ pausedFor > 0 => doc = disk
        /\ pipe.at = "diff" /\ disk = storedHash => pipe.text = disk
        /\ pipe.at = "diff" /\ pipe.text # disk => raw # <<>>
        /\ pipe.at = "hash" => pipe.text = doc
        /\ settled /\ disk # NoFile /\ doc # disk =>
              raw # <<>> \/ debounced # <<>> \/ pipe.at = "read" \/ pipe.at = "diff"

FilesInv == FilesTypeOK /\ FilesFresh /\ FilesLastKind /\ (~overlap => FilesRemote /\ FilesPending)

LEMMA FilesInitInv == FilesInit => FilesInv
<1> SUFFICES ASSUME FilesInit PROVE FilesInv
  OBVIOUS
<1>1. FilesTypeOK
  <2>1. Idle \in FilesPipeSteps /\ Idle \in FilesRemoteSteps /\ Idle.at = "idle"
    BY DEF Idle, FilesPipeSteps, FilesRemoteSteps
  <2>2. todo \in FilesTodo
    <3>1. MaxRemovals \in Int
      BY FilesBoundsAssumption
    <3> QED
      BY <3>1 DEF FilesInit, FilesTodo
  <2>3. storedHash \in SUBSET (FilesEdits \cup {"no hash"}) /\ doc \in SUBSET FilesEdits /\ disk \in SUBSET FilesEdits
    BY DEF FilesInit
  <2>4. <<>> \in Seq(FilesKinds) /\ <<>> \in Seq(FilesEvents) /\ Len(<<>>) <= 1
    OBVIOUS
  <2> QED
    BY <2>1, <2>2, <2>3, <2>4 DEF FilesInit, FilesTypeOK
<1>2. FilesFresh
  BY FilesEditsAssumption DEF FilesInit, FilesFresh, Idle
<1>3. FilesLastKind
  BY DEF FilesInit, FilesLastKind
<1>4. FilesRemote /\ FilesPending
  BY DEF FilesInit, FilesRemote, FilesPending, Idle
<1> QED
  BY <1>1, <1>2, <1>3, <1>4 DEF FilesInv

\* An event that is received is the last.
LEMMA FilesAppended ==
    ASSUME NEW k \in FilesKinds, raw \in Seq(FilesKinds), raw' = Append(raw, k)
    PROVE  raw' \in Seq(FilesKinds) /\ raw' # <<>> /\ raw'[Len(raw')] = k
<1>1. raw' \in Seq(FilesKinds) /\ Len(raw') = Len(raw) + 1 /\ Len(raw) \in Nat /\ raw'[Len(raw) + 1] = k
  OBVIOUS
<1>2. raw' # <<>>
  BY <1>1
<1> QED
  BY <1>1, <1>2

LEMMA FilesSaveFileInv == ASSUME FilesInv, NEW e \in LocalEdits, save_file(e) PROVE FilesInv'
<1>1. todo' \in FilesTodo /\ todo'.local = todo.local \ {e} /\ e \in todo.local
  BY DEF FilesInv, FilesTypeOK, FilesTodo, save_file
<1>2. raw' \in Seq(FilesKinds) /\ raw' # <<>> /\ raw'[Len(raw')] # "remove"
  <2> DEFINE k == IF disk = NoFile THEN "create" ELSE "modify"
  <2>1. k \in FilesKinds /\ k # "remove" /\ raw' = Append(raw, k) /\ raw \in Seq(FilesKinds)
    BY DEF FilesInv, FilesTypeOK, FilesKinds, save_file, translate_event
  <2> HIDE DEF k
  <2> QED
    BY <2>1, FilesAppended
<1>3. /\ disk' \in SUBSET FilesEdits /\ disk' # NoFile /\ e \in disk'
      /\ \A x \in disk' : x = e \/ x \in disk
  BY FilesEditsAssumption DEF FilesInv, FilesTypeOK, FilesEdits, NoFile, save_file
<1>4. UNCHANGED <<doc, storedHash, debounced, pipe, remote, pausedFor>>
  BY DEF save_file
<1>5. overlap' \in BOOLEAN /\ (~overlap' => ~overlap /\ ~(pausedFor > 0) /\ remote = Idle)
  BY DEF FilesInv, save_file, is_paused
<1>6. FilesTypeOK'
  BY <1>1, <1>2, <1>3, <1>4, <1>5 DEF FilesInv, FilesTypeOK
<1>7. FilesFresh'
  BY <1>1, <1>2, <1>3, <1>4, <1>5 DEF FilesInv, FilesFresh
<1>8. FilesLastKind'
  BY <1>1, <1>2, <1>3, <1>4, <1>5 DEF FilesInv, FilesLastKind
<1>9. ASSUME ~overlap' PROVE FilesRemote'
  BY <1>4, <1>5, <1>9 DEF FilesRemote, Idle
<1>10. ASSUME ~overlap' PROVE FilesPending'
  BY <1>1, <1>2, <1>3, <1>4, <1>5, <1>10 DEF FilesInv, FilesFresh, FilesPending
<1> QED
  BY <1>6, <1>7, <1>8, <1>9, <1>10 DEF FilesInv

LEMMA FilesRemoveFileInv == ASSUME FilesInv, remove_file PROVE FilesInv'
<1>1. todo' \in FilesTodo /\ todo'.local = todo.local
  <2> DEFINE r == todo.removals - 1
  <2>1. todo \in FilesTodo /\ todo.removals \in Int
    BY DEF FilesInv, FilesTypeOK, FilesTodo
  <2>2. r \in Int
    BY <2>1
  <2>3. todo' = [todo EXCEPT !.removals = r]
    BY DEF remove_file
  <2> HIDE DEF r
  <2> QED
    BY <2>1, <2>2, <2>3 DEF FilesTodo
<1>2. raw' \in Seq(FilesKinds) /\ raw' # <<>>
  BY FilesAppended DEF FilesInv, FilesTypeOK, FilesKinds, remove_file, translate_event
<1>3. disk' = NoFile /\ UNCHANGED <<doc, storedHash, debounced, pipe, remote, pausedFor>>
  BY DEF remove_file
<1>4. overlap' \in BOOLEAN /\ (~overlap' => ~overlap /\ ~(pausedFor > 0) /\ remote = Idle)
  BY DEF FilesInv, remove_file, is_paused
<1>5. FilesTypeOK'
  BY <1>1, <1>2, <1>3, <1>4 DEF FilesInv, FilesTypeOK
<1>6. FilesFresh'
  BY <1>1, <1>2, <1>3, <1>4, FilesEditsAssumption DEF FilesInv, FilesFresh, NoFile, FilesTodo
<1>7. FilesLastKind'
  BY <1>1, <1>2, <1>3, <1>4 DEF FilesInv, FilesLastKind
<1>8. ASSUME ~overlap' PROVE FilesRemote'
  BY <1>3, <1>4, <1>8 DEF FilesRemote, Idle
<1>9. ASSUME ~overlap' PROVE FilesPending'
  BY <1>1, <1>2, <1>3, <1>4, <1>9, FilesEditsAssumption DEF FilesInv, FilesTypeOK, FilesPending, FilesEdits, NoFile
<1> QED
  BY <1>5, <1>6, <1>7, <1>8, <1>9 DEF FilesInv

LEMMA FilesDebouncerPushInv == ASSUME FilesInv, debouncer_push PROVE FilesInv'
<1>1. /\ raw \in Seq(FilesKinds) /\ raw # <<>> /\ Head(raw) = raw[1] /\ Head(raw) \in FilesKinds
      /\ raw' = Tail(raw) /\ raw' \in Seq(FilesKinds)
      /\ raw' # <<>> => raw'[Len(raw')] = raw[Len(raw)]
      /\ raw' = <<>> => raw[Len(raw)] = Head(raw)
  <2>1. raw \in Seq(FilesKinds) /\ raw # <<>> /\ raw' = Tail(raw)
    BY DEF FilesInv, FilesTypeOK, debouncer_push
  <2>2. /\ Len(raw) \in Nat /\ Len(raw) > 0 /\ Len(raw') = Len(raw) - 1 /\ raw' \in Seq(FilesKinds)
        /\ \A n \in 1..Len(raw') : raw'[n] = raw[n + 1]
        /\ Head(raw) = raw[1] /\ Head(raw) \in FilesKinds
    BY <2>1
  <2>3. raw' # <<>> => raw'[Len(raw')] = raw[Len(raw)]
    BY <2>2
  <2>4. ASSUME raw' = <<>> PROVE raw[Len(raw)] = Head(raw)
    <3>1. Len(raw') = 0
      BY <2>4
    <3>2. Len(raw) = 1
      BY <2>2, <3>1 DEF FilesEvents
    <3> QED
      BY <2>2, <3>2
  <2> QED
    BY <2>1, <2>2, <2>3, <2>4
<1>2. /\ debounced' \in Seq(FilesEvents) /\ Len(debounced') <= 1
      /\ debounced' # <<>> /\ debounced'[1].kind = Head(raw)
  BY <1>1 DEF debouncer_push, FilesEvents
<1>3. pipe = Idle /\ UNCHANGED <<disk, doc, storedHash, pipe, remote, pausedFor, todo, overlap>>
  BY DEF debouncer_push
<1>4. FilesTypeOK'
  BY <1>1, <1>2, <1>3 DEF FilesInv, FilesTypeOK
<1>5. FilesFresh'
  BY <1>1, <1>2, <1>3 DEF FilesInv, FilesFresh
<1>6. FilesLastKind'
  BY <1>1, <1>2, <1>3 DEF FilesInv, FilesLastKind
<1>7. ASSUME ~overlap' PROVE FilesRemote'
  BY <1>1, <1>2, <1>3, <1>7 DEF FilesInv, FilesRemote, PipelineQuiet
<1>8. ASSUME ~overlap' PROVE FilesPending'
  BY <1>1, <1>2, <1>3, <1>8 DEF FilesInv, FilesPending, Idle
<1> QED
  BY <1>4, <1>5, <1>6, <1>7, <1>8 DEF FilesInv

LEMMA FilesDrainReadyInv == ASSUME FilesInv, drain_ready PROVE FilesInv'
<1>1. debounced' = <<>> /\ debounced # <<>> /\ pipe = Idle /\ UNCHANGED <<disk, doc, storedHash, raw, remote, pausedFor, todo, overlap>>
  BY DEF drain_ready
<1>2. /\ debounced[1].kind = "remove" \/ pausedFor > 0 => pipe' = Idle
      /\ ~(debounced[1].kind = "remove" \/ pausedFor > 0) => pipe' = [at |-> "read", text |-> {}]
  BY DEF drain_ready, is_paused
<1>3. pipe' \in FilesPipeSteps /\ (pipe'.at = "idle" => pipe' = Idle) /\ pipe'.at \in {"idle", "read"} /\ pipe'.text = {}
  BY <1>2 DEF Idle, FilesPipeSteps
<1>4. debounced' \in Seq(FilesEvents) /\ Len(debounced') <= 1
  BY <1>1
<1>5. FilesTypeOK'
  BY <1>1, <1>2, <1>3, <1>4 DEF FilesInv, FilesTypeOK
<1>6. FilesFresh'
  BY <1>1, <1>2, <1>3, <1>4 DEF FilesInv, FilesFresh
<1>7. FilesLastKind'
  BY <1>1, <1>2, <1>3, <1>4 DEF FilesInv, FilesLastKind
<1>8. ASSUME ~overlap' PROVE FilesRemote'
  BY <1>1, <1>2, <1>3, <1>4, <1>8 DEF FilesInv, FilesRemote, PipelineQuiet
<1>9. ASSUME ~overlap' PROVE FilesPending'
  BY <1>1, <1>2, <1>3, <1>9 DEF FilesInv, FilesLastKind, FilesPending
<1> QED
  BY <1>5, <1>6, <1>7, <1>8, <1>9 DEF FilesInv

LEMMA FilesReadContentInv == ASSUME FilesInv, read_content PROVE FilesInv'
<1>1. pipe.at = "read" /\ UNCHANGED <<disk, doc, storedHash, raw, debounced, remote, pausedFor, todo, overlap>>
  BY DEF read_content
<1>2. /\ disk = NoFile \/ disk = storedHash => pipe' = Idle
      /\ ~(disk = NoFile \/ disk = storedHash) => pipe' = [at |-> "diff", text |-> disk]
  BY DEF read_content
<1>3. pipe' \in FilesPipeSteps /\ (pipe'.at = "idle" => pipe' = Idle) /\ pipe'.at \in {"idle", "diff"}
  <2>1. CASE disk = NoFile \/ disk = storedHash
    BY <1>2, <2>1 DEF FilesPipeSteps, Idle
  <2>2. CASE ~(disk = NoFile \/ disk = storedHash)
    <3>1. disk \in SUBSET FilesEdits
      BY <2>2 DEF FilesInv, FilesTypeOK
    <3> QED
      BY <1>2, <2>2, <3>1 DEF FilesPipeSteps
  <2> QED
    BY <2>1, <2>2
<1>4. /\ pipe'.at = "idle" => pipe'.text = {} /\ (disk = NoFile \/ disk = storedHash)
      /\ pipe'.at = "diff" => pipe'.text = disk /\ disk # storedHash /\ disk # NoFile
  BY <1>2 DEF Idle
<1>5. FilesTypeOK'
  BY <1>1, <1>2, <1>3, <1>4 DEF FilesInv, FilesTypeOK
<1>6. FilesFresh'
  BY <1>1, <1>2, <1>3, <1>4 DEF FilesInv, FilesFresh
<1>7. FilesLastKind'
  BY <1>1, <1>2, <1>3, <1>4 DEF FilesInv, FilesLastKind
<1>8. ASSUME ~overlap' PROVE FilesRemote'
  BY <1>1, <1>3, <1>4, <1>8 DEF FilesInv, FilesRemote, PipelineQuiet, Idle
<1>9. ASSUME ~overlap' PROVE FilesPending'
  BY <1>1, <1>2, <1>3, <1>4, <1>9 DEF FilesInv, FilesPending
<1> QED
  BY <1>5, <1>6, <1>7, <1>8, <1>9 DEF FilesInv

LEMMA FilesApplyTextDiffInv == ASSUME FilesInv, apply_text_diff PROVE FilesInv'
<1>1. doc' = pipe.text /\ pipe.at = "diff" /\ UNCHANGED <<disk, storedHash, raw, debounced, remote, pausedFor, todo, overlap>>
  BY DEF apply_text_diff
<1>2. pipe' \in FilesPipeSteps /\ pipe'.at = "hash" /\ pipe'.text = pipe.text
  <2>1. pipe \in FilesPipeSteps
    BY DEF FilesInv, FilesTypeOK
  <2> QED
    BY <2>1 DEF apply_text_diff, FilesPipeSteps
<1>3. doc' \in SUBSET FilesEdits
  <2>1. pipe \in FilesPipeSteps
    BY DEF FilesInv, FilesTypeOK
  <2> QED
    BY <1>1, <2>1 DEF FilesPipeSteps
<1>4. FilesTypeOK'
  BY <1>1, <1>2, <1>3 DEF FilesInv, FilesTypeOK
<1>5. FilesFresh'
  BY <1>1, <1>2, <1>3 DEF FilesInv, FilesFresh
<1>6. FilesLastKind'
  BY <1>1, <1>2, <1>3 DEF FilesInv, FilesLastKind
<1>7. ASSUME ~overlap' PROVE FilesRemote'
  BY <1>1, <1>2, <1>7 DEF FilesInv, FilesRemote, PipelineQuiet, Idle
<1>8. ASSUME ~overlap' PROVE FilesPending'
  BY <1>1, <1>2, <1>3, <1>8 DEF FilesInv, FilesTypeOK, FilesRemote, FilesPending
<1> QED
  BY <1>4, <1>5, <1>6, <1>7, <1>8 DEF FilesInv

LEMMA FilesPipelineSetHashInv == ASSUME FilesInv, pipeline_set_hash PROVE FilesInv'
<1>1. FilesTypeOK'
  BY DEF FilesInv, FilesTypeOK, Idle, FilesPipeSteps, pipeline_set_hash
<1>2. FilesFresh'
  BY DEF FilesInv, FilesFresh, Idle, pipeline_set_hash
<1>3. FilesLastKind'
  BY DEF FilesInv, FilesLastKind, pipeline_set_hash
<1>4. ASSUME ~overlap' PROVE FilesRemote'
  BY <1>4 DEF FilesInv, FilesRemote, PipelineQuiet, Idle, pipeline_set_hash
<1>5. ASSUME ~overlap' PROVE FilesPending'
  BY <1>5 DEF FilesInv, FilesPending, Idle, pipeline_set_hash
<1> QED
  BY <1>1, <1>2, <1>3, <1>4, <1>5 DEF FilesInv

LEMMA FilesRemoteApplyInv == ASSUME FilesInv, NEW e \in RemoteEdits, remote_apply(e) PROVE FilesInv'
<1>1. todo' \in FilesTodo /\ todo'.local = todo.local
  BY DEF FilesInv, FilesTypeOK, FilesTodo, remote_apply
<1>2. remote = Idle /\ doc' = doc \cup {e} /\ UNCHANGED <<disk, storedHash, raw, debounced, pipe, pausedFor>>
  BY DEF remote_apply
<1>3. doc' \in SUBSET FilesEdits /\ e \notin todo.local
  <2>1. todo.local \in SUBSET LocalEdits /\ doc \in SUBSET FilesEdits
    BY DEF FilesInv, FilesTypeOK, FilesTodo
  <2> QED
    BY <1>2, <2>1, FilesEditsAssumption DEF FilesEdits
<1>4. remote' \in FilesRemoteSteps /\ remote'.at = "compare" /\ remote'.text = doc'
  BY <1>3 DEF remote_apply, FilesRemoteSteps
<1>5. overlap' \in BOOLEAN /\ (~overlap' => ~overlap /\ PipelineQuiet)
  BY DEF FilesInv, remote_apply
<1>6. FilesTypeOK'
  BY <1>1, <1>2, <1>3, <1>4, <1>5 DEF FilesInv, FilesTypeOK
<1>7. FilesFresh'
  BY <1>1, <1>2, <1>3, <1>4, <1>5 DEF FilesInv, FilesFresh, FilesEdits, Idle
<1>8. FilesLastKind'
  BY <1>1, <1>2, <1>3, <1>4, <1>5 DEF FilesInv, FilesLastKind
<1>9. ASSUME ~overlap' PROVE FilesRemote'
  BY <1>1, <1>2, <1>3, <1>4, <1>5, <1>9 DEF FilesInv, FilesRemote, PipelineQuiet
<1>10. ASSUME ~overlap' PROVE FilesPending'
  BY <1>1, <1>2, <1>3, <1>4, <1>5, <1>10 DEF FilesInv, FilesFresh, FilesPending, PipelineQuiet, Idle
<1> QED
  BY <1>6, <1>7, <1>8, <1>9, <1>10 DEF FilesInv

LEMMA FilesRemoteCompareInv == ASSUME FilesInv, remote_compare PROVE FilesInv'
<1>1. remote.at = "compare" /\ UNCHANGED <<disk, doc, storedHash, raw, debounced, pipe, pausedFor, todo, overlap>>
  BY DEF remote_compare
<1>2. \/ remote' = Idle /\ (IF disk = NoFile THEN {} ELSE disk) = remote.text
      \/ remote' = [remote EXCEPT !.at = "write"]
  BY DEF remote_compare
<1>3. \/ remote' = Idle /\ disk = remote.text
      \/ remote' \in FilesRemoteSteps /\ remote'.at = "write" /\ remote'.text = remote.text
  <2>1. remote \in FilesRemoteSteps /\ remote.text # {}
    BY <1>1 DEF FilesInv, FilesTypeOK, FilesFresh
  <2>2. CASE remote' = Idle /\ (IF disk = NoFile THEN {} ELSE disk) = remote.text
    BY <2>1, <2>2
  <2>3. CASE remote' = [remote EXCEPT !.at = "write"]
    BY <2>1, <2>3 DEF FilesRemoteSteps
  <2> QED
    BY <1>2, <2>2, <2>3
<1>4. remote' \in FilesRemoteSteps /\ (remote'.at = "idle" => remote' = Idle) /\ remote'.at \in {"idle", "write"} /\ (\A x \in remote'.text : x \in remote.text)
      /\ (remote'.at # "idle" => remote'.text # {})
  BY <1>1, <1>3 DEF Idle, FilesRemoteSteps, FilesInv, FilesFresh
<1>5. FilesTypeOK'
  BY <1>1, <1>2, <1>3, <1>4 DEF FilesInv, FilesTypeOK
<1>6. FilesFresh'
  BY <1>1, <1>2, <1>3, <1>4 DEF FilesInv, FilesFresh
<1>7. FilesLastKind'
  BY <1>1, <1>2, <1>3, <1>4 DEF FilesInv, FilesLastKind
<1>8. ASSUME ~overlap' PROVE FilesRemote'
  BY <1>1, <1>2, <1>3, <1>4, <1>8 DEF FilesInv, FilesTypeOK, FilesRemote, PipelineQuiet, FilesPipeSteps
<1>9. ASSUME ~overlap' PROVE FilesPending'
  BY <1>1, <1>2, <1>3, <1>4, <1>9 DEF FilesInv, FilesRemote, FilesPending
<1> QED
  BY <1>5, <1>6, <1>7, <1>8, <1>9 DEF FilesInv

LEMMA FilesRemoteWriteInv == ASSUME FilesInv, remote_write PROVE FilesInv'
<1>1. remote.at = "write" /\ pausedFor' = PauseDuration /\ disk' = remote.text /\ UNCHANGED <<doc, storedHash, debounced, pipe, todo, overlap>>
  BY DEF remote_write
<1>2. raw' \in Seq(FilesKinds) /\ raw' # <<>> /\ raw'[Len(raw')] # "remove"
  <2> DEFINE k == IF disk = NoFile THEN "create" ELSE "modify"
  <2>1. k \in FilesKinds /\ k # "remove" /\ raw' = Append(raw, k) /\ raw \in Seq(FilesKinds)
    BY DEF FilesInv, FilesTypeOK, FilesKinds, remote_write, translate_event
  <2> HIDE DEF k
  <2> QED
    BY <2>1, FilesAppended
<1>3. remote' \in FilesRemoteSteps /\ remote'.at = "hash" /\ remote'.text = remote.text
  <2>1. remote \in FilesRemoteSteps
    BY DEF FilesInv, FilesTypeOK
  <2> QED
    BY <2>1 DEF remote_write, FilesRemoteSteps
<1>4. disk' \in SUBSET FilesEdits /\ PauseDuration \in Nat
  <2>1. remote \in FilesRemoteSteps
    BY DEF FilesInv, FilesTypeOK
  <2> QED
    BY <1>1, <2>1, FilesBoundsAssumption DEF FilesRemoteSteps
<1>5. FilesTypeOK'
  BY <1>1, <1>2, <1>3, <1>4 DEF FilesInv, FilesTypeOK
<1>6. FilesFresh'
  BY <1>1, <1>2, <1>3, <1>4 DEF FilesInv, FilesFresh
<1>7. FilesLastKind'
  BY <1>1, <1>2, <1>3, <1>4 DEF FilesInv, FilesLastKind
<1>8. ASSUME ~overlap' PROVE FilesRemote'
  BY <1>1, <1>3, <1>8 DEF FilesInv, FilesRemote, PipelineQuiet, Idle
<1>9. ASSUME ~overlap' PROVE FilesPending'
  BY <1>1, <1>2, <1>3, <1>9 DEF FilesInv, FilesRemote, FilesPending, PipelineQuiet, Idle
<1> QED
  BY <1>5, <1>6, <1>7, <1>8, <1>9 DEF FilesInv

LEMMA FilesRemoteSetHashInv == ASSUME FilesInv, remote_set_hash PROVE FilesInv'
<1>1. FilesTypeOK'
  BY DEF FilesInv, FilesTypeOK, Idle, FilesRemoteSteps, remote_set_hash
<1>2. FilesFresh'
  BY DEF FilesInv, FilesFresh, Idle, remote_set_hash
<1>3. FilesLastKind'
  BY DEF FilesInv, FilesLastKind, remote_set_hash
<1>4. ASSUME ~overlap' PROVE FilesRemote'
  BY <1>4 DEF FilesInv, FilesRemote, Idle, remote_set_hash
<1>5. ASSUME ~overlap' PROVE FilesPending'
  BY <1>5 DEF FilesInv, FilesRemote, FilesPending, remote_set_hash
<1> QED
  BY <1>1, <1>2, <1>3, <1>4, <1>5 DEF FilesInv

LEMMA FilesTickInv == ASSUME FilesInv, FilesTick PROVE FilesInv'
<1>1. remote.at # "hash" /\ UNCHANGED <<disk, doc, storedHash, raw, pipe, remote, todo, overlap>>
  BY DEF FilesTick
<1>2. pausedFor' \in Nat /\ (pausedFor' > 0 => pausedFor > 0)
  <2>1. pausedFor' = IF pausedFor = 0 THEN 0 ELSE pausedFor - 1
    BY DEF FilesTick
  <2>2. pausedFor \in Nat
    BY DEF FilesInv, FilesTypeOK
  <2> QED
    BY <2>1, <2>2
<1>3. /\ debounced' \in Seq(FilesEvents) /\ Len(debounced') <= 1
      /\ debounced' = <<>> <=> debounced = <<>>
      /\ debounced # <<>> => debounced'[1].kind = debounced[1].kind
  <2> DEFINE older(a) == IF a < DebounceWindow THEN a + 1 ELSE a
             ev(n) == [debounced[n] EXCEPT !.age = older(debounced[n].age)]
  <2>0. /\ debounced \in Seq(FilesEvents) /\ Len(debounced) \in Nat /\ Len(debounced) <= 1
        /\ DOMAIN debounced = 1..Len(debounced)
    <3>1. debounced \in Seq(FilesEvents) /\ Len(debounced) <= 1
      BY DEF FilesInv, FilesTypeOK
    <3> QED
      BY <3>1
  <2>1. debounced' = [n \in 1..Len(debounced) |-> ev(n)]
    BY <2>0 DEF FilesTick
  <2>2. \A a \in Nat : older(a) \in Nat
    BY FilesBoundsAssumption
  <2> HIDE DEF older
  <2>3. \A n \in 1..Len(debounced) : ev(n) \in FilesEvents /\ ev(n).kind = debounced[n].kind
    <3> TAKE n \in 1..Len(debounced)
    <3>1. debounced[n] \in FilesEvents
      BY <2>0
    <3>2. older(debounced[n].age) \in Nat
      BY <2>2, <3>1 DEF FilesEvents
    <3> QED
      BY <3>1, <3>2 DEF FilesEvents
  <2> HIDE DEF ev
  <2>4. debounced' \in [1..Len(debounced) -> FilesEvents]
    BY <2>1, <2>3
  <2>5. debounced' \in Seq(FilesEvents) /\ Len(debounced') = Len(debounced)
    BY <2>0, <2>4, FunctionIsSequence
  <2>6. debounced # <<>> => 1 \in 1..Len(debounced)
    BY <2>0
  <2> QED
    BY <2>0, <2>1, <2>3, <2>5, <2>6
<1>4. FilesTypeOK'
  BY <1>1, <1>2, <1>3 DEF FilesInv, FilesTypeOK
<1>5. FilesFresh'
  BY <1>1, <1>2, <1>3 DEF FilesInv, FilesFresh
<1>6. FilesLastKind'
  BY <1>1, <1>2, <1>3 DEF FilesInv, FilesLastKind
<1>7. ASSUME ~overlap' PROVE FilesRemote'
  BY <1>1, <1>2, <1>3, <1>7 DEF FilesInv, FilesRemote, PipelineQuiet
<1>8. ASSUME ~overlap' PROVE FilesPending'
  BY <1>1, <1>2, <1>3, <1>8 DEF FilesInv, FilesPending
<1> QED
  BY <1>4, <1>5, <1>6, <1>7, <1>8 DEF FilesInv

LEMMA FilesNextInv == ASSUME FilesInv, [FilesNext]_filesVars PROVE FilesInv'
<1>1. CASE UNCHANGED filesVars
  BY <1>1 DEF filesVars, FilesInv, FilesTypeOK, FilesFresh, FilesLastKind, FilesRemote, FilesPending, PipelineQuiet
<1>2. CASE FilesNext
  BY <1>2, FilesSaveFileInv, FilesRemoveFileInv, FilesDebouncerPushInv, FilesDrainReadyInv, FilesReadContentInv,
     FilesApplyTextDiffInv, FilesPipelineSetHashInv, FilesRemoteApplyInv, FilesRemoteCompareInv,
     FilesRemoteWriteInv, FilesRemoteSetHashInv, FilesTickInv DEF FilesNext
<1> QED
  BY <1>1, <1>2

\* run_pipeline and apply_remote_update_to_disk: whatever the window of the debouncer and the length of
\* the pause, however often the file is saved, removed and updated, and whether or not a hash is kept,
\* a pipeline that has nothing left to do leaves the document with the text of the file.
THEOREM FilesAgreeHolds == FilesSpec => []FilesAgree
<1>1. FilesInit => FilesInv
  BY FilesInitInv
<1>2. FilesInv /\ [FilesNext]_filesVars => FilesInv'
  BY FilesNextInv
<1>3. FilesInv => FilesAgree
  BY DEF FilesInv, FilesPending, FilesAgree, PipelineQuiet, Idle
<1> QED
  BY <1>1, <1>2, <1>3, PTL DEF FilesSpec

-----------------------------------------------------------------------------
(* Leases of agents.  They are kept in memory and in SQLite, and a failed  *)
(* statement lets the two differ; the invariant says which of them may be  *)
(* ahead, and that the restart that loads the one from the other loses     *)
(* nothing an agent was told.                                              *)

AgKeys == Agents \X LeaseSections

AgLease == [ttl : Nat, expires : Nat]

\* A table of leases, none of which is longer than its ttl from now.
AgTable(m, now) ==
    /\ IsFiniteSet(DOMAIN m)
    /\ \A k \in DOMAIN m : k \in AgKeys /\ m[k] \in AgLease /\ m[k].expires <= now + m[k].ttl

AgTypeOK ==
    /\ agTime \in Nat
    /\ AgTable(memLeases, agTime)
    /\ AgTable(dbLeases, agTime)
    /\ \A k \in DOMAIN acked : acked[k] \in Nat

\* Whoever has a lease was told of it, and has a session.
AgKnown ==
    /\ \A k \in DOMAIN memLeases \cup DOMAIN dbLeases : k \in DOMAIN acked
    /\ \A k \in DOMAIN acked : k \in AgKeys /\ k \in DOMAIN told /\ k[1] \in DOMAIN agSessions

\* What SQLite has of a lease that runs, memory has, and for as long at least.
AgBehind ==
    \A k \in DOMAIN dbLeases : dbLeases[k].expires > agTime =>
        k \in DOMAIN memLeases /\ dbLeases[k].expires <= memLeases[k].expires

\* What an agent was told, both have.
AgKept ==
    \A k \in DOMAIN acked : acked[k] > agTime =>
        /\ k \in DOMAIN memLeases /\ memLeases[k].expires >= acked[k]
        /\ k \in DOMAIN dbLeases /\ dbLeases[k].expires >= acked[k]

\* Of two that run on one section the later was told of the earlier.
AgTold ==
    \A k, l \in DOMAIN memLeases :
        k # l /\ k[2] = l[2] /\ memLeases[k].expires > agTime /\ memLeases[l].expires > agTime =>
            k[1] \in told[l] \/ l[1] \in told[k]

AgInv == AgTypeOK /\ AgKnown /\ AgBehind /\ AgKept /\ AgTold

LEMMA AgUnexpired ==
    ASSUME NEW now \in Nat, NEW m, AgTable(m, now)
    PROVE  /\ \A k \in DOMAIN Unexpired(m, now) :
                 k \in DOMAIN m /\ m[k].expires > now /\ Unexpired(m, now)[k] = m[k]
           /\ \A k \in DOMAIN m : m[k].expires > now => k \in DOMAIN Unexpired(m, now)
           /\ AgTable(Unexpired(m, now), now)
<1>1. DOMAIN Unexpired(m, now) = {x \in DOMAIN m : ~(m[x].expires <= now)}
  BY DEF Unexpired, is_expired_at
<1>2. \A k \in DOMAIN Unexpired(m, now) : Unexpired(m, now)[k] = m[k]
  BY DEF Unexpired
<1>3. \A k \in DOMAIN m : m[k].expires \in Nat
  BY DEF AgTable, AgLease
<1>4. IsFiniteSet(DOMAIN Unexpired(m, now))
  <2>1. DOMAIN Unexpired(m, now) \in SUBSET DOMAIN m
    BY <1>1
  <2> QED
    BY <2>1, FS_Subset DEF AgTable
<1> QED
  BY <1>1, <1>2, <1>3, <1>4 DEF AgTable

LEMMA AgInsertedTable ==
    ASSUME NEW now \in Nat, NEW m, AgTable(m, now), NEW k \in AgKeys, NEW v \in AgLease,
           v.expires <= now + v.ttl
    PROVE  AgTable(Insert(m, k, v), now)
<1>1. IsFiniteSet(DOMAIN Insert(m, k, v))
  <2>1. DOMAIN Insert(m, k, v) = DOMAIN m \cup {k}
    BY DEF Insert
  <2> QED
    BY <2>1, FS_AddElement DEF AgTable
<1>2. ASSUME NEW x \in DOMAIN Insert(m, k, v)
      PROVE  LET r == Insert(m, k, v)[x] IN x \in AgKeys /\ r \in AgLease /\ r.expires <= now + r.ttl
  <2>1. CASE x = k
    BY <2>1 DEF Insert
  <2>2. CASE x # k
    <3>1. x \in DOMAIN m /\ Insert(m, k, v)[x] = m[x]
      BY <2>2 DEF Insert
    <3> QED
      BY <3>1 DEF AgTable
  <2> QED
    BY <2>1, <2>2
<1> QED
  BY <1>1, <1>2 DEF AgTable

LEMMA AgInitInv == AgInit => AgInv
<1> SUFFICES ASSUME AgInit PROVE AgInv
  OBVIOUS
<1>1. /\ DOMAIN memLeases = {} /\ DOMAIN dbLeases = {} /\ DOMAIN acked = {}
      /\ agTime = 0
  BY DEF AgInit
<1> QED
  BY <1>1, FS_EmptySet DEF AgInv, AgTypeOK, AgTable, AgKnown, AgBehind, AgKept, AgTold

\* A step that drops what expired, from memory, from SQLite, from both or from neither.
LEMMA AgPruneInv ==
    ASSUME AgInv, UNCHANGED <<acked, told, agTime>>,
           memLeases' \in {memLeases, Unexpired(memLeases, agTime)},
           dbLeases' \in {dbLeases, Unexpired(dbLeases, agTime)},
           DOMAIN agSessions \subseteq DOMAIN agSessions'
    PROVE  AgInv'
<1>1. agTime \in Nat /\ AgTable(memLeases, agTime) /\ AgTable(dbLeases, agTime)
  BY DEF AgInv, AgTypeOK
<1>2. /\ \A k \in DOMAIN memLeases' : k \in DOMAIN memLeases /\ memLeases'[k] = memLeases[k]
      /\ \A k \in DOMAIN memLeases : memLeases[k].expires > agTime => k \in DOMAIN memLeases'
      /\ AgTable(memLeases', agTime)
  BY <1>1, AgUnexpired
<1>3. /\ \A k \in DOMAIN dbLeases' : k \in DOMAIN dbLeases /\ dbLeases'[k] = dbLeases[k]
      /\ \A k \in DOMAIN dbLeases : dbLeases[k].expires > agTime => k \in DOMAIN dbLeases'
      /\ AgTable(dbLeases', agTime)
  BY <1>1, AgUnexpired
<1>4. AgTypeOK'
  BY <1>2, <1>3 DEF AgInv, AgTypeOK
<1>5. AgKnown'
  BY <1>2, <1>3 DEF AgInv, AgKnown
<1>6. /\ \A k \in DOMAIN memLeases : memLeases[k].expires \in Nat
      /\ \A k \in DOMAIN dbLeases : dbLeases[k].expires \in Nat
      /\ \A k \in DOMAIN acked : acked[k] \in Nat
  BY <1>1 DEF AgTable, AgLease, AgInv, AgTypeOK
<1>7. AgBehind'
  BY <1>1, <1>2, <1>3, <1>6 DEF AgInv, AgBehind
<1>8. AgKept'
  BY <1>1, <1>2, <1>3, <1>6 DEF AgInv, AgKept
<1>9. AgTold'
  BY <1>2 DEF AgInv, AgTold
<1> QED
  BY <1>4, <1>5, <1>7, <1>8, <1>9 DEF AgInv

LEMMA AgClaimInv ==
    ASSUME AgInv, NEW a \in Agents, NEW s \in LeaseSections, NEW ttl \in Ttls, agent_claim(a, s, ttl)
    PROVE  AgInv'
<1>1. agTime \in Nat /\ AgTable(memLeases, agTime) /\ AgTable(dbLeases, agTime) /\ ttl \in Nat
  BY TtlsAssumption DEF AgInv, AgTypeOK
<1>2. DOMAIN agSessions' = DOMAIN agSessions \cup {a}
  BY DEF agent_claim, ensure_active_session, Insert
<1>3. CASE ttl = 0
  BY <1>2, <1>3, AgPruneInv DEF agent_claim
<1>4. CASE ttl # 0
  <2> DEFINE k == <<a, s>>
             end == agTime + ttl
             lease == [ttl |-> ttl, expires |-> end]
             others == conflicts_for_section(memLeases, a, s, agTime)
  <2>1. end \in Nat /\ end > agTime
    BY <1>1, <1>4
  <2>2. lease.expires = end
    OBVIOUS
  <2>3. /\ memLeases' = Insert(Unexpired(memLeases, agTime), k, lease)
        /\ dbLeases' = Unexpired(Insert(dbLeases, k, lease), agTime)
        /\ acked' = Insert(acked, k, end)
        /\ told' = Insert(told, k, others)
        /\ agTime' = agTime
    BY <1>4 DEF agent_claim, upsert_lease
  <2>4. lease \in AgLease /\ lease.expires = end /\ lease.ttl = ttl /\ k \in AgKeys /\ k[1] = a /\ k[2] = s
    BY <1>1, <2>1 DEF AgLease, AgKeys
  <2>5. end <= agTime + ttl
    BY <1>1
  <2>6. \A b : b \in others <=> b \in Agents /\ b # a /\ <<b, s>> \in DOMAIN Unexpired(memLeases, agTime)
    BY DEF conflicts_for_section
  <2> HIDE DEF k, end, lease, others
  <2>7. AgTable(Unexpired(memLeases, agTime), agTime) /\ AgTable(Insert(dbLeases, k, lease), agTime)
    BY <1>1, <2>4, <2>5, AgUnexpired, AgInsertedTable
  <2>8. AgTable(memLeases', agTime) /\ AgTable(dbLeases', agTime)
    BY <1>1, <2>3, <2>4, <2>5, <2>7, AgUnexpired, AgInsertedTable
  <2>9. /\ k \in DOMAIN memLeases' /\ memLeases'[k] = lease
        /\ \A x \in DOMAIN memLeases' : x # k =>
              x \in DOMAIN memLeases /\ memLeases[x].expires > agTime /\ memLeases'[x] = memLeases[x]
                /\ x \in DOMAIN Unexpired(memLeases, agTime)
        /\ \A x \in DOMAIN memLeases : memLeases[x].expires > agTime => x \in DOMAIN memLeases'
    BY <1>1, <2>3, AgUnexpired DEF Insert
  <2>10. /\ \A x \in DOMAIN dbLeases' :
              /\ x \in DOMAIN Insert(dbLeases, k, lease)
              /\ dbLeases'[x] = Insert(dbLeases, k, lease)[x]
         /\ \A x \in DOMAIN Insert(dbLeases, k, lease) :
              Insert(dbLeases, k, lease)[x].expires > agTime => x \in DOMAIN dbLeases'
    BY <1>1, <2>3, <2>7, AgUnexpired
  <2>11. /\ k \in DOMAIN dbLeases' /\ dbLeases'[k] = lease
         /\ \A x \in DOMAIN dbLeases' : x # k => x \in DOMAIN dbLeases /\ dbLeases'[x] = dbLeases[x]
         /\ \A x \in DOMAIN dbLeases : dbLeases[x].expires > agTime => x \in DOMAIN dbLeases'
    BY <1>1, <2>1, <2>4, <2>10 DEF Insert
  <2>12. /\ DOMAIN acked' = DOMAIN acked \cup {k} /\ acked'[k] = end
         /\ \A x \in DOMAIN acked : x # k => acked'[x] = acked[x]
         /\ DOMAIN told' = DOMAIN told \cup {k} /\ told'[k] = others
         /\ \A x \in DOMAIN told : x # k => told'[x] = told[x]
    BY <2>3 DEF Insert
  <2>13. /\ \A x \in DOMAIN memLeases : memLeases[x].expires \in Nat
         /\ \A x \in DOMAIN dbLeases : dbLeases[x].expires \in Nat
         /\ \A x \in DOMAIN acked : acked[x] \in Nat
    BY <1>1 DEF AgTable, AgLease, AgInv, AgTypeOK
  <2>14. AgTypeOK'
    BY <1>1, <2>1, <2>3, <2>8, <2>12, <2>13 DEF AgTypeOK
  <2>15. AgKnown'
    BY <1>2, <2>4, <2>9, <2>11, <2>12 DEF AgInv, AgKnown
  <2>16. AgBehind'
    BY <1>1, <2>1, <2>3, <2>4, <2>9, <2>11, <2>13 DEF AgInv, AgBehind
  <2>17. AgKept'
    BY <1>1, <2>1, <2>3, <2>4, <2>9, <2>11, <2>12, <2>13 DEF AgInv, AgKept
  <2>18. AgTold'
    <3> SUFFICES ASSUME NEW x \in DOMAIN memLeases', NEW y \in DOMAIN memLeases', x # y, x[2] = y[2]
                 PROVE  x[1] \in told'[y] \/ y[1] \in told'[x]
      BY DEF AgTold
    <3>1. \A z \in DOMAIN memLeases : z \in AgKeys /\ z \in DOMAIN told
      BY DEF AgInv, AgTypeOK, AgTable, AgKnown
    <3>2. ASSUME NEW z \in DOMAIN memLeases', z # k, z[2] = s PROVE z[1] \in others
      <4>1. z \in AgKeys /\ z \in DOMAIN Unexpired(memLeases, agTime)
        BY <2>9, <3>1, <3>2
      <4>2. z = <<z[1], s>> /\ z[1] \in Agents
        BY <3>2, <4>1 DEF AgKeys
      <4>3. z[1] # a
        BY <3>2, <4>2 DEF k
      <4> QED
        BY <2>6, <4>1, <4>2, <4>3
    <3>3. CASE x = k
      BY <2>4, <2>12, <3>2, <3>3
    <3>4. CASE y = k
      BY <2>4, <2>12, <3>2, <3>4
    <3>5. CASE x # k /\ y # k
      <4>1. /\ x \in DOMAIN memLeases /\ y \in DOMAIN memLeases
            /\ memLeases[x].expires > agTime /\ memLeases[y].expires > agTime
        BY <2>9, <3>5
      <4>2. told'[x] = told[x] /\ told'[y] = told[y]
        BY <2>12, <3>1, <3>5, <4>1
      <4> QED
        BY <4>1, <4>2 DEF AgInv, AgTold
    <3> QED
      BY <3>3, <3>4, <3>5
  <2> QED
    BY <2>14, <2>15, <2>16, <2>17, <2>18 DEF AgInv
<1> QED
  BY <1>3, <1>4

\* Activity extends the lease k in memory; SQLite is told as well, or the statement failed.
LEMMA AgActivityInv ==
    ASSUME AgInv, NEW a \in Agents, NEW s \in LeaseSections,
           record_activity(a, s) \/ record_activity_fails(a, s)
    PROVE  AgInv'
<1> DEFINE k == <<a, s>>
           end == agTime + memLeases[k].ttl
           base == Unexpired(memLeases, agTime)
           lease == [base[k] EXCEPT !.expires = end]
<1>1. agTime \in Nat /\ AgTable(memLeases, agTime) /\ AgTable(dbLeases, agTime)
  BY DEF AgInv, AgTypeOK
<1>2. k \in DOMAIN base /\ memLeases' = [base EXCEPT ![k].expires = end]
      /\ UNCHANGED <<agSessions, told, agTime>>
  BY DEF record_activity, record_activity_fails, active_leases
<1>3. \/ dbLeases' = Unexpired(Insert(dbLeases, k, memLeases'[k]), agTime)
         /\ acked' = [acked EXCEPT ![k] = memLeases'[k].expires]
      \/ dbLeases' = Unexpired(dbLeases, agTime) /\ acked' = acked
  BY DEF record_activity, record_activity_fails, upsert_lease
<1>4. /\ \A x \in DOMAIN base : x \in DOMAIN memLeases /\ memLeases[x].expires > agTime /\ base[x] = memLeases[x]
      /\ \A x \in DOMAIN memLeases : memLeases[x].expires > agTime => x \in DOMAIN base
      /\ AgTable(base, agTime)
  BY <1>1, AgUnexpired
<1>5. k \in DOMAIN memLeases /\ k \in AgKeys /\ memLeases[k] \in AgLease /\ base[k] = memLeases[k]
      /\ memLeases[k].expires <= agTime + memLeases[k].ttl /\ memLeases[k].expires > agTime
  BY <1>1, <1>2, <1>4 DEF AgTable
<1>6. end \in Nat /\ memLeases[k].expires <= end /\ end > agTime /\ memLeases[k].ttl \in Nat
      /\ end <= agTime + memLeases[k].ttl /\ memLeases[k].expires \in Nat
  <2>1. memLeases[k].ttl \in Nat /\ memLeases[k].expires \in Nat
    BY <1>5 DEF AgLease
  <2> QED
    BY <1>1, <1>5, <2>1
<1> HIDE DEF k, end, base
<1>7. lease \in AgLease /\ lease.expires = end /\ lease.ttl = memLeases[k].ttl
  BY <1>5, <1>6 DEF AgLease
<1>8. /\ DOMAIN memLeases' = DOMAIN base /\ memLeases'[k] = lease
      /\ \A x \in DOMAIN base : x # k => memLeases'[x] = memLeases[x]
  BY <1>2, <1>4
<1> HIDE DEF lease
<1>9. AgTable(memLeases', agTime)
  BY <1>4, <1>5, <1>6, <1>7, <1>8 DEF AgTable
<1>10. k \in DOMAIN acked
  BY <1>5 DEF AgInv, AgKnown
<1>11. /\ \A x \in DOMAIN memLeases : memLeases[x].expires \in Nat
       /\ \A x \in DOMAIN dbLeases : dbLeases[x].expires \in Nat
       /\ \A x \in DOMAIN acked : acked[x] \in Nat
  BY <1>1 DEF AgTable, AgLease, AgInv, AgTypeOK
<1>12. /\ AgTable(dbLeases', agTime)
       /\ \A x \in DOMAIN dbLeases' :
             (x \in DOMAIN dbLeases /\ dbLeases'[x] = dbLeases[x]) \/ (x = k /\ dbLeases'[x] = lease)
       /\ \A x \in DOMAIN dbLeases : x # k /\ dbLeases[x].expires > agTime =>
             x \in DOMAIN dbLeases' /\ dbLeases'[x] = dbLeases[x]
       /\ DOMAIN acked' = DOMAIN acked /\ (\A x \in DOMAIN acked : x # k => acked'[x] = acked[x])
       /\ \/ k \in DOMAIN dbLeases' /\ dbLeases'[k] = lease /\ acked'[k] = end
          \/ /\ acked' = acked
             /\ k \in DOMAIN dbLeases /\ dbLeases[k].expires > agTime =>
                   k \in DOMAIN dbLeases' /\ dbLeases'[k] = dbLeases[k]
  <2>1. CASE /\ dbLeases' = Unexpired(Insert(dbLeases, k, lease), agTime)
             /\ acked' = [acked EXCEPT ![k] = end]
    <3> DEFINE up == Insert(dbLeases, k, lease)
    <3>1. /\ DOMAIN up = DOMAIN dbLeases \cup {k} /\ up[k] = lease
          /\ \A x \in DOMAIN dbLeases : x # k => up[x] = dbLeases[x]
      BY DEF Insert
    <3>2. AgTable(up, agTime)
      BY <1>1, <1>5, <1>6, <1>7, AgInsertedTable
    <3> HIDE DEF up
    <3>3. /\ \A x \in DOMAIN dbLeases' : x \in DOMAIN up /\ dbLeases'[x] = up[x]
          /\ \A x \in DOMAIN up : up[x].expires > agTime => x \in DOMAIN dbLeases'
          /\ AgTable(dbLeases', agTime)
      BY <1>1, <2>1, <3>2, AgUnexpired DEF up
    <3>4. k \in DOMAIN dbLeases' /\ dbLeases'[k] = lease
      BY <1>6, <1>7, <3>1, <3>3
    <3>5. DOMAIN acked' = DOMAIN acked /\ acked'[k] = end /\ (\A x \in DOMAIN acked : x # k => acked'[x] = acked[x])
      BY <1>10, <2>1
    <3> QED
      BY <3>1, <3>3, <3>4, <3>5
  <2>2. CASE dbLeases' = Unexpired(dbLeases, agTime) /\ acked' = acked
    <3>1. /\ \A x \in DOMAIN dbLeases' : x \in DOMAIN dbLeases /\ dbLeases'[x] = dbLeases[x]
          /\ \A x \in DOMAIN dbLeases : dbLeases[x].expires > agTime => x \in DOMAIN dbLeases'
          /\ AgTable(dbLeases', agTime)
      BY <1>1, <2>2, AgUnexpired
    <3> QED
      BY <2>2, <3>1
  <2> QED
    BY <1>3, <1>7, <1>8, <2>1, <2>2
<1>13. AgTypeOK'
  BY <1>1, <1>2, <1>6, <1>9, <1>11, <1>12 DEF AgTypeOK
<1>14. AgKnown'
  BY <1>2, <1>4, <1>8, <1>10, <1>12 DEF AgInv, AgKnown
<1>15. AgBehind'
  <2> SUFFICES ASSUME NEW x \in DOMAIN dbLeases', dbLeases'[x].expires > agTime
               PROVE  x \in DOMAIN memLeases' /\ dbLeases'[x].expires <= memLeases'[x].expires
    BY <1>2 DEF AgBehind
  <2>1. CASE x = k /\ dbLeases'[x] = lease
    BY <1>2, <1>6, <1>7, <1>8, <2>1
  <2>2. CASE x \in DOMAIN dbLeases /\ dbLeases'[x] = dbLeases[x]
    <3>1. x \in DOMAIN memLeases /\ dbLeases[x].expires <= memLeases[x].expires
      BY <1>1, <2>2 DEF AgInv, AgBehind
    <3>2. x \in DOMAIN base
      BY <1>1, <1>4, <1>11, <2>2, <3>1
    <3>3. CASE x = k
      BY <1>6, <1>7, <1>8, <1>11, <2>2, <3>1, <3>2, <3>3
    <3>4. CASE x # k
      BY <1>8, <2>2, <3>1, <3>2, <3>4
    <3> QED
      BY <3>3, <3>4
  <2> QED
    BY <1>12, <2>1, <2>2
<1>16. AgKept'
  <2> SUFFICES ASSUME NEW x \in DOMAIN acked', acked'[x] > agTime
               PROVE  /\ x \in DOMAIN memLeases' /\ memLeases'[x].expires >= acked'[x]
                      /\ x \in DOMAIN dbLeases' /\ dbLeases'[x].expires >= acked'[x]
    BY <1>2 DEF AgKept
  <2>1. CASE x = k /\ k \in DOMAIN dbLeases' /\ dbLeases'[k] = lease /\ acked'[k] = end
    BY <1>2, <1>6, <1>7, <1>8, <2>1
  <2>2. CASE acked'[x] = acked[x] /\ (x \in DOMAIN dbLeases /\ dbLeases[x].expires > agTime =>
                   x \in DOMAIN dbLeases' /\ dbLeases'[x] = dbLeases[x])
    <3>1. /\ x \in DOMAIN memLeases /\ memLeases[x].expires >= acked[x]
          /\ x \in DOMAIN dbLeases /\ dbLeases[x].expires >= acked[x]
      BY <1>12, <2>2 DEF AgInv, AgKept
    <3>2. x \in DOMAIN acked /\ memLeases[x].expires > agTime /\ dbLeases[x].expires > agTime
      BY <1>1, <1>11, <1>12, <2>2, <3>1
    <3>3. x \in DOMAIN memLeases' /\ memLeases'[x].expires >= acked'[x]
      <4>1. CASE x = k
        BY <1>2, <1>6, <1>7, <1>8, <1>11, <2>2, <3>1, <3>2, <4>1
      <4>2. CASE x # k
        BY <1>4, <1>8, <2>2, <3>1, <3>2, <4>2
      <4> QED
        BY <4>1, <4>2
    <3> QED
      BY <2>2, <3>1, <3>2, <3>3
  <2> QED
    BY <1>12, <2>1, <2>2
<1>17. AgTold'
  BY <1>2, <1>4, <1>8 DEF AgInv, AgTold
<1> QED
  BY <1>13, <1>14, <1>15, <1>16, <1>17 DEF AgInv

LEMMA AgRestartInv == ASSUME AgInv, new_lease_store PROVE AgInv'
<1>1. agTime \in Nat /\ AgTable(dbLeases, agTime) /\ (\A k \in DOMAIN acked : acked[k] \in Nat)
  BY DEF AgInv, AgTypeOK
<1>2. /\ dbLeases' = Unexpired(dbLeases, agTime) /\ memLeases' = dbLeases'
      /\ UNCHANGED <<agSessions, acked, told, agTime>>
  BY DEF new_lease_store
<1>3. /\ \A k \in DOMAIN dbLeases' : k \in DOMAIN dbLeases /\ dbLeases[k].expires > agTime /\ dbLeases'[k] = dbLeases[k]
      /\ \A k \in DOMAIN dbLeases : dbLeases[k].expires > agTime => k \in DOMAIN dbLeases'
      /\ AgTable(dbLeases', agTime)
  BY <1>1, <1>2, AgUnexpired
<1>4. \A k \in DOMAIN dbLeases : dbLeases[k].expires \in Nat
  BY <1>1 DEF AgTable, AgLease
<1>5. \A k \in DOMAIN memLeases : memLeases[k].expires \in Nat
  BY DEF AgInv, AgTypeOK, AgTable, AgLease
<1>6. AgTypeOK'
  BY <1>1, <1>2, <1>3 DEF AgTypeOK
<1>7. AgKnown'
  BY <1>2, <1>3 DEF AgInv, AgKnown
<1>8. AgBehind'
  BY <1>2, <1>3, <1>4 DEF AgBehind
<1>9. AgKept'
  BY <1>1, <1>2, <1>3, <1>4 DEF AgInv, AgKept
<1>10. AgTold'
  <2>1. \A k \in DOMAIN memLeases' : k \in DOMAIN memLeases /\ memLeases[k].expires > agTime
    BY <1>1, <1>2, <1>3, <1>4, <1>5 DEF AgInv, AgBehind
  <2> QED
    BY <1>2, <2>1 DEF AgInv, AgTold
<1> QED
  BY <1>6, <1>7, <1>8, <1>9, <1>10 DEF AgInv

LEMMA AgTickInv == ASSUME AgInv, AgTick PROVE AgInv'
<1>1. agTime \in Nat /\ agTime' = agTime + 1 /\ UNCHANGED <<memLeases, dbLeases, agSessions, acked, told>>
  BY DEF AgInv, AgTypeOK, AgTick
<1>2. ASSUME NEW m, AgTable(m, agTime) PROVE AgTable(m, agTime') /\ \A k \in DOMAIN m : m[k].expires \in Nat
  <2>1. \A k \in DOMAIN m : m[k].expires \in Nat /\ m[k].ttl \in Nat /\ m[k].expires <= agTime + m[k].ttl
    BY <1>2 DEF AgTable, AgLease
  <2>2. \A k \in DOMAIN m : m[k].expires <= agTime' + m[k].ttl
    BY <1>1, <2>1
  <2> QED
    BY <1>2, <2>1, <2>2 DEF AgTable
<1>3. AgTypeOK'
  BY <1>1, <1>2 DEF AgInv, AgTypeOK
<1>4. /\ \A k \in DOMAIN memLeases : memLeases[k].expires \in Nat
      /\ \A k \in DOMAIN dbLeases : dbLeases[k].expires \in Nat
      /\ \A k \in DOMAIN acked : acked[k] \in Nat
  BY <1>2 DEF AgInv, AgTypeOK
<1>5. AgKnown'
  BY <1>1 DEF AgInv, AgKnown
<1>6. AgBehind'
  BY <1>1, <1>4 DEF AgInv, AgBehind
<1>7. AgKept'
  BY <1>1, <1>4 DEF AgInv, AgKept
<1>8. AgTold'
  BY <1>1, <1>4 DEF AgInv, AgTold
<1> QED
  BY <1>3, <1>5, <1>6, <1>7, <1>8 DEF AgInv

LEMMA AgNextInv == ASSUME AgInv, [AgNext]_agVars PROVE AgInv'
<1>1. CASE UNCHANGED agVars
  BY <1>1, AgPruneInv DEF agVars
<1>2. ASSUME NEW a \in Agents, NEW s \in LeaseSections, NEW ttl \in Ttls, agent_claim(a, s, ttl) PROVE AgInv'
  BY <1>2, AgClaimInv
<1>3. ASSUME NEW a \in Agents, NEW s \in LeaseSections, agent_claim_fails(a, s) PROVE AgInv'
  <2>1. DOMAIN agSessions \subseteq DOMAIN agSessions'
    BY <1>3 DEF agent_claim_fails, ensure_active_session, Insert
  <2> QED
    BY <1>3, <2>1, AgPruneInv DEF agent_claim_fails
<1>4. ASSUME NEW a \in Agents, NEW s \in LeaseSections, record_activity(a, s) \/ record_activity_fails(a, s)
      PROVE  AgInv'
  BY <1>4, AgActivityInv
<1>5. CASE prune_expired
  BY <1>5, AgPruneInv DEF prune_expired
<1>6. CASE \E t \in tasks : lease_expiry_task(t)
  BY <1>6, AgPruneInv DEF lease_expiry_task
<1>7. CASE new_lease_store
  BY <1>7, AgRestartInv
<1>8. CASE AgTick
  BY <1>8, AgTickInv
<1> QED
  BY <1>1, <1>2, <1>3, <1>4, <1>5, <1>6, <1>7, <1>8 DEF AgNext

LEMMA AgInvHonest == AgInv => AgHonest
<1> SUFFICES ASSUME AgInv PROVE AgHonest
  OBVIOUS
<1> DEFINE held == {k \in DOMAIN acked : acked[k] > agTime}
<1>1. agTime \in Nat /\ AgTable(memLeases, agTime) /\ (\A k \in DOMAIN acked : acked[k] \in Nat)
  BY DEF AgInv, AgTypeOK
<1>2. \A k \in held :
         /\ k \in DOMAIN memLeases /\ memLeases[k].expires >= acked[k]
         /\ k \in DOMAIN dbLeases /\ dbLeases[k].expires >= acked[k]
  BY DEF AgInv, AgKept
<1>3. /\ \A k \in active_leases(agTime) : k \in DOMAIN memLeases /\ memLeases[k].expires > agTime
      /\ \A k \in DOMAIN memLeases : memLeases[k].expires > agTime => k \in active_leases(agTime)
      /\ IsFiniteSet(active_leases(agTime))
  BY <1>1, AgUnexpired DEF active_leases, AgTable
<1>4. ASSUME NEW a \in {k[1] : k \in held}
      PROVE  /\ a \in DOMAIN agent_list(agTime)
             /\ agent_list(agTime)[a].sections >= Cardinality({k \in held : k[1] = a})
  <2> DEFINE mine == {k \in active_leases(agTime) : k[1] = a}
             hers == {k \in held : k[1] = a}
  <2>1. a \in DOMAIN agSessions
    BY <1>4 DEF AgInv, AgKnown
  <2>2. a \in DOMAIN agent_list(agTime) /\ agent_list(agTime)[a].sections = Cardinality(mine)
    BY <2>1 DEF agent_list, count_active_sections_by_agent
  <2>3. \A k \in held : k \in active_leases(agTime)
    <3>1. \A k \in DOMAIN memLeases : memLeases[k].expires \in Nat
      BY <1>1 DEF AgTable, AgLease
    <3> QED
      BY <1>1, <1>2, <1>3, <3>1
  <2>4. hers \in SUBSET mine
    BY <2>3
  <2>5. IsFiniteSet(mine)
    BY <1>3, FS_Subset
  <2> HIDE DEF mine, hers
  <2>6. Cardinality(hers) <= Cardinality(mine) /\ Cardinality(mine) \in Nat /\ Cardinality(hers) \in Nat
    BY <2>4, <2>5, FS_Subset, FS_CardinalityType
  <2>7. agent_list(agTime)[a].sections >= Cardinality(hers)
    BY <2>2, <2>6
  <2> QED
    BY <2>2, <2>7 DEF hers
<1>5. ASSUME NEW s, NEW k \in active_leases_for_section(s, agTime), NEW l \in active_leases_for_section(s, agTime), k # l
      PROVE  k[1] \in told[l] \/ l[1] \in told[k]
  <2>1. k \in active_leases(agTime) /\ l \in active_leases(agTime) /\ k[2] = s /\ l[2] = s
    BY DEF active_leases_for_section, active_leases
  <2> QED
    BY <1>3, <1>5, <2>1 DEF AgInv, AgTold
<1> HIDE DEF held
<1>6. /\ \A k \in held :
            /\ k \in DOMAIN memLeases /\ memLeases[k].expires >= acked[k]
            /\ k \in DOMAIN dbLeases /\ dbLeases[k].expires >= acked[k]
      /\ \A a \in {k[1] : k \in held} :
            /\ a \in DOMAIN agent_list(agTime)
            /\ agent_list(agTime)[a].sections >= Cardinality({k \in held : k[1] = a})
      /\ \A s \in agent_conflicts(agTime) :
            \A k, l \in active_leases_for_section(s, agTime) :
                k # l => k[1] \in told[l] \/ l[1] \in told[k]
  BY <1>2, <1>4, <1>5
<1> QED
  BY <1>6 DEF AgHonest, held

\* agent_claim, record_activity and new_lease_store: whatever statements fail, however often the daemon
\* starts again and whichever tasks wake up, a lease an agent was told it has is in memory and in SQLite
\* until it ends and in agent.list; and of two agents on a section one was told of the other.
THEOREM AgHonestHolds == AgSpec => []AgHonest
<1>1. AgInit => AgInv
  BY AgInitInv
<1>2. AgInv /\ [AgNext]_agVars => AgInv'
  BY AgNextInv
<1>3. AgInv => AgHonest
  BY AgInvHonest
<1> QED
  BY <1>1, <1>2, <1>3, PTL DEF AgSpec

=============================================================================
