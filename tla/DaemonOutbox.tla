---------------------------- MODULE DaemonOutbox ----------------------------
(***************************************************************************)
(* The queue of updates for the relay (crates/daemon/src/outbox/mod.rs).   *)
(*                                                                         *)
(* The table has one connection, so that a call is one step.  The sender   *)
(* that takes what is ready, marks it sent and hands it to the relay, and  *)
(* the relay, which answers late, twice, with a failure after the answer   *)
(* was given up, or never, are external.  Payloads have a size of one; the *)
(* limit on bytes is met with the one on updates.                          *)
(***************************************************************************)
EXTENDS Integers, Sequences, FiniteSets

CONSTANTS
    ObUpdates,      \* 1 .. n: row ids in the order of insertion
    ObWorkspaces,
    MAX_PENDING_UPDATES,
    MAX_ATTEMPTS,
    BASE_DELAY,
    MAX_DELAY,
    ObMaxCrashes    \* bound on the daemon's crashes

ASSUME ObAssumption ==
    /\ MAX_PENDING_UPDATES \in Nat
    /\ MAX_ATTEMPTS \in Nat \ {0}
    /\ BASE_DELAY \in Nat
    /\ MAX_DELAY \in Nat

VARIABLES
    rows,       \* table outbox_updates, by id: [ws, state, retry, wait], where
                \* wait is the time left until next_retry_at
    reports,    \* answers under way to the daemon: <<id, "ack" or "fail">>
    sends,      \* history: how often each update was handed to the relay
    since,      \* history: time since it was last, up to MAX_DELAY
    stuck,      \* history: updates sent when the daemon stopped
    obCrashes

obVars == <<rows, reports, sends, since, stuck, obCrashes>>

-----------------------------------------------------------------------------

Lesser(a, b) == IF a < b THEN a ELSE b

backoff_delay(attempt) == Lesser(BASE_DELAY * 2^Lesser(attempt, 7), MAX_DELAY)

check_backpressure(w) ==
    Cardinality({i \in DOMAIN rows : rows[i].ws = w /\ rows[i].state \in {"pending", "sent"}})
        >= MAX_PENDING_UPDATES

\* Mutant: only updates without next_retry_at are selected.
ReadyWhenNew == {i \in DOMAIN rows : rows[i].state = "pending" /\ rows[i].retry = 0}

ready_to_send == {i \in DOMAIN rows : rows[i].state = "pending" /\ rows[i].wait = 0}

\* A refused update is not queued; the caller is told.
enqueue(w) ==
    /\ Len(rows) + 1 \in ObUpdates
    /\ ~check_backpressure(w)
    /\ rows' = Append(rows, [ws |-> w, state |-> "pending", retry |-> 0, wait |-> 0])
    /\ sends' = Append(sends, 0)
    /\ since' = Append(since, 0)
    /\ UNCHANGED <<reports, stuck, obCrashes>>

\* The first of what is ready is marked and given to the relay.
mark_sent ==
    /\ ready_to_send # {}
    /\ LET i == CHOOSE x \in ready_to_send : \A y \in ready_to_send : x <= y
       IN  /\ rows' = [rows EXCEPT ![i].state = "sent"]
           /\ sends' = [sends EXCEPT ![i] = @ + 1]
           /\ since' = [since EXCEPT ![i] = 0]
           /\ \E answer \in SUBSET {"ack", "fail"} :
                reports' = reports \cup {<<i, a>> : a \in answer}
    /\ UNCHANGED <<stuck, obCrashes>>

\* The sender gives up waiting.
send_timeout(i) ==
    /\ rows[i].state = "sent"
    /\ <<i, "fail">> \notin reports
    /\ reports' = reports \cup {<<i, "fail">>}
    /\ UNCHANGED <<rows, sends, since, stuck, obCrashes>>

Acked(row) == IF row.state = "sent" THEN [row EXCEPT !.state = "acked"] ELSE row

\* Mutant: a failure is taken from every state.
FailedFromAnyState(row) ==
    IF row.retry + 1 >= MAX_ATTEMPTS
    THEN [row EXCEPT !.state = "dead", !.retry = @ + 1]
    ELSE [row EXCEPT !.state = "pending", !.retry = @ + 1, !.wait = backoff_delay(row.retry)]

Failed(row) ==
    IF row.state # "sent" THEN row
    ELSE IF row.retry + 1 >= MAX_ATTEMPTS
         THEN [row EXCEPT !.state = "dead", !.retry = @ + 1]
         ELSE [row EXCEPT !.state = "pending", !.retry = @ + 1,
                          !.wait = backoff_delay(row.retry)]

mark_acked(i) ==
    /\ <<i, "ack">> \in reports
    /\ reports' = reports \ {<<i, "ack">>}
    /\ rows' = [rows EXCEPT ![i] = Acked(@)]
    /\ UNCHANGED <<sends, since, stuck, obCrashes>>

mark_failed(i) ==
    /\ <<i, "fail">> \in reports
    /\ reports' = reports \ {<<i, "fail">>}
    /\ rows' = [rows EXCEPT ![i] = Failed(@)]
    /\ UNCHANGED <<sends, since, stuck, obCrashes>>

\* The table stays; what was under way does not.
ObCrash ==
    /\ obCrashes < ObMaxCrashes
    /\ obCrashes' = obCrashes + 1
    /\ reports' = {}
    /\ stuck' = stuck \cup {i \in DOMAIN rows : rows[i].state = "sent"}
    /\ UNCHANGED <<rows, sends, since>>

ObTick ==
    /\ rows' = [i \in DOMAIN rows |->
                  [rows[i] EXCEPT !.wait = IF @ = 0 THEN 0 ELSE @ - 1]]
    /\ since' = [i \in DOMAIN since |-> Lesser(since[i] + 1, MAX_DELAY)]
    /\ UNCHANGED <<reports, sends, stuck, obCrashes>>

-----------------------------------------------------------------------------

ObInit ==
    /\ rows = <<>>
    /\ reports = {}
    /\ sends = <<>>
    /\ since = <<>>
    /\ stuck = {}
    /\ obCrashes = 0

\* A send whose failure is not reported times out, unless the daemon stopped.
ObNext ==
    \/ \E w \in ObWorkspaces : enqueue(w)
    \/ mark_sent
    \/ \E i \in DOMAIN rows : (i \notin stuck /\ send_timeout(i)) \/ mark_acked(i) \/ mark_failed(i)
    \/ ObCrash
    \/ ObTick

\* The sender's loop goes on, the time passes, and an answer is dealt with.
ObFairness ==
    /\ WF_obVars(mark_sent)
    /\ WF_obVars(ObTick)
    /\ \A i \in ObUpdates :
          /\ WF_obVars(i \in DOMAIN rows \ stuck /\ send_timeout(i))
          /\ WF_obVars(i \in DOMAIN rows /\ mark_failed(i))

ObSpec == ObInit /\ [][ObNext]_obVars /\ ObFairness

-----------------------------------------------------------------------------
(* Properties *)

\* mark_acked and mark_failed: whatever answers come late or twice, an update
\* is sent MAX_ATTEMPTS times at most, and again only with the delay in between
\* that its failures so far call for; one that the relay acknowledged, or that
\* was given up, stays so; and failures that put updates back in the queue
\* leave no workspace with more of them than the limit.
ObSpaced ==
    [][/\ \A i \in DOMAIN sends : sends'[i] > sends[i] =>
             /\ sends'[i] <= MAX_ATTEMPTS
             /\ sends[i] > 0 => since[i] >= backoff_delay(sends[i] - 1)
       /\ \A i \in DOMAIN rows : rows[i].state \in {"acked", "dead"} => rows'[i] = rows[i]
       /\ \A w \in ObWorkspaces :
             Cardinality({i \in DOMAIN rows' : rows'[i].ws = w /\ rows'[i].state \in {"pending", "sent"}})
                <= MAX_PENDING_UPDATES]_obVars

\* mark_sent and mark_failed: every update is acknowledged or given up in the end.  (Not one that was
\* sent when the daemon stopped: it stays as it is, for nothing selects it.)
ObSettles ==
    \A i \in ObUpdates :
        i \in DOMAIN rows ~> (i \in stuck \/ (i \in DOMAIN rows
                                             /\ rows[i].state \in {"acked", "dead"}))

=============================================================================
