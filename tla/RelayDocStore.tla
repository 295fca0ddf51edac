---------------------------- MODULE RelayDocStore ---------------------------
(***************************************************************************)
(* What the relay keeps of a document: the sequencer that numbers updates  *)
(* and writes them (crates/relay/src/sync/sequencer.rs), the document in   *)
(* memory (sync/doc_manager.rs), and the snapshots that replace the log    *)
(* (sync/snapshot.rs), for one document.                                   *)
(*                                                                         *)
(* The callers are external: updates are written in the order of their     *)
(* numbers, then applied to the document in memory; a subscriber loads the *)
(* history, by two statements, before it subscribes; a candidate for a     *)
(* snapshot has the updates up to its number.  An update is its            *)
(* client_update_id, a payload the set of the updates in it; a transaction *)
(* is one step.                                                            *)
(***************************************************************************)
EXTENDS Integers, Sequences, FiniteSets, FiniteSetsExt

CONSTANTS
    StoreUpdates,
    Subscribers,
    IntervalUpdates,    \* SnapshotPolicy.interval_updates
    Retain,             \* retain_snapshots
    MaxSeq,             \* bound on the numbers given
    MaxStoreCrashes,    \* bound on the relay's crashes
    MaxSnapshots        \* bound on the snapshots tried

\* A configured 0 is taken as 1 (retain_snapshots.max(1)).
ASSUME RetainAssumption == Retain \in Nat \ {0}
ASSUME SubscribersAssumption == IsFiniteSet(Subscribers)

VARIABLES
    counter,    \* UpdateSequencer.counters of the document
    batch,      \* updates numbered and not yet written, in order
    log,        \* table yjs_update_log: set of [seq, id]
    snaps,      \* table yjs_snapshots: set of [seq, text]
    applying,   \* updates written and not yet applied, in order
    loaded,     \* DocManager.docs of the document: {} or {[text, head, subs, cut]},
                \* where cut is history: its load met Retain compactions
    sub,        \* each subscriber: [at, snap, text, head, since]
    candidates, \* snapshots about to be written: set of [seq, text]
    kept,       \* history: updates that were written
    accepted,   \* history: [base, seq] applied to the document in memory
    storeCount  \* bounds: crashes and snapshots

storeVars == <<counter, batch, log, snaps, applying, loaded, sub, candidates, kept, accepted,
               storeCount>>

NoSub == [at |-> "no", snap |-> 0, text |-> {}, head |-> 0, since |-> 0]
Subscribed == [NoSub EXCEPT !.at = "yes"]

-----------------------------------------------------------------------------
(* What is in the tables *)

Greatest(S) == Max(S \cup {0})

LogSeqs == {r.seq : r \in log}
SnapSeqs == {s.seq : s \in snaps}
Ids(rows) == {r.id : r \in rows}

\* The updates in the tables up to a number.
TextUpTo(n) ==
    (UNION {s.text : s \in {x \in snaps : x.seq <= n}}) \cup Ids({r \in log : r.seq <= n})

-----------------------------------------------------------------------------
(* sequencer.rs *)

\* A client sends an update, the first time or again.
sequence_update(u) ==
    /\ counter < MaxSeq
    /\ counter' = counter + 1
    /\ batch' = Append(batch, [seq |-> counter + 1, id |-> u])
    /\ UNCHANGED <<log, snaps, applying, loaded, sub, candidates, kept, accepted, storeCount>>

\* One INSERT for all that wait: an update that is in the log already is left
\* out, a number that is there fails the statement.
flush_batch_to_postgres ==
    LET new == {r \in {batch[n] : n \in DOMAIN batch} :
                    /\ r.id \notin Ids(log)
                    /\ \A n \in DOMAIN batch : batch[n].id = r.id => r.seq <= batch[n].seq}
    IN  /\ batch # <<>>
        /\ LogSeqs \cap {r.seq : r \in new} = {}
        /\ log' = log \cup new
        /\ kept' = kept \cup {batch[n].id : n \in DOMAIN batch}
        /\ applying' = applying \o batch
        /\ batch' = <<>>
        /\ UNCHANGED <<counter, snaps, loaded, sub, candidates, accepted, storeCount>>

recover_from_max_server_seq == Greatest(LogSeqs \cup SnapSeqs)

\* The relay starts again; seed_counter raises the counter from 0.
store_restart ==
    /\ storeCount.crash < MaxStoreCrashes
    /\ storeCount' = [storeCount EXCEPT !.crash = @ + 1]
    /\ counter' = recover_from_max_server_seq
    /\ batch' = <<>>
    /\ applying' = <<>>
    /\ loaded' = {}
    /\ sub' = [c \in Subscribers |-> NoSub]
    /\ candidates' = {}
    /\ accepted' = {}
    /\ UNCHANGED <<log, snaps, kept>>

-----------------------------------------------------------------------------
(* doc_manager.rs *)

\* load_doc_history: the latest snapshot, then the updates after it.
load_latest_snapshot(c) ==
    /\ sub[c].at = "no"
    /\ LET n == Greatest(SnapSeqs)
       IN  sub' = [sub EXCEPT ![c] = [NoSub EXCEPT !.at = "updates", !.snap = n,
                       !.text = UNION {s.text : s \in {x \in snaps : x.seq = n}}]]
    /\ UNCHANGED <<counter, batch, log, snaps, applying, loaded, candidates, kept, accepted, storeCount>>

\* hydrate_document applies them in order; it is pure and done here.
load_updates(c) ==
    LET newer == {r \in log : r.seq > sub[c].snap}
    IN  /\ sub[c].at = "updates"
        /\ sub' = [sub EXCEPT ![c].at = "subscribe", ![c].snap = 0, ![c].text = @ \cup Ids(newer),
                              ![c].head = Greatest({r.seq : r \in newer} \cup {sub[c].snap})]
        /\ UNCHANGED <<counter, batch, log, snaps, applying, loaded, candidates, kept, accepted, storeCount>>

AddSubscriber(d) == [d EXCEPT !.subs = @ + 1]

\* The first lock finds the document or not.
subscribe_existing(c) ==
    /\ sub[c].at = "subscribe"
    /\ loaded' = {AddSubscriber(d) : d \in loaded}
    /\ sub' = [sub EXCEPT ![c] = IF loaded = {} THEN [@ EXCEPT !.at = "hydrated"] ELSE Subscribed]
    /\ UNCHANGED <<counter, batch, log, snaps, applying, candidates, kept, accepted, storeCount>>

\* The second lock: another subscriber may have been faster.
subscribe_insert(c) ==
    /\ sub[c].at = "hydrated"
    /\ loaded' = IF loaded # {} THEN {AddSubscriber(d) : d \in loaded}
                 ELSE {[text |-> sub[c].text, head |-> sub[c].head, subs |-> 1,
                        cut |-> sub[c].since >= Retain]}
    /\ accepted' = IF loaded = {} THEN {} ELSE accepted
    /\ sub' = [sub EXCEPT ![c] = Subscribed]
    /\ UNCHANGED <<counter, batch, log, snaps, applying, candidates, kept, storeCount>>

unsubscribe(c) ==
    /\ sub[c].at = "yes"
    /\ loaded' = {[d EXCEPT !.subs = IF @ = 0 THEN 0 ELSE @ - 1] : d \in loaded}
    /\ sub' = [sub EXCEPT ![c] = NoSub]
    /\ UNCHANGED <<counter, batch, log, snaps, applying, candidates, kept, accepted, storeCount>>

Applicable(d, base, seq) == base <= d.head /\ seq > d.head

\* The base is what the client had seen when it sent the update.
apply_sequenced_update(base) ==
    LET u == Head(applying)
    IN  /\ applying # <<>>
        /\ base < u.seq
        /\ applying' = Tail(applying)
        /\ LET hit == {d \in loaded : Applicable(d, base, u.seq)}
           IN  /\ loaded' = (loaded \ hit) \cup
                     {[d EXCEPT !.text = @ \cup {u.id}, !.head = u.seq] : d \in hit}
               /\ accepted' = IF hit = {} THEN accepted
                              ELSE accepted \cup {[base |-> base, seq |-> u.seq]}
        /\ UNCHANGED <<counter, batch, log, snaps, sub, candidates, kept, storeCount>>

\* inactive_after may have passed since the document was last touched.
unload_inactive ==
    /\ \E d \in loaded : d.subs = 0
    /\ loaded' = {d \in loaded : d.subs # 0}
    /\ accepted' = {}
    /\ UNCHANGED <<counter, batch, log, snaps, applying, sub, candidates, kept, storeCount>>

-----------------------------------------------------------------------------
(* snapshot.rs *)

\* `late' is whether the interval has passed since the last snapshot.
should_snapshot(last, current, late) ==
    current > last /\ (current - last >= IntervalUpdates \/ late)

\* The metadata of the latest snapshot is read and the candidate kept or not.
\* The upload of a large one may fail, which ends the attempt without a trace.
maybe_snapshot(seq, late) ==
    /\ storeCount.snapshot < MaxSnapshots
    /\ seq \in LogSeqs
    /\ SnapSeqs = {} \/ should_snapshot(Greatest(SnapSeqs), seq, late)
    /\ storeCount' = [storeCount EXCEPT !.snapshot = @ + 1]
    /\ candidates' = candidates \cup {[seq |-> seq, text |-> TextUpTo(seq)]}
    /\ UNCHANGED <<counter, batch, log, snaps, applying, loaded, sub, kept, accepted>>

\* The numbers kept, newest first, are limited to Retain.
Retained(seqs) == {n \in seqs : Cardinality({m \in seqs : m > n}) < Retain}

\* Mutant: the log is cut at the newest snapshot.
CompactToNewest(retained) ==
    [snapshots |-> Min(retained),
     updates |-> IF Cardinality(retained) >= Retain THEN Max(retained) ELSE 0]

\* delete_snapshots_below_seq and delete_updates_at_or_below_seq.
build_compaction_plan(retained) ==
    [snapshots |-> Min(retained),
     updates |-> IF Cardinality(retained) >= Retain THEN Min(retained) ELSE 0]

\* The transaction: a snapshot of the number that is there stays.
snapshot_and_compact(new) ==
    LET all == IF new.seq \in SnapSeqs THEN snaps ELSE snaps \cup {new}
        plan == build_compaction_plan(Retained({s.seq : s \in all}))
    IN  /\ snaps' = {s \in all : s.seq >= plan.snapshots}
        /\ log' = {r \in log : r.seq > plan.updates}
        /\ candidates' = candidates \ {new}
        /\ sub' = [x \in Subscribers |-> IF sub[x].at = "updates"
                                         THEN [sub[x] EXCEPT !.since = @ + 1] ELSE sub[x]]
        /\ UNCHANGED <<counter, batch, applying, loaded, kept, accepted, storeCount>>

-----------------------------------------------------------------------------

StoreInit ==
    /\ counter = 0
    /\ batch = <<>>
    /\ log = {}
    /\ snaps = {}
    /\ applying = <<>>
    /\ loaded = {}
    /\ sub = [c \in Subscribers |-> NoSub]
    /\ candidates = {}
    /\ kept = {}
    /\ accepted = {}
    /\ storeCount = [crash |-> 0, snapshot |-> 0]

StoreNext ==
    \/ \E u \in StoreUpdates : sequence_update(u)
    \/ flush_batch_to_postgres
    \/ store_restart
    \/ \E c \in Subscribers :
          load_latest_snapshot(c) \/ load_updates(c) \/ subscribe_existing(c)
          \/ subscribe_insert(c) \/ unsubscribe(c)
    \/ \E base \in 0 .. MaxSeq : apply_sequenced_update(base)
    \/ unload_inactive
    \/ \E seq \in LogSeqs, late \in BOOLEAN : maybe_snapshot(seq, late)
    \/ \E new \in candidates : snapshot_and_compact(new)

StoreSpec == StoreInit /\ [][StoreNext]_storeVars

-----------------------------------------------------------------------------
(* Properties *)

\* An update that was written is found by every later load, however often
\* snapshots replace the log, two compactions run at once and the relay starts
\* again: no number is used again that a snapshot covers.
StoreHistoryComplete ==
    LET n == Greatest(SnapSeqs)
    IN  kept \subseteq (UNION {s.text : s \in {x \in snaps : x.seq = n}})
                       \cup Ids({r \in log : r.seq > n})

\* A load that a compaction comes in between is complete up to its head all
\* the same: that is what the second snapshot is retained for.  (Retain of
\* them in between are too many.)
StoreLoadSound ==
    \A c \in Subscribers :
        sub[c].at = "subscribe" /\ sub[c].since < Retain =>
            Ids({r \in log : r.seq <= sub[c].head})
            \cup (UNION {s.text : s \in {x \in snaps : x.seq <= sub[c].head}}) \subseteq sub[c].text

\* The document is in memory while it has a subscriber, counted once each,
\* though the first of them may load it at the same time.
StoreSubscribersCounted ==
    LET n == Cardinality({c \in Subscribers : sub[c].at = "yes"})
    IN  /\ n > 0 => loaded # {}
        /\ \A d \in loaded : d.subs = n

\* The document in memory lacks an update below its head only when it took one
\* from a client that had not seen the missing one either: the base tells all
\* other gaps.
StoreGapOnlyUnderOldBase ==
    \A d \in loaded : \A r \in log :
        r.seq <= d.head /\ r.id \notin d.text
        => (\E a \in accepted : a.base < r.seq /\ r.seq < a.seq)
           \/ d.cut

\* What the sequencer, the document manager and the compaction promise together.
StoreSound ==
    StoreHistoryComplete /\ StoreLoadSound /\ StoreSubscribersCounted /\ StoreGapOnlyUnderOldBase
=============================================================================
