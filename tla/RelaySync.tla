----------------------------- MODULE RelaySync -----------------------------
(***************************************************************************)
(* The relay's WebSocket sync plane for one document of one workspace:     *)
(* DocSyncStore (crates/relay/src/ws/session.rs), which sequences client   *)
(* updates and deduplicates retries, SyncSessionStore (same file), which   *)
(* counts connections and remembers subscriptions and outbound channels,   *)
(* and handle_socket (crates/relay/src/ws/handler.rs), the task that runs  *)
(* one WebSocket connection.                                               *)
(*                                                                         *)
(* An action is what a task does between two points where another task can *)
(* run: one critical section of a store's lock, with the socket traffic    *)
(* next to it that no other task sees.  A request the relay answers with   *)
(* an error frame (not subscribed, base_server_seq above the head, role    *)
(* too low) changes no state and is the negation of a guard here.          *)
(***************************************************************************)
EXTENDS Integers, Sequences, FiniteSets

CONSTANTS
    Sessions,      \* session ids create_sync_session has issued
    Conns,         \* WebSocket connections; each one is opened at most once
    Updates,       \* dedupe keys (client_id, client_update_id)
    Bases,         \* the base_server_seq values clients send
    HydrateSeqs,   \* the sequence numbers a stored document is loaded with
    NoConn,        \* SyncSessionRecord.outbound = None
    NoSession,     \* a connection that has not been opened
    NoUpdate       \* a connection that is not serving an update

ASSUME ConnsFinite == IsFiniteSet(Conns)
ASSUME BasesNat == Bases \subseteq Nat
ASSUME HydrateSeqsPos == HydrateSeqs \subseteq Nat \ {0}
ASSUME NoConnFresh == NoConn \notin Conns
ASSUME NoSessionFresh == NoSession \notin Sessions
ASSUME NoUpdateFresh == NoUpdate \notin Updates

VARIABLES
    \* DocSyncState of the document
    snapshot,      \* snapshot_seq, 0 when there is no snapshot
    updates,       \* the stored updates, each with the base it was sent with
    dedupe,        \* dedupe key -> server_seq, 0 when the key is absent
    head,          \* head_server_seq
    \* SyncSessionRecord of each session
    active,        \* active_connections
    subscribed,    \* sessions whose subscriptions contain the document
    outbound,      \* the connection whose channel the record holds
    presence,      \* sessions with an entry in AwarenessStore
    \* handle_socket, one instance per connection
    pc,            \* where the task stands
    sess,          \* its session
    last,          \* last_server_seq of the subscribe being served, -1 for None
    inflight,      \* the update being served and the server_seq it was given
    chan,          \* server_seqs of the updates in its outbound channel
    floor,         \* everything up to here came as a snapshot or was claimed
    synced,        \* a subscribe of this connection has been served
    got,           \* server_seqs of the updates written to its socket
    \* history
    acks,          \* <<dedupe key, server_seq>> of every ack written
    orphaned       \* applied updates whose broadcast was skipped

docVars  == <<snapshot, updates, dedupe, head>>
sessVars == <<active, subscribed, outbound, presence>>
connVars == <<pc, sess, last, inflight, chan, floor, synced, got>>
vars == <<docVars, sessVars, connVars, acks, orphaned>>

NoSeq == -1

Entry == [seq : Nat, u : Updates, base : Nat]

InFlight == [u : Updates \cup {NoUpdate}, seq : Nat, applied : BOOLEAN]
NothingInFlight == [u |-> NoUpdate, seq |-> 0, applied |-> FALSE]

\* Points of handle_socket: before the upgrade, waiting for hello, in the
\* select loop, between track_subscription and build_state_sync_messages,
\* before the ack is written, before the broadcast, after the loop, between
\* the awareness clean-up and mark_disconnected, returned.
PCs == {"idle", "hello", "loop", "build", "ack", "bcast",
        "cleanup", "leaving", "closed"}
Serving == {"loop", "build", "ack", "bcast"}
Counted == Serving \cup {"hello", "cleanup", "leaving"}

Live(s) == {c \in Conns : sess[c] = s /\ pc[c] \in Counted}

Init ==
    /\ snapshot = 0
    /\ updates = {}
    /\ dedupe = [u \in Updates |-> 0]
    /\ head = 0
    /\ active = [s \in Sessions |-> 0]
    /\ subscribed = {}
    /\ outbound = [s \in Sessions |-> NoConn]
    /\ presence = {}
    /\ pc = [c \in Conns |-> "idle"]
    /\ sess = [c \in Conns |-> NoSession]
    /\ last = [c \in Conns |-> NoSeq]
    /\ inflight = [c \in Conns |-> NothingInFlight]
    /\ chan = [c \in Conns |-> <<>>]
    /\ floor = [c \in Conns |-> 0]
    /\ synced = [c \in Conns |-> FALSE]
    /\ got = [c \in Conns |-> {}]
    /\ acks = {}
    /\ orphaned = {}

Max2(a, b) == IF a >= b THEN a ELSE b

(***************************************************************************)
(* Loading a stored document.  set_snapshot and append_update neither      *)
(* broadcast nor check a base: they are for filling a document before it   *)
(* is served, with fresh ids in increasing order, as ws/tests.rs does.     *)
(***************************************************************************)

\* Mutant: the head follows the snapshot even when it is already past it.
SetSnapshotLowersHead(n) ==
    /\ subscribed = {}
    /\ snapshot' = n
    /\ head' = n
    /\ UNCHANGED <<updates, dedupe, sessVars, connVars, acks, orphaned>>

SetSnapshot(n) ==
    /\ subscribed = {}
    /\ snapshot' = n
    /\ head' = Max2(head, n)
    /\ UNCHANGED <<updates, dedupe, sessVars, connVars, acks, orphaned>>

AppendUpdate(n, u) ==
    /\ subscribed = {}
    /\ n > head
    /\ dedupe[u] = 0
    /\ updates' = updates \cup {[seq |-> n, u |-> u, base |-> 0]}
    /\ dedupe' = [dedupe EXCEPT ![u] = n]
    /\ head' = Max2(head, n)
    /\ UNCHANGED <<snapshot, sessVars, connVars, acks, orphaned>>

(***************************************************************************)
(* Opening a connection.                                                   *)
(***************************************************************************)
MarkConnected(c, s) ==
    /\ pc[c] = "idle"
    /\ pc' = [pc EXCEPT ![c] = "hello"]
    /\ sess' = [sess EXCEPT ![c] = s]
    /\ active' = [active EXCEPT ![s] = @ + 1]
    /\ UNCHANGED <<docVars, subscribed, outbound, presence, last, inflight,
                   chan, floor, synced, got, acks, orphaned>>

\* mark_disconnected: the last connection of a session takes the session's
\* subscriptions and its outbound channel with it.
LastOne(s) == active[s] <= 1

LeaveSession(s) ==
    /\ active' = [active EXCEPT ![s] = IF @ = 0 THEN 0 ELSE @ - 1]
    /\ subscribed' = IF LastOne(s) THEN subscribed \ {s} ELSE subscribed
    /\ outbound' = IF LastOne(s) THEN [outbound EXCEPT ![s] = NoConn]
                                 ELSE outbound

\* Mutant: the early return forgets mark_disconnected.
HelloRejectedStaysCounted(c) ==
    /\ pc[c] = "hello"
    /\ pc' = [pc EXCEPT ![c] = "closed"]
    /\ UNCHANGED <<docVars, sessVars, sess, last, inflight, chan, floor,
                   synced, got, acks, orphaned>>

\* The hello frame is missing, malformed or refused, or its ack cannot be
\* written.
HelloRejected(c) ==
    /\ pc[c] = "hello"
    /\ pc' = [pc EXCEPT ![c] = "closed"]
    /\ LeaveSession(sess[c])
    /\ UNCHANGED <<docVars, presence, sess, last, inflight, chan, floor,
                   synced, got, acks, orphaned>>

\* hello_ack is written and the connection's new channel replaces whatever
\* channel the session had.
RegisterOutbound(c) ==
    /\ pc[c] = "hello"
    /\ pc' = [pc EXCEPT ![c] = "loop"]
    /\ outbound' = [outbound EXCEPT ![sess[c]] = c]
    /\ UNCHANGED <<docVars, active, subscribed, presence, sess, last,
                   inflight, chan, floor, synced, got, acks, orphaned>>

(***************************************************************************)
(* The subscribe frame: the subscription is recorded first, then the state *)
(* the client is missing is read and written to its socket.                *)
(***************************************************************************)
TrackSubscription(c, n) ==
    /\ pc[c] = "loop"
    /\ pc' = [pc EXCEPT ![c] = "build"]
    /\ last' = [last EXCEPT ![c] = n]
    /\ subscribed' = subscribed \cup {sess[c]}
    /\ UNCHANGED <<docVars, active, outbound, presence, sess, inflight, chan,
                   floor, synced, got, acks, orphaned>>

\* cursor_seq of build_state_sync_messages.
SendsSnapshot(n) == snapshot # 0 /\ n < snapshot

\* Mutant: last_server_seq = None is not defaulted to 0.
CursorSeqNoDefault(n) == IF SendsSnapshot(n) THEN snapshot ELSE n
CursorSeq(n) == IF SendsSnapshot(n) THEN snapshot
                ELSE IF n = NoSeq THEN 0 ELSE n

\* Mutant: off by one at the cursor.
MissingSeqsSkipsOne(n) ==
    {e.seq : e \in {e \in updates : e.seq > CursorSeq(n) + 1}}
MissingSeqs(n) == {e.seq : e \in {e \in updates : e.seq > CursorSeq(n)}}

StateSync(c) ==
    /\ pc[c] = "build"
    /\ pc' = [pc EXCEPT ![c] = "loop"]
    /\ floor' = [floor EXCEPT ![c] = CursorSeq(last[c])]
    /\ got' = [got EXCEPT ![c] = @ \cup MissingSeqs(last[c])]
    /\ synced' = [synced EXCEPT ![c] = TRUE]
    /\ last' = [last EXCEPT ![c] = NoSeq]
    /\ UNCHANGED <<docVars, sessVars, sess, inflight, chan, acks, orphaned>>

\* One of the state sync messages cannot be written.
StateSyncFails(c) ==
    /\ pc[c] = "build"
    /\ pc' = [pc EXCEPT ![c] = "cleanup"]
    /\ last' = [last EXCEPT ![c] = NoSeq]
    /\ UNCHANGED <<docVars, sessVars, sess, inflight, chan, floor, synced,
                   got, acks, orphaned>>

(***************************************************************************)
(* The yjs_update frame.  apply_client_update runs under the write lock;   *)
(* the ack is written next, and only then is the update broadcast.         *)
(***************************************************************************)
\* Mutants: the head read before it is advanced; no check of the base; the
\* ack of a retry names the head.
StaleServerSeq == head
AnyBase(base) == TRUE
ApplyDuplicateAcksHead(c, u) ==
    /\ pc[c] = "loop"
    /\ sess[c] \in subscribed
    /\ dedupe[u] # 0
    /\ inflight' = [inflight EXCEPT ![c] =
           [u |-> u, seq |-> head, applied |-> FALSE]]
    /\ pc' = [pc EXCEPT ![c] = "ack"]
    /\ UNCHANGED <<docVars, sessVars, sess, last, chan, floor, synced, got,
                   acks, orphaned>>

AlreadySequenced(u) == dedupe[u] # 0
BaseAccepted(base) == base <= head
NextServerSeq == head + 1

ApplyDuplicate(c, u) ==
    /\ pc[c] = "loop"
    /\ sess[c] \in subscribed
    /\ AlreadySequenced(u)
    /\ inflight' = [inflight EXCEPT ![c] =
           [u |-> u, seq |-> dedupe[u], applied |-> FALSE]]
    /\ pc' = [pc EXCEPT ![c] = "ack"]
    /\ UNCHANGED <<docVars, sessVars, sess, last, chan, floor, synced, got,
                   acks, orphaned>>

ApplyFresh(c, u, base) ==
    /\ pc[c] = "loop"
    /\ sess[c] \in subscribed
    /\ ~AlreadySequenced(u)
    /\ BaseAccepted(base)
    /\ head' = NextServerSeq
    /\ dedupe' = [dedupe EXCEPT ![u] = NextServerSeq]
    /\ updates' = updates \cup {[seq |-> NextServerSeq, u |-> u, base |-> base]}
    /\ inflight' = [inflight EXCEPT ![c] =
           [u |-> u, seq |-> NextServerSeq, applied |-> TRUE]]
    /\ pc' = [pc EXCEPT ![c] = "ack"]
    /\ UNCHANGED <<snapshot, sessVars, sess, last, chan, floor, synced, got,
                   acks, orphaned>>

AckSent(c) ==
    /\ pc[c] = "ack"
    /\ acks' = acks \cup {<<inflight[c].u, inflight[c].seq>>}
    /\ IF inflight[c].applied
         THEN /\ pc' = [pc EXCEPT ![c] = "bcast"]
              /\ UNCHANGED inflight
         ELSE /\ pc' = [pc EXCEPT ![c] = "loop"]
              /\ inflight' = [inflight EXCEPT ![c] = NothingInFlight]
    /\ UNCHANGED <<docVars, sessVars, sess, last, chan, floor, synced, got,
                   orphaned>>

\* The ack cannot be written: the loop ends and the update is never broadcast.
AckFails(c) ==
    /\ pc[c] = "ack"
    /\ orphaned' = IF inflight[c].applied THEN orphaned \cup {inflight[c].seq}
                                          ELSE orphaned
    /\ pc' = [pc EXCEPT ![c] = "cleanup"]
    /\ inflight' = [inflight EXCEPT ![c] = NothingInFlight]
    /\ UNCHANGED <<docVars, sessVars, sess, last, chan, floor, synced, got,
                   acks>>

\* The connections whose channel broadcast_to_subscribers sends to; a send
\* to a connection that has returned is dropped.
Recipients ==
    {d \in Conns : /\ pc[d] \in Counted
                   /\ sess[d] \in subscribed
                   /\ outbound[sess[d]] = d}

\* Mutant: the broadcast reaches the first of the recipients only.
BroadcastToOne(c) ==
    /\ pc[c] = "bcast"
    /\ \/ /\ Recipients = {}
          /\ UNCHANGED chan
       \/ \E d \in Recipients :
              chan' = [chan EXCEPT ![d] = Append(@, inflight[c].seq)]
    /\ pc' = [pc EXCEPT ![c] = "loop"]
    /\ inflight' = [inflight EXCEPT ![c] = NothingInFlight]
    /\ UNCHANGED <<docVars, sessVars, sess, last, floor, synced, got, acks,
                   orphaned>>

BroadcastToSubscribers(c) ==
    /\ pc[c] = "bcast"
    /\ chan' = [d \in Conns |-> IF d \in Recipients
                                  THEN Append(chan[d], inflight[c].seq)
                                  ELSE chan[d]]
    /\ pc' = [pc EXCEPT ![c] = "loop"]
    /\ inflight' = [inflight EXCEPT ![c] = NothingInFlight]
    /\ UNCHANGED <<docVars, sessVars, sess, last, floor, synced, got, acks,
                   orphaned>>

(***************************************************************************)
(* The awareness_update frame: an empty list of peers removes the entry.   *)
(***************************************************************************)
AwarenessUpdate(c, present) ==
    /\ pc[c] = "loop"
    /\ sess[c] \in subscribed
    /\ presence' = IF present THEN presence \cup {sess[c]}
                              ELSE presence \ {sess[c]}
    /\ UNCHANGED <<docVars, active, subscribed, outbound, connVars, acks,
                   orphaned>>

(***************************************************************************)
(* The outbound channel, and the ways out of the loop.                     *)
(***************************************************************************)
OutboundRecv(c) ==
    /\ pc[c] = "loop"
    /\ chan[c] # <<>>
    /\ got' = [got EXCEPT ![c] = @ \cup {Head(chan[c])}]
    /\ chan' = [chan EXCEPT ![c] = Tail(@)]
    /\ UNCHANGED <<docVars, sessVars, pc, sess, last, inflight, floor, synced,
                   acks, orphaned>>

\* Another connection of the session has taken the outbound slot: recv()
\* returns None once the channel is empty.
OutboundReplaced(c) ==
    /\ pc[c] = "loop"
    /\ chan[c] = <<>>
    /\ outbound[sess[c]] # c
    /\ pc' = [pc EXCEPT ![c] = "cleanup"]
    /\ UNCHANGED <<docVars, sessVars, sess, last, inflight, chan, floor,
                   synced, got, acks, orphaned>>

\* Close frame, end of stream, read or write error, oversized frame,
\* heartbeat timeout.
SocketEnds(c) ==
    /\ pc[c] = "loop"
    /\ pc' = [pc EXCEPT ![c] = "cleanup"]
    /\ UNCHANGED <<docVars, sessVars, sess, last, inflight, chan, floor,
                   synced, got, acks, orphaned>>

\* remove_session for the documents the session is subscribed to.
CleanUpAwareness(c) ==
    /\ pc[c] = "cleanup"
    /\ pc' = [pc EXCEPT ![c] = "leaving"]
    /\ presence' = IF sess[c] \in subscribed THEN presence \ {sess[c]}
                                             ELSE presence
    /\ UNCHANGED <<docVars, active, subscribed, outbound, sess, last,
                   inflight, chan, floor, synced, got, acks, orphaned>>

MarkDisconnected(c) ==
    /\ pc[c] = "leaving"
    /\ pc' = [pc EXCEPT ![c] = "closed"]
    /\ LeaveSession(sess[c])
    /\ chan' = [chan EXCEPT ![c] = <<>>]
    /\ UNCHANGED <<docVars, presence, sess, last, inflight, floor, synced,
                   got, acks, orphaned>>

ConnNext(c) ==
    \/ \E s \in Sessions : MarkConnected(c, s)
    \/ HelloRejected(c)
    \/ RegisterOutbound(c)
    \/ \E n \in Bases \cup {NoSeq} : TrackSubscription(c, n)
    \/ StateSync(c)
    \/ StateSyncFails(c)
    \/ \E u \in Updates : ApplyDuplicate(c, u)
    \/ \E u \in Updates, base \in Bases : ApplyFresh(c, u, base)
    \/ AckSent(c)
    \/ AckFails(c)
    \/ BroadcastToSubscribers(c)
    \/ \E present \in BOOLEAN : AwarenessUpdate(c, present)
    \/ OutboundRecv(c)
    \/ OutboundReplaced(c)
    \/ SocketEnds(c)
    \/ CleanUpAwareness(c)
    \/ MarkDisconnected(c)

Next ==
    \/ \E n \in HydrateSeqs : SetSnapshot(n)
    \/ \E n \in HydrateSeqs, u \in Updates : AppendUpdate(n, u)
    \/ \E c \in Conns : ConnNext(c)

Spec == Init /\ [][Next]_vars

(***************************************************************************)
(* Fairness.  A tokio task that can run is eventually polled, so a handler *)
(* always gets past its critical sections and its writes succeed or fail.  *)
(* tokio::select! picks at random among its ready branches, so a channel   *)
(* that keeps having messages is eventually read however often the client  *)
(* sends: that is strong fairness of OutboundRecv.  Nothing is assumed     *)
(* of clients: they need not connect, subscribe, send or stay.             *)
(***************************************************************************)
Fairness ==
    \A c \in Conns :
        /\ WF_vars(StateSync(c) \/ StateSyncFails(c))
        /\ WF_vars(AckSent(c) \/ AckFails(c))
        /\ WF_vars(BroadcastToSubscribers(c))
        /\ WF_vars(CleanUpAwareness(c))
        /\ WF_vars(MarkDisconnected(c))
        /\ WF_vars(OutboundReplaced(c))
        /\ SF_vars(OutboundRecv(c))

FairSpec == Spec /\ Fairness

-----------------------------------------------------------------------------
(***************************************************************************)
(* Properties.                                                             *)
(***************************************************************************)

\* Every variable has the type its Rust counterpart gives it, an open
\* connection has a session, and a handler that is about to ack or broadcast
\* holds the update it is serving.
TypeOK ==
    /\ snapshot \in Nat
    /\ updates \in SUBSET Entry
    /\ dedupe \in [Updates -> Nat]
    /\ head \in Nat
    /\ active \in [Sessions -> Nat]
    /\ subscribed \in SUBSET Sessions
    /\ outbound \in [Sessions -> Conns \cup {NoConn}]
    /\ presence \in SUBSET Sessions
    /\ pc \in [Conns -> PCs]
    /\ sess \in [Conns -> Sessions \cup {NoSession}]
    /\ last \in [Conns -> Nat \cup {NoSeq}]
    /\ inflight \in [Conns -> InFlight]
    /\ \A c \in Conns : /\ pc[c] # "idle" => sess[c] \in Sessions
                        /\ pc[c] \in {"ack", "bcast"} => inflight[c].u # NoUpdate
    /\ chan \in [Conns -> Seq(Nat)]
    /\ floor \in [Conns -> Nat]
    /\ synced \in [Conns -> BOOLEAN]
    /\ got \in [Conns -> SUBSET Nat]
    /\ acks \in SUBSET (Updates \X Nat)
    /\ orphaned \in SUBSET Nat

\* The stored updates and the dedupe index describe the same log: no key is
\* stored twice, no server_seq is given twice, the head bounds them all, and
\* an update is sequenced after the base its sender had seen
\* (apply_client_update, append_update).
ExactlyOnce ==
    /\ \A e \in updates : /\ dedupe[e.u] = e.seq
                          /\ e.base < e.seq
                          /\ e.seq <= head
    /\ \A e, f \in updates : e.seq = f.seq => e = f
    /\ \A u \in Updates : dedupe[u] # 0 => \E e \in updates : e.u = u

\* Whatever connection an update is retried on, every ack ever written for it
\* names the same server_seq, and that is where the update is stored
\* (ApplyClientUpdateResult::Duplicate).
AckAgreement ==
    \A a \in acks : \E e \in updates : e.u = a[1] /\ e.seq = a[2]

\* A connection that live updates are delivered to: it has been served a
\* subscribe and the session's outbound channel is its own.
Served(c) == synced[c] /\ pc[c] \in Serving /\ outbound[sess[c]] = c

InChannel(c, n) == \E i \in 1 .. Len(chan[c]) : chan[c][i] = n

\* The handler that sequenced the update has yet to broadcast it.
BroadcastPending(n) ==
    \E d \in Conns : /\ pc[d] \in {"ack", "bcast"}
                     /\ inflight[d].applied
                     /\ inflight[d].seq = n

Reaches(c, n) == \/ n <= floor[c]
                 \/ n \in got[c]
                 \/ InChannel(c, n)
                 \/ BroadcastPending(n)

\* No update falls between the state sync and the live feed: a served
\* connection has every stored update, or has it queued, or a handler is
\* still to broadcast it; the exception is an update whose broadcast was
\* skipped because its sender's socket failed (handle_subscribe_message
\* tracks before it reads, apply_client_update stores before the broadcast).
NoLostUpdate ==
    \A c \in Conns : \A e \in updates :
        Served(c) => Reaches(c, e.seq) \/ e.seq \in orphaned

\* SPEC.md's "At-least-once delivery" without that exception.
AtLeastOnceDelivery ==
    \A c \in Conns : \A e \in updates : Served(c) => Reaches(c, e.seq)

\* A session whose last connection has gone keeps no subscription, no
\* outbound channel and no presence, and active_connections never loses
\* count, whatever order its connections come and go in (mark_connected,
\* mark_disconnected, the awareness clean-up of handle_socket).
NoGhostSession ==
    \A s \in Sessions :
        /\ active[s] = Cardinality(Live(s))
        /\ Live(s) = {} => /\ s \notin subscribed
                           /\ s \notin presence
                           /\ outbound[s] = NoConn

\* The parts of the inductive invariant that no run needs on their own.  A
\* handler serves an update that is stored under the server_seq it holds, and
\* everything queued for or written to a socket is stored.
InflightSequenced ==
    \A c \in Conns : pc[c] \in {"ack", "bcast"} =>
        /\ inflight[c].seq # 0
        /\ dedupe[inflight[c].u] = inflight[c].seq

DeliveredSequenced ==
    \A c \in Conns :
        /\ \A n \in got[c] : \E e \in updates : e.seq = n
        /\ \A i \in 1 .. Len(chan[c]) : \E e \in updates : e.seq = chan[c][i]

SubscriptionKept ==
    \A c \in Conns :
        /\ pc[c] \in {"idle", "hello"} => ~synced[c]
        /\ synced[c] /\ pc[c] \in Serving => sess[c] \in subscribed
        /\ pc[c] = "build" => sess[c] \in subscribed

PresenceOwned ==
    \A s \in presence :
        /\ s \in subscribed
        /\ \E c \in Conns : sess[c] = s /\ pc[c] \in Serving \cup {"cleanup"}

\* The inductive invariant the proofs of RelaySyncProofs rest on.
IndInv ==
    /\ TypeOK
    /\ ExactlyOnce
    /\ AckAgreement
    /\ InflightSequenced
    /\ DeliveredSequenced
    /\ NoGhostSession
    /\ SubscriptionKept
    /\ PresenceOwned
    /\ NoLostUpdate

\* The log only grows at its end: a stored update, its server_seq and its
\* dedupe key are never changed or dropped, and a new one goes above the old
\* head (updates are never compacted out of DocSyncState).
LogStep ==
    /\ updates \subseteq updates'
    /\ \A e \in updates' \ updates : e.seq > head
    /\ \A u \in Updates : dedupe[u] # 0 => dedupe'[u] = dedupe[u]
    /\ head <= head'
LogAppendOnly == [][LogStep]_vars

\* The sync plane implements the sequenced log: an ack is only written, and
\* an update only delivered, once it is sequenced.
Log == INSTANCE SequencedLog
           WITH Readers <- Conns, order <- dedupe, told <- acks, seen <- got
LogRefinement == Log!Spec

\* Every stored update whose broadcast was not skipped does reach every
\* connection that is being served, unless that connection ends or is
\* replaced (the select loop of handle_socket).
EventuallyDelivered ==
    \A c \in Conns, u \in Updates :
        (Served(c) /\ dedupe[u] # 0 /\ dedupe[u] \notin orphaned)
            ~> (\/ dedupe[u] \in got[c]
                \/ dedupe[u] <= floor[c]
                \/ dedupe[u] \in orphaned
                \/ ~Served(c))
=============================================================================
