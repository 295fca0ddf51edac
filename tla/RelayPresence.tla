--------------------------- MODULE RelayPresence ---------------------------
(***************************************************************************)
(* The relay's presence: AwarenessStore (crates/relay/src/awareness/mod.rs)*)
(* and the two places of ws/handler.rs that change it, the frame           *)
(* awareness_update and the end of a connection.  Each changes the store,  *)
(* reads the aggregate and broadcasts it, with the locks given up between, *)
(* so two handlers of one document interleave.                             *)
(***************************************************************************)
EXTENDS Integers, Sequences, FiniteSets

CONSTANTS
    PresSessions, PresDocs,
    PeerStates,       \* what a client may send of itself, and of those
    NamedStates,      \* the ones PeerState::from_json accepts
    PresMaxFrames

\* Documents are taken in the order of their ids.
ASSUME PresAssumption == IsFiniteSet(PresSessions) /\ PresDocs \subseteq Nat /\ PresMaxFrames \in Nat

VARIABLES
    awareness,   \* doc -> session -> peers; a doc without entry is not in it
    presSub,     \* session -> the documents it is subscribed to
    presConn,    \* sessions with a connection
    handler,     \* session -> what its connection is doing
    view,        \* session -> doc -> the peers it was sent last, or Unseen
    raced,       \* the <<session, doc>> sent an aggregate last that another
                 \* handler had made an old one by then
    presFrames

presVars == <<awareness, presSub, presConn, handler, view, raced, presFrames>>

Unseen == {"unseen"}

NoHandler == [pc |-> "idle", docs |-> {}, peers |-> {}, overlap |-> FALSE]

Put(f, k, v) == [x \in DOMAIN f \union {k} |-> IF x = k THEN v ELSE f[x]]
Drop(f, ks) == [x \in DOMAIN f \ ks |-> f[x]]

-----------------------------------------------------------------------------
(* AwarenessStore *)

\* The entry of the document is made, and stays even if nothing is in it.
awareness_put(state, doc, s, peers) ==
    LET entry == IF doc \in DOMAIN state THEN state[doc] ELSE << >>
    IN Put(state, doc, IF peers = {} THEN Drop(entry, {s}) ELSE Put(entry, s, peers))

\* Mutant: a session goes only with the whole document.
RemoveOnlyEmptyDocs(state, docs, s) ==
    Drop(state, {d \in docs \intersect DOMAIN state : DOMAIN state[d] = {s}})

\* Documents that become empty are dropped.
remove_session(state, docs, s) ==
    LET without == [d \in DOMAIN state |-> IF d \in docs THEN Drop(state[d], {s}) ELSE state[d]]
    IN Drop(without, {d \in docs \intersect DOMAIN state : DOMAIN without[d] = {}})

aggregate(state, doc) ==
    IF doc \in DOMAIN state THEN UNION {state[doc][s] : s \in DOMAIN state[doc]} ELSE {}

peers_for_doc(state, doc) == {p \in aggregate(state, doc) : p[2] \in NamedStates}

who_is_where(state) == {d \in DOMAIN state : peers_for_doc(state, d) # {}}

active_session_count(state) == Cardinality(UNION {DOMAIN state[d] : d \in DOMAIN state})

active_docs(state) == DOMAIN state

-----------------------------------------------------------------------------
(* The handlers *)

PresInit ==
    /\ awareness = << >>
    /\ presSub = [s \in PresSessions |-> {}]
    /\ presConn = {}
    /\ handler = [s \in PresSessions |-> NoHandler]
    /\ view = [s \in PresSessions |-> [d \in PresDocs |-> Unseen]]
    /\ raced = {}
    /\ presFrames = 0

pres_connect(s) ==
    /\ s \notin presConn /\ presFrames < PresMaxFrames
    /\ presConn' = presConn \union {s}
    /\ UNCHANGED <<awareness, presSub, handler, view, raced, presFrames>>

\* A new subscriber is sent the text, not the presence.
pres_subscribe(s, doc) ==
    /\ s \in presConn /\ handler[s].pc = "idle" /\ doc \notin presSub[s]
    /\ presSub' = [presSub EXCEPT ![s] = @ \union {doc}]
    /\ view' = [view EXCEPT ![s][doc] = Unseen]
    /\ UNCHANGED <<awareness, presConn, handler, raced, presFrames>>

\* Whoever holds an aggregate of one of these documents now holds an old one.
MarkOverlap(h, docs, s) ==
    [t \in PresSessions |-> IF t # s /\ h[t].pc \in {"broadcast", "cleanup_broadcast"} /\ h[t].docs \intersect docs # {}
                            THEN [h[t] EXCEPT !.overlap = TRUE] ELSE h[t]]

\* handle_awareness_update: refused unless subscribed.
awareness_update(s, doc, peers) ==
    /\ s \in presConn /\ handler[s].pc = "idle" /\ presFrames < PresMaxFrames
    /\ presFrames' = presFrames + 1
    /\ IF doc \in presSub[s]
       THEN /\ awareness' = awareness_put(awareness, doc, s, peers)
            /\ handler' = [MarkOverlap(handler, {doc}, s) EXCEPT ![s] = [NoHandler EXCEPT !.pc = "aggregate", !.docs = {doc}]]
       ELSE UNCHANGED <<awareness, handler>>
    /\ UNCHANGED <<presSub, presConn, view, raced>>

awareness_aggregate(s) ==
    /\ handler[s].pc = "aggregate"
    /\ \E doc \in handler[s].docs :
          handler' = [handler EXCEPT ![s].pc = "broadcast", ![s].peers = aggregate(awareness, doc)]
    /\ UNCHANGED <<awareness, presSub, presConn, view, raced, presFrames>>

Delivered(recipients, doc, peers) ==
    view' = [r \in PresSessions |-> IF r \in recipients /\ doc \in presSub[r] THEN [view[r] EXCEPT ![doc] = peers] ELSE view[r]]

Settled(recipients, doc, late) ==
    LET sent == {<<r, doc>> : r \in recipients}
    IN raced' = IF late THEN raced \union sent ELSE raced \ sent

awareness_broadcast(s) ==
    /\ handler[s].pc = "broadcast"
    /\ \E doc \in handler[s].docs :
          /\ Delivered(presConn \ {s}, doc, handler[s].peers)
          /\ Settled(presConn \ {s}, doc, handler[s].overlap)
    /\ handler' = [handler EXCEPT ![s] = NoHandler]
    /\ UNCHANGED <<awareness, presSub, presConn, presFrames>>

\* The connection ends: remove_session, then for every document the aggregate
\* and a broadcast, then mark_disconnected.
cleanup_remove(s) ==
    /\ s \in presConn /\ handler[s].pc = "idle"
    /\ awareness' = remove_session(awareness, presSub[s], s)
    /\ handler' = [MarkOverlap(handler, presSub[s], s) EXCEPT ![s] = [NoHandler EXCEPT !.pc = "cleanup", !.docs = presSub[s]]]
    /\ UNCHANGED <<presSub, presConn, view, raced, presFrames>>

cleanup_aggregate(s) ==
    /\ handler[s].pc = "cleanup"
    /\ IF handler[s].docs = {}
       THEN /\ presConn' = presConn \ {s}
            /\ presSub' = [presSub EXCEPT ![s] = {}]
            /\ handler' = [handler EXCEPT ![s] = NoHandler]
       ELSE /\ LET doc == CHOOSE d \in handler[s].docs : \A e \in handler[s].docs : d <= e
               IN handler' = [handler EXCEPT ![s].pc = "cleanup_broadcast", ![s].peers = aggregate(awareness, doc)]
            /\ UNCHANGED <<presConn, presSub>>
    /\ UNCHANGED <<awareness, view, raced, presFrames>>

cleanup_broadcast(s) ==
    /\ handler[s].pc = "cleanup_broadcast"
    /\ LET doc == CHOOSE d \in handler[s].docs : \A e \in handler[s].docs : d <= e
       IN /\ Delivered(presConn, doc, handler[s].peers)
          /\ Settled(presConn, doc, handler[s].overlap)
          /\ handler' = [handler EXCEPT ![s].pc = "cleanup", ![s].docs = @ \ {doc}, ![s].overlap = FALSE]
    /\ UNCHANGED <<awareness, presSub, presConn, presFrames>>

PresNext ==
    \E s \in PresSessions :
       \/ pres_connect(s)
       \/ \E d \in PresDocs : pres_subscribe(s, d) \/ \E p \in {{}} \union {{<<s, n>>} : n \in PeerStates} : awareness_update(s, d, p)
       \/ awareness_aggregate(s) \/ awareness_broadcast(s)
       \/ cleanup_remove(s) \/ cleanup_aggregate(s) \/ cleanup_broadcast(s)

PresSpec == PresInit /\ [][PresNext]_presVars

-----------------------------------------------------------------------------
(* Properties *)

\* handle_awareness_update, the clean-up of handle_socket and the queries of
\* AwarenessStore: while no handler is at work, nobody is present who is not
\* connected and subscribed, and what a subscriber was sent last is what the
\* store holds of the others, unless that was an aggregate which another
\* handler had overtaken (the aggregate of the first may be broadcast after
\* the store was changed for the second, and stays until the subscriber is
\* sent another: its own frames are not sent to it).
PresViewsCurrent ==
    (\A s \in PresSessions : handler[s].pc = "idle") =>
       /\ \A d \in active_docs(awareness), s \in PresSessions :
             s \in DOMAIN awareness[d] => s \in presConn /\ d \in presSub[s]
       /\ active_session_count(awareness) <= Cardinality(presConn)
       /\ who_is_where(awareness) \subseteq active_docs(awareness)
       /\ \A s \in presConn, d \in PresDocs :
             LET others(peers) == {p \in peers : p[1] # s}
             IN d \in presSub[s] /\ <<s, d>> \notin raced /\ view[s][d] # Unseen =>
                   others(view[s][d]) = others(aggregate(awareness, d))
=============================================================================
