----------------------------- MODULE DaemonYjs -----------------------------
(***************************************************************************)
(* The daemon's Yjs endpoint for editors on the same machine               *)
(* (crates/daemon/src/rpc/yjs_ws.rs) and the awareness messages it passes  *)
(* on (engine/awareness.rs).  Every connection shares one document and one *)
(* broadcast channel, whatever room its URL names.                         *)
(*                                                                         *)
(* A document is the set of updates in it, a state vector the set it       *)
(* knows.  The editor at the other end is external: it speaks y-sync as    *)
(* the endpoint expects of it.                                             *)
(***************************************************************************)
EXTENDS Integers, Sequences, Functions, FiniteSets

CONSTANTS
    YjsClients,
    YjsUpdates,          \* what the editors write
    UPDATE_BUFFER_SIZE,  \* messages the broadcast channel keeps
    YjsMaxReconnects,    \* connections of an editor after its first
    YjsMaxFaults         \* broken frames and lost connections

ASSUME YjsBufferNat == UPDATE_BUFFER_SIZE \in Nat

VARIABLES
    serverDoc,   \* the document behind the awareness lock
    presence,    \* the newest clock of each editor that the endpoint has seen
    channel,     \* everything sent to updates_tx: [from, msg]
    link,        \* the connections, one per editor
    editorDoc,   \* the editors' own copies
    faults,
    unspread     \* updates a failed frame applied and did not broadcast

yjsVars == <<serverDoc, presence, channel, link, editorDoc, faults, unspread>>

SyncStep1(known) == [kind |-> "step1", ups |-> known, clocks |-> {}]
SyncStep2(missing) == [kind |-> "step2", ups |-> missing, clocks |-> {}]
SyncUpdate(ups) == [kind |-> "update", ups |-> ups, clocks |-> {}]
AwarenessMsg(clocks) == [kind |-> "awareness", ups |-> {}, clocks |-> clocks]
AwarenessQuery == [kind |-> "query", ups |-> {}, clocks |-> {}]
BrokenMsg == [kind |-> "broken", ups |-> {}, clocks |-> {}]

Offline == [up |-> FALSE, connects |-> 0, in |-> <<>>, out |-> <<>>, next |-> 0,
            pc |-> "select", responses |-> <<>>, broadcasts |-> <<>>, synced |-> FALSE, lagged |-> FALSE]

-----------------------------------------------------------------------------
(* One frame under the awareness lock *)

\* AwarenessProtocolWrapper::handle_awareness_update: what is new is kept and
\* sent on as the endpoint has it now.
handle_awareness_update(acc, msg) ==
    LET newer == {k \in msg.clocks : k[2] > acc.presence[k[1]]}
        kept == [c \in YjsClients |->
                    IF \E k \in newer : k[1] = c THEN (CHOOSE k \in newer : k[1] = c)[2] ELSE acc.presence[c]]
    IN [acc EXCEPT !.presence = kept,
                   !.broadcasts = IF newer = {} THEN @
                                  ELSE Append(@, AwarenessMsg({<<k[1], kept[k[1]]>> : k \in newer}))]

\* AwarenessProtocolWrapper::handle_message, for a query.
handle_awareness_query(acc) ==
    [acc EXCEPT !.responses =
        Append(@, AwarenessMsg({<<c, acc.presence[c]>> : c \in {d \in YjsClients : acc.presence[d] > 0}}))]

handle_sync_step1(acc, msg) ==
    [acc EXCEPT !.responses = @ \o <<SyncStep2(acc.doc \ msg.ups), SyncStep1(acc.doc)>>]

\* Mutant: the answer to the endpoint's own state vector is not fanned out.
ApplyWithoutFanOut(acc, msg) ==
    [acc EXCEPT !.doc = @ \union msg.ups,
                !.broadcasts = IF msg.kind = "step2" THEN @ ELSE Append(@, SyncUpdate(msg.ups))]

\* SyncStep2 and Update alike: applied and fanned out as an update.
handle_sync_update(acc, msg) ==
    [acc EXCEPT !.doc = @ \union msg.ups, !.broadcasts = Append(@, SyncUpdate(msg.ups))]

\* A message that cannot be decoded ends the frame; what came before it stays
\* applied.
handle_message(acc, msg) ==
    IF acc.failed THEN acc
    ELSE CASE msg.kind = "broken" -> [acc EXCEPT !.failed = TRUE]
           [] msg.kind = "step1" -> handle_sync_step1(acc, msg)
           [] msg.kind \in {"step2", "update"} -> handle_sync_update(acc, msg)
           [] msg.kind = "awareness" -> handle_awareness_update(acc, msg)
           [] msg.kind = "query" -> handle_awareness_query(acc)

\* The messages of a frame, in order.
handle_frame(acc, frame) ==
    LET after[n \in 0..Len(frame)] == IF n = 0 THEN acc ELSE handle_message(after[n - 1], frame[n])
    IN  after[Len(frame)]

Updates(msgs) == UNION {m.ups : m \in {n \in Range(msgs) : n.kind = "update"}}

-----------------------------------------------------------------------------
(* handle_socket *)

YjsInit ==
    /\ serverDoc = {}
    /\ presence = [c \in YjsClients |-> 0]
    /\ channel = <<>>
    /\ link = [c \in YjsClients |-> Offline]
    /\ editorDoc = [c \in YjsClients |-> {}]
    /\ faults = 0
    /\ unspread = {}

\* The subscription starts at the end of the channel; the editor opens with
\* its state vector.
subscribe(c) ==
    /\ ~link[c].up
    /\ link[c].connects = 0 \/ \A d \in YjsClients : link[d].connects <= YjsMaxReconnects
    /\ link' = [link EXCEPT ![c] = [Offline EXCEPT !.up = TRUE, !.connects = link[c].connects + 1,
                                                   !.next = Len(channel) + 1,
                                                   !.in = <<<<SyncStep1(editorDoc[c])>>>>]]
    /\ UNCHANGED <<serverDoc, presence, channel, editorDoc, faults, unspread>>

\* The loop breaks: the socket goes, the presence of the editor stays.
Hangup(c) == [Offline EXCEPT !.connects = link[c].connects]

\* The part of process_incoming_binary that holds the lock.
process_incoming_binary(c) ==
    /\ link[c].up /\ link[c].pc = "select" /\ link[c].in # <<>>
    /\ LET done == handle_frame([doc |-> serverDoc, presence |-> presence, responses |-> <<>>,
                                 broadcasts |-> <<>>, failed |-> FALSE],
                                Head(link[c].in))
       IN /\ serverDoc' = done.doc
          /\ presence' = done.presence
          /\ IF done.failed
             THEN /\ link' = [link EXCEPT ![c] = Hangup(c)]
                  /\ unspread' = unspread \union Updates(done.broadcasts)
             ELSE /\ link' = [link EXCEPT ![c].in = Tail(@), ![c].pc = "respond",
                                          ![c].responses = done.responses, ![c].broadcasts = done.broadcasts]
                  /\ UNCHANGED unspread
    /\ UNCHANGED <<channel, editorDoc, faults>>

\* The rest of it: the answers to this editor, then the broadcasts.
send_responses(c) ==
    /\ link[c].up /\ link[c].pc = "respond"
    /\ channel' = channel \o [i \in DOMAIN link[c].broadcasts |-> [from |-> c, msg |-> link[c].broadcasts[i]]]
    /\ link' = [link EXCEPT ![c].out = @ \o link[c].responses, ![c].pc = "select",
                            ![c].responses = <<>>, ![c].broadcasts = <<>>,
                            ![c].synced = @ \/ \E m \in Range(link[c].responses) : m.kind = "step2"]
    /\ UNCHANGED <<serverDoc, presence, editorDoc, faults, unspread>>

Oldest == IF Len(channel) > UPDATE_BUFFER_SIZE THEN Len(channel) - UPDATE_BUFFER_SIZE + 1 ELSE 1

\* A receiver that fell behind goes on with the oldest message kept.
recv_broadcast(c) ==
    /\ link[c].up /\ link[c].pc = "select" /\ link[c].next <= Len(channel)
    /\ LET late == link[c].next < Oldest
           item == channel[link[c].next]
       IN link' = [link EXCEPT ![c].next = IF late THEN Oldest ELSE @ + 1,
                               ![c].lagged = @ \/ late,
                               ![c].out = IF late \/ item.from = c THEN @ ELSE Append(@, item.msg)]
    /\ UNCHANGED <<serverDoc, presence, channel, editorDoc, faults, unspread>>

\* The socket is lost.  A handler between the lock and its answers fails to
\* send them and never broadcasts; with nothing to answer it still does.
disconnect(c) ==
    /\ link[c].up /\ faults < YjsMaxFaults
    /\ faults' = faults + 1
    /\ link' = [link EXCEPT ![c] = Hangup(c)]
    /\ IF link[c].responses = <<>>
       THEN /\ channel' = channel \o [i \in DOMAIN link[c].broadcasts |->
                                         [from |-> c, msg |-> link[c].broadcasts[i]]]
            /\ UNCHANGED unspread
       ELSE /\ unspread' = unspread \union Updates(link[c].broadcasts)
            /\ UNCHANGED channel
    /\ UNCHANGED <<serverDoc, presence, editorDoc>>

-----------------------------------------------------------------------------
(* The editor *)

EditorSends(c, frame) == link' = [link EXCEPT ![c].in = Append(@, frame)]

\* A frame with an update, the cursor and a query for the cursors of others;
\* it may also end in garbage.
editor_edits(c, u) ==
    /\ link[c].up
    /\ \A d \in YjsClients : u \notin editorDoc[d]
    /\ editorDoc' = [editorDoc EXCEPT ![c] = @ \union {u}]
    /\ \/ EditorSends(c, <<SyncUpdate({u}), AwarenessMsg({<<c, link[c].connects>>}), AwarenessQuery>>) /\ UNCHANGED faults
       \/ /\ faults < YjsMaxFaults
          /\ faults' = faults + 1
          /\ EditorSends(c, <<SyncUpdate({u}), BrokenMsg>>)
    /\ UNCHANGED <<serverDoc, presence, channel, unspread>>

editor_receives(c) ==
    /\ link[c].up /\ link[c].out # <<>>
    /\ LET msg == Head(link[c].out)
           reply == IF msg.kind = "step1" THEN <<<<SyncStep2(editorDoc[c] \ msg.ups)>>>> ELSE <<>>
       IN /\ editorDoc' = [editorDoc EXCEPT ![c] = IF msg.kind \in {"step2", "update"} THEN @ \union msg.ups ELSE @]
          /\ link' = [link EXCEPT ![c].out = Tail(@), ![c].in = @ \o reply]
    /\ UNCHANGED <<serverDoc, presence, channel, faults, unspread>>

YjsNext ==
    \E c \in YjsClients :
       \/ subscribe(c) \/ process_incoming_binary(c) \/ send_responses(c) \/ recv_broadcast(c) \/ disconnect(c)
       \/ \E u \in YjsUpdates : editor_edits(c, u)
       \/ editor_receives(c)

YjsSpec == YjsInit /\ [][YjsNext]_yjsVars

-----------------------------------------------------------------------------
(* Properties *)

\* handle_socket: once its first state vector was answered, whatever is in
\* the endpoint's document is in the editor's, or on its way to it (in the
\* socket, ahead of it in the channel, or held by a handler that is about to
\* broadcast it).  Excepted are a receiver that lagged, and updates whose
\* frame failed after they were applied: nothing sends those again.
YjsNotLost ==
    \A c \in YjsClients :
       link[c].up /\ link[c].synced /\ ~link[c].lagged =>
          serverDoc \ unspread \subseteq
             editorDoc[c]
             \union (UNION {m.ups : m \in {n \in Range(link[c].out) : n.kind \in {"step2", "update"}}})
             \union (UNION {channel[i].msg.ups : i \in link[c].next..Len(channel)})
             \union (UNION {Updates(link[d].broadcasts) : d \in YjsClients})
=============================================================================
