--------------------------- MODULE RelaySyncProofs ---------------------------
(***************************************************************************)
(* Proofs about RelaySync for every number of sessions, connections and    *)
(* updates.  The inductive invariant IndInv is preserved in four layers:   *)
(* types, the log, the sessions, delivery; each layer uses the ones below. *)
(***************************************************************************)
EXTENDS RelaySync, TLAPS, FiniteSetTheorems

\* Every action keeps every variable in its type.
LEMMA TypeStep == TypeOK /\ [Next]_vars => TypeOK'
<1> SUFFICES ASSUME TypeOK, [Next]_vars PROVE TypeOK'
    OBVIOUS
<1> USE BasesNat, HydrateSeqsPos DEF TypeOK, PCs, Entry, InFlight, NothingInFlight, NoSeq
<1>1. ASSUME NEW n \in HydrateSeqs, SetSnapshot(n) PROVE TypeOK'
  BY <1>1 DEF SetSnapshot, Max2, sessVars, connVars
<1>2. ASSUME NEW n \in HydrateSeqs, NEW u \in Updates, AppendUpdate(n, u) PROVE TypeOK'
  BY <1>2 DEF AppendUpdate, Max2, sessVars, connVars
<1>3. ASSUME NEW c \in Conns, ConnNext(c) PROVE TypeOK'
  <2>1. ASSUME NEW s \in Sessions, MarkConnected(c, s) PROVE TypeOK'
    BY <2>1 DEF MarkConnected, docVars
  <2>2. CASE HelloRejected(c)
    BY <2>2, SMTT(60) DEF HelloRejected, LeaveSession, LastOne, docVars
  <2>3. CASE RegisterOutbound(c)
    BY <2>3 DEF RegisterOutbound, docVars
  <2>4. ASSUME NEW n \in Bases \cup {NoSeq}, TrackSubscription(c, n) PROVE TypeOK'
    BY <2>4 DEF TrackSubscription, docVars
  <2>5. CASE StateSync(c)
    <3>1. CursorSeq(last[c]) \in Nat
      BY DEF CursorSeq, SendsSnapshot
    <3>2. MissingSeqs(last[c]) \subseteq Nat
      BY DEF MissingSeqs
    <3> QED
      BY <2>5, <3>1, <3>2 DEF StateSync, docVars, sessVars
  <2>6. CASE StateSyncFails(c)
    BY <2>6 DEF StateSyncFails, docVars, sessVars
  <2>7. ASSUME NEW u \in Updates, ApplyDuplicate(c, u) PROVE TypeOK'
    BY <2>7, NoUpdateFresh DEF ApplyDuplicate, docVars, sessVars
  <2>8. ASSUME NEW u \in Updates, NEW base \in Bases, ApplyFresh(c, u, base) PROVE TypeOK'
    BY <2>8, NoUpdateFresh, SMTT(60) DEF ApplyFresh, NextServerSeq, sessVars
  <2>9. CASE AckSent(c)
    <3>1. inflight[c].u \in Updates /\ inflight[c].seq \in Nat
      BY <2>9 DEF AckSent
    <3>2. acks' \in SUBSET (Updates \X Nat)
      BY <2>9, <3>1 DEF AckSent
    <3>3. pc' \in [Conns -> PCs] /\ inflight' \in [Conns -> InFlight]
      <4>1. CASE inflight[c].applied
        BY <2>9, <4>1 DEF AckSent
      <4>2. CASE ~inflight[c].applied
        <5>1. inflight' = [inflight EXCEPT ![c] = NothingInFlight]
          BY <2>9, <4>2 DEF AckSent
        <5>2. NothingInFlight \in InFlight
          OBVIOUS
        <5> QED
          BY <2>9, <4>2, <5>1, <5>2 DEF AckSent
      <4> QED
        BY <4>1, <4>2
    <3>4. \A d \in Conns : /\ pc'[d] # "idle" => sess'[d] \in Sessions
                          /\ pc'[d] \in {"ack", "bcast"} => inflight'[d].u # NoUpdate
      BY <2>9 DEF AckSent
    <3> QED
      BY <2>9, <3>2, <3>3, <3>4, SMTT(60) DEF AckSent, docVars, sessVars
  <2>10. CASE AckFails(c)
    BY <2>10 DEF AckFails, docVars, sessVars
  <2>11. CASE BroadcastToSubscribers(c)
    BY <2>11 DEF BroadcastToSubscribers, docVars, sessVars
  <2>12. ASSUME NEW present \in BOOLEAN, AwarenessUpdate(c, present) PROVE TypeOK'
    BY <2>12 DEF AwarenessUpdate, docVars, connVars
  <2>13. CASE OutboundRecv(c)
    BY <2>13, SMTT(60) DEF OutboundRecv, docVars, sessVars
  <2>14. CASE OutboundReplaced(c)
    BY <2>14 DEF OutboundReplaced, docVars, sessVars
  <2>15. CASE SocketEnds(c)
    BY <2>15 DEF SocketEnds, docVars, sessVars
  <2>16. CASE CleanUpAwareness(c)
    BY <2>16 DEF CleanUpAwareness, docVars
  <2>17. CASE MarkDisconnected(c)
    BY <2>17, SMTT(60) DEF MarkDisconnected, LeaveSession, LastOne, docVars
  <2> QED
    BY <1>3, <2>1, <2>2, <2>3, <2>4, <2>5, <2>6, <2>7, <2>8, <2>9, <2>10,
       <2>11, <2>12, <2>13, <2>14, <2>15, <2>16, <2>17 DEF ConnNext
<1>4. CASE UNCHANGED vars
  BY <1>4 DEF vars, docVars, sessVars, connVars
<1> QED
  BY <1>1, <1>2, <1>3, <1>4 DEF Next

-----------------------------------------------------------------------------
(***************************************************************************)
(* The log.                                                                *)
(***************************************************************************)

\* Only three actions write to the document.
LEMMA DocFrame ==
    [Next]_vars =>
        \/ UNCHANGED docVars
        \/ \E n \in HydrateSeqs : SetSnapshot(n)
        \/ \E n \in HydrateSeqs, u \in Updates : AppendUpdate(n, u)
        \/ \E c \in Conns, u \in Updates, base \in Bases : ApplyFresh(c, u, base)
<1> SUFFICES ASSUME NEW c \in Conns, ConnNext(c),
                    \A u \in Updates, base \in Bases : ~ApplyFresh(c, u, base)
             PROVE  UNCHANGED docVars
    BY DEF Next, vars
<1> QED
    BY DEF ConnNext, MarkConnected, HelloRejected, RegisterOutbound,
           TrackSubscription, StateSync, StateSyncFails, ApplyDuplicate,
           AckSent, AckFails, BroadcastToSubscribers, AwarenessUpdate,
           OutboundRecv, OutboundReplaced, SocketEnds, CleanUpAwareness,
           MarkDisconnected, connVars

\* Every step appends to the log or leaves it alone.
LEMMA LogStepHolds == TypeOK /\ ExactlyOnce /\ [Next]_vars => LogStep
<1> SUFFICES ASSUME TypeOK, ExactlyOnce, [Next]_vars PROVE LogStep
    OBVIOUS
<1> USE BasesNat, HydrateSeqsPos DEF TypeOK, ExactlyOnce, LogStep, Entry
<1>1. CASE UNCHANGED docVars
  BY <1>1 DEF docVars
<1>2. ASSUME NEW n \in HydrateSeqs, SetSnapshot(n) PROVE LogStep
  BY <1>2 DEF SetSnapshot, Max2
<1>3. ASSUME NEW n \in HydrateSeqs, NEW u \in Updates, AppendUpdate(n, u)
      PROVE  LogStep
  BY <1>3 DEF AppendUpdate, Max2
<1>4. ASSUME NEW c \in Conns, NEW u \in Updates, NEW base \in Bases,
             ApplyFresh(c, u, base)
      PROVE  LogStep
  BY <1>4 DEF ApplyFresh, NextServerSeq, AlreadySequenced
<1> QED
  BY <1>1, <1>2, <1>3, <1>4, DocFrame

\* The dedupe index and the stored updates stay one log.
LEMMA ExactlyOnceStep == TypeOK /\ ExactlyOnce /\ [Next]_vars => ExactlyOnce'
<1> SUFFICES ASSUME TypeOK, ExactlyOnce, [Next]_vars PROVE ExactlyOnce'
    OBVIOUS
<1> USE BasesNat, HydrateSeqsPos DEF TypeOK, ExactlyOnce, Entry
<1>1. CASE UNCHANGED docVars
  BY <1>1 DEF docVars
<1>2. ASSUME NEW n \in HydrateSeqs, SetSnapshot(n) PROVE ExactlyOnce'
  BY <1>2 DEF SetSnapshot, Max2
<1>3. ASSUME NEW n \in HydrateSeqs, NEW u \in Updates, AppendUpdate(n, u)
      PROVE  ExactlyOnce'
  <2> DEFINE new == [seq |-> n, u |-> u, base |-> 0]
  <2>1. /\ updates' = updates \cup {new}
        /\ dedupe' = [dedupe EXCEPT ![u] = n]
        /\ head' >= head /\ head' >= n /\ head' \in Nat
        /\ dedupe[u] = 0 /\ n > head /\ n \in Nat /\ new \in Entry
        /\ new.base < new.seq
    BY <1>3 DEF AppendUpdate, Max2
  <2>2. \A e \in updates : e.u # u /\ e.seq # new.seq
    BY <2>1
  <2>3. \A e \in updates' : dedupe'[e.u] = e.seq /\ e.base < e.seq /\ e.seq <= head'
    BY <2>1, <2>2
  <2>4. \A e, f \in updates' : e.seq = f.seq => e = f
    BY <2>1, <2>2
  <2>5. \A v \in Updates : dedupe'[v] # 0 => \E e \in updates' : e.u = v
    BY <2>1
  <2> QED
    BY <2>3, <2>4, <2>5
<1>4. ASSUME NEW c \in Conns, NEW u \in Updates, NEW base \in Bases,
             ApplyFresh(c, u, base)
      PROVE  ExactlyOnce'
  <2> DEFINE new == [seq |-> head + 1, u |-> u, base |-> base]
  <2>1. /\ updates' = updates \cup {new}
        /\ dedupe' = [dedupe EXCEPT ![u] = head + 1]
        /\ head' >= head /\ head' >= head + 1 /\ head' \in Nat
        /\ dedupe[u] = 0 /\ head + 1 > head /\ head + 1 \in Nat /\ new \in Entry
        /\ new.base < new.seq
    BY <1>4 DEF ApplyFresh, NextServerSeq, AlreadySequenced, BaseAccepted
  <2>2. \A e \in updates : e.u # u /\ e.seq # new.seq
    BY <2>1
  <2>3. \A e \in updates' : dedupe'[e.u] = e.seq /\ e.base < e.seq /\ e.seq <= head'
    BY <2>1, <2>2
  <2>4. \A e, f \in updates' : e.seq = f.seq => e = f
    BY <2>1, <2>2
  <2>5. \A v \in Updates : dedupe'[v] # 0 => \E e \in updates' : e.u = v
    BY <2>1
  <2> QED
    BY <2>3, <2>4, <2>5
<1> QED
  BY <1>1, <1>2, <1>3, <1>4, DocFrame

\* What a handler holds stays what the index says.
LEMMA InflightStep ==
    TypeOK /\ ExactlyOnce /\ InflightSequenced /\ [Next]_vars => InflightSequenced'
<1> SUFFICES ASSUME TypeOK, ExactlyOnce, InflightSequenced, [Next]_vars,
                    NEW d \in Conns, pc'[d] \in {"ack", "bcast"}
             PROVE  /\ inflight'[d].seq # 0
                    /\ dedupe'[inflight'[d].u] = inflight'[d].seq
    BY DEF InflightSequenced
<1>0. /\ LogStep
      /\ TypeOK'
  BY LogStepHolds, TypeStep
<1>a. CASE pc[d] \in {"ack", "bcast"} /\ inflight'[d] = inflight[d]
  <2>1. inflight[d].u \in Updates /\ dedupe[inflight[d].u] # 0
    BY <1>a DEF TypeOK, InFlight, InflightSequenced
  <2> QED
    BY <1>a, <1>0, <2>1 DEF LogStep, InflightSequenced
<1>1. ASSUME NEW n \in HydrateSeqs, SetSnapshot(n)
      PROVE  pc[d] \in {"ack", "bcast"} /\ inflight'[d] = inflight[d]
  BY <1>1 DEF SetSnapshot, connVars
<1>2. ASSUME NEW n \in HydrateSeqs, NEW u \in Updates, AppendUpdate(n, u)
      PROVE  pc[d] \in {"ack", "bcast"} /\ inflight'[d] = inflight[d]
  BY <1>2 DEF AppendUpdate, connVars
<1>3. CASE UNCHANGED vars
  BY <1>3, <1>a DEF vars, connVars
<1>4. ASSUME NEW c \in Conns, ConnNext(c), ~(pc[d] \in {"ack", "bcast"} /\ inflight'[d] = inflight[d])
      PROVE  /\ inflight'[d].seq # 0
             /\ dedupe'[inflight'[d].u] = inflight'[d].seq
  <2>1. ASSUME NEW u \in Updates, ApplyDuplicate(c, u), d = c
        PROVE  /\ inflight'[d].seq # 0
               /\ dedupe'[inflight'[d].u] = inflight'[d].seq
    BY <2>1 DEF ApplyDuplicate, AlreadySequenced, TypeOK, docVars
  <2>2. ASSUME NEW u \in Updates, NEW base \in Bases, ApplyFresh(c, u, base), d = c
        PROVE  /\ inflight'[d].seq # 0
               /\ dedupe'[inflight'[d].u] = inflight'[d].seq
    BY <2>2 DEF ApplyFresh, NextServerSeq, TypeOK
  <2>3. \/ \E u \in Updates : ApplyDuplicate(c, u) /\ d = c
        \/ \E u \in Updates, base \in Bases : ApplyFresh(c, u, base) /\ d = c
    <3>1. CASE AckSent(c)
      BY <3>1, <1>4 DEF AckSent, TypeOK
    <3> QED
      BY <1>4, <3>1, ZenonT(60) DEF TypeOK, ConnNext, MarkConnected, HelloRejected, RegisterOutbound,
         TrackSubscription, StateSync, StateSyncFails, ApplyDuplicate,
         ApplyFresh, AckFails, BroadcastToSubscribers, AwarenessUpdate,
         OutboundRecv, OutboundReplaced, SocketEnds, CleanUpAwareness,
         MarkDisconnected, connVars
  <2> QED
    BY <2>1, <2>2, <2>3
<1> QED
  BY <1>a, <1>1, <1>2, <1>3, <1>4 DEF Next

\* Acks name stored updates.
LEMMA AckStep ==
    TypeOK /\ ExactlyOnce /\ InflightSequenced /\ AckAgreement /\ [Next]_vars
        => AckAgreement'
<1> SUFFICES ASSUME TypeOK, ExactlyOnce, InflightSequenced, AckAgreement, [Next]_vars
             PROVE  AckAgreement'
    OBVIOUS
<1>1. updates \subseteq updates'
  BY LogStepHolds DEF LogStep
<1>2. CASE acks' = acks
  BY <1>1, <1>2 DEF AckAgreement
<1>3. ASSUME NEW c \in Conns, AckSent(c) PROVE AckAgreement'
  <2>1. /\ inflight[c].u \in Updates
        /\ dedupe[inflight[c].u] = inflight[c].seq
        /\ dedupe[inflight[c].u] # 0
    BY <1>3 DEF AckSent, TypeOK, InFlight, InflightSequenced
  <2>2. PICK e \in updates : e.u = inflight[c].u /\ e.seq = inflight[c].seq
    BY <2>1 DEF ExactlyOnce
  <2> QED
    BY <1>1, <1>3, <2>2 DEF AckSent, AckAgreement
<1>4. acks' = acks \/ \E c \in Conns : AckSent(c)
  BY DEF Next, vars, SetSnapshot, AppendUpdate, ConnNext, MarkConnected, HelloRejected, RegisterOutbound,
         TrackSubscription, StateSync, StateSyncFails, ApplyDuplicate,
         ApplyFresh, AckFails, BroadcastToSubscribers, AwarenessUpdate,
         OutboundRecv, OutboundReplaced, SocketEnds, CleanUpAwareness,
         MarkDisconnected, connVars
<1> QED
  BY <1>2, <1>3, <1>4

\* Only four actions touch a channel or a socket.
LEMMA ChannelFrame ==
    ASSUME [Next]_vars
    PROVE  \/ UNCHANGED <<chan, got>>
           \/ \E c \in Conns : \/ StateSync(c)
                               \/ BroadcastToSubscribers(c)
                               \/ OutboundRecv(c)
                               \/ MarkDisconnected(c)
  BY DEF Next, vars, SetSnapshot, AppendUpdate, ConnNext, MarkConnected,
         HelloRejected, RegisterOutbound, TrackSubscription, StateSyncFails,
         ApplyDuplicate, ApplyFresh, AckSent, AckFails, AwarenessUpdate,
         OutboundReplaced, SocketEnds, CleanUpAwareness, connVars

\* Only stored updates are queued and written.
LEMMA DeliveredStep ==
    /\ TypeOK /\ ExactlyOnce /\ InflightSequenced /\ DeliveredSequenced
    /\ [Next]_vars
    => DeliveredSequenced'
<1> SUFFICES ASSUME TypeOK, ExactlyOnce, InflightSequenced, DeliveredSequenced,
                    [Next]_vars
             PROVE  DeliveredSequenced'
    OBVIOUS
<1>0. updates \subseteq updates'
  BY LogStepHolds DEF LogStep
<1>1. CASE UNCHANGED <<chan, got>>
  BY <1>0, <1>1 DEF DeliveredSequenced
<1>2. ASSUME NEW c \in Conns, StateSync(c) PROVE DeliveredSequenced'
  <2>1. \A n \in MissingSeqs(last[c]) : \E e \in updates : e.seq = n
    BY DEF MissingSeqs
  <2> QED
    BY <1>0, <1>2, <2>1 DEF StateSync, DeliveredSequenced, TypeOK
<1>3. ASSUME NEW c \in Conns, BroadcastToSubscribers(c) PROVE DeliveredSequenced'
  <2>1. /\ inflight[c].u \in Updates /\ inflight[c].seq \in Nat
        /\ dedupe[inflight[c].u] = inflight[c].seq
        /\ dedupe[inflight[c].u] # 0
    BY <1>3 DEF BroadcastToSubscribers, TypeOK, InFlight, InflightSequenced
  <2>2. PICK e \in updates : e.seq = inflight[c].seq
    BY <2>1 DEF ExactlyOnce
  <2>3. got' = got
    BY <1>3 DEF BroadcastToSubscribers
  <2>4. ASSUME NEW d \in Conns, NEW i \in 1 .. Len(chan'[d])
        PROVE  \E f \in updates' : f.seq = chan'[d][i]
    <3>1. CASE chan'[d] = chan[d]
      BY <1>0, <2>4, <3>1 DEF DeliveredSequenced
    <3>2. CASE chan'[d] = Append(chan[d], inflight[c].seq)
      <4>1. chan[d] \in Seq(Nat)
        BY DEF TypeOK
      <4>2. \/ i \in 1 .. Len(chan[d]) /\ chan'[d][i] = chan[d][i]
            \/ chan'[d][i] = inflight[c].seq
        BY <2>1, <2>4, <3>2, <4>1
      <4> QED
        BY <1>0, <2>2, <4>2 DEF DeliveredSequenced
    <3> QED
      BY <1>3, <3>1, <3>2 DEF BroadcastToSubscribers
  <2> QED
    BY <1>0, <2>3, <2>4 DEF DeliveredSequenced
<1>4. ASSUME NEW c \in Conns, OutboundRecv(c) PROVE DeliveredSequenced'
  <2>1. /\ chan[c] \in Seq(Nat) /\ chan[c] # <<>>
        /\ Head(chan[c]) = chan[c][1] /\ 1 \in 1 .. Len(chan[c])
        /\ \A i \in 1 .. Len(Tail(chan[c])) :
               i + 1 \in 1 .. Len(chan[c]) /\ Tail(chan[c])[i] = chan[c][i + 1]
    BY <1>4 DEF OutboundRecv, TypeOK
  <2>2. \E e \in updates : e.seq = Head(chan[c])
    BY <2>1 DEF DeliveredSequenced
  <2>3. \A i \in 1 .. Len(Tail(chan[c])) : \E e \in updates : e.seq = Tail(chan[c])[i]
    BY <2>1, SMTT(60) DEF DeliveredSequenced
  <2> QED
    BY <1>0, <1>4, <2>2, <2>3 DEF OutboundRecv, DeliveredSequenced, TypeOK
<1>5. ASSUME NEW c \in Conns, MarkDisconnected(c) PROVE DeliveredSequenced'
  <2>1. \A d \in Conns : got'[d] = got[d] /\ (chan'[d] = chan[d] \/ chan'[d] = <<>>)
    BY <1>5 DEF MarkDisconnected, TypeOK
  <2> QED
    BY <1>0, <2>1 DEF DeliveredSequenced
<1> QED
  BY <1>1, <1>2, <1>3, <1>4, <1>5, ChannelFrame

-----------------------------------------------------------------------------
(***************************************************************************)
(* The sessions.                                                           *)
(***************************************************************************)

\* The steps of a connection that neither enter nor leave its session.
Staying(c) ==
    \/ RegisterOutbound(c)
    \/ \E n \in Bases \cup {NoSeq} : TrackSubscription(c, n)
    \/ StateSync(c)
    \/ StateSyncFails(c)
    \/ \E u \in Updates : ApplyDuplicate(c, u)
    \/ \E u \in Updates, base \in Bases : ApplyFresh(c, u, base)
    \/ AckSent(c)
    \/ AckFails(c)
    \/ BroadcastToSubscribers(c)
    \/ \E present \in BOOLEAN : AwarenessUpdate(c, present)
    \/ OutboundRecv(c)
    \/ OutboundReplaced(c)
    \/ SocketEnds(c)
    \/ CleanUpAwareness(c)

Leaving(c) == HelloRejected(c) \/ MarkDisconnected(c)

\* Every step is one of five kinds.
LEMMA StepKinds ==
    ASSUME [Next]_vars
    PROVE  \/ UNCHANGED <<sessVars, connVars>>
           \/ \E c \in Conns : \/ Staying(c)
                               \/ Leaving(c)
                               \/ \E s \in Sessions : MarkConnected(c, s)
  BY DEF Next, vars, ConnNext, Staying, Leaving, SetSnapshot, AppendUpdate

\* A staying step touches its own session only, and ends no subscription.
LEMMA StayingFrame ==
    ASSUME TypeOK, NEW c \in Conns, Staying(c)
    PROVE  /\ active' = active
           /\ sess' = sess
           /\ pc[c] \in Counted /\ pc'[c] \in Counted
           /\ sess[c] \in Sessions
           /\ \A d \in Conns \ {c} : pc'[d] = pc[d]
           /\ subscribed \subseteq subscribed'
           /\ subscribed' \subseteq subscribed \cup {sess[c]}
           /\ presence' \subseteq presence \cup {sess[c]}
           /\ \A s \in Sessions \ {sess[c]} : outbound'[s] = outbound[s]
<1> USE DEF TypeOK, Counted, Serving, PCs
<1>1. CASE RegisterOutbound(c)
  BY <1>1 DEF RegisterOutbound
<1>2. CASE \E n \in Bases \cup {NoSeq} : TrackSubscription(c, n)
  BY <1>2 DEF TrackSubscription
<1>3. CASE StateSync(c) \/ StateSyncFails(c)
  BY <1>3 DEF StateSync, StateSyncFails, sessVars
<1>4. CASE \E u \in Updates : ApplyDuplicate(c, u)
  BY <1>4 DEF ApplyDuplicate, sessVars
<1>5. CASE \E u \in Updates, base \in Bases : ApplyFresh(c, u, base)
  BY <1>5 DEF ApplyFresh, sessVars
<1>6. CASE AckSent(c)
  BY <1>6 DEF AckSent, sessVars
<1>7. CASE AckFails(c) \/ BroadcastToSubscribers(c)
  BY <1>7 DEF AckFails, BroadcastToSubscribers, sessVars
<1>8. CASE \E present \in BOOLEAN : AwarenessUpdate(c, present)
  BY <1>8 DEF AwarenessUpdate, connVars
<1>9. CASE OutboundRecv(c) \/ OutboundReplaced(c) \/ SocketEnds(c)
  BY <1>9 DEF OutboundRecv, OutboundReplaced, SocketEnds, sessVars
<1>10. CASE CleanUpAwareness(c)
  BY <1>10 DEF CleanUpAwareness
<1> QED
  BY <1>1, <1>2, <1>3, <1>4, <1>5, <1>6, <1>7, <1>8, <1>9, <1>10 DEF Staying

\* Live is a finite set of connections.
LEMMA LiveFinite == \A s \in Sessions : IsFiniteSet(Live(s))
<1> TAKE s \in Sessions
<1>1. Live(s) \subseteq Conns
  BY DEF Live
<1> QED
  BY <1>1, ConnsFinite, FS_Subset

\* A leaving connection takes itself out of Live and, exactly when it was the
\* last one, clears the session.
LEMMA LeavingFrame ==
    ASSUME TypeOK, NoGhostSession, NEW c \in Conns, Leaving(c)
    PROVE  /\ sess' = sess
           /\ sess[c] \in Sessions
           /\ c \in Live(sess[c])
           /\ pc[c] \in {"hello", "leaving"} /\ pc'[c] = "closed"
           /\ \A d \in Conns \ {c} : pc'[d] = pc[d]
           /\ presence' = presence
           /\ \A s \in Sessions \ {sess[c]} :
                  /\ active'[s] = active[s]
                  /\ outbound'[s] = outbound[s]
                  /\ s \in subscribed' <=> s \in subscribed
           /\ active'[sess[c]] = active[sess[c]] - 1
           /\ Live(sess[c]) = {c} =>
                  sess[c] \notin subscribed' /\ outbound'[sess[c]] = NoConn
           /\ Live(sess[c]) # {c} =>
                  subscribed' = subscribed /\ outbound' = outbound
<1> DEFINE s == sess[c]
<1>1. /\ sess' = sess
      /\ s \in Sessions
      /\ c \in Live(s)
      /\ pc[c] \in {"hello", "leaving"} /\ pc'[c] = "closed"
      /\ \A d \in Conns \ {c} : pc'[d] = pc[d]
      /\ presence' = presence
      /\ LeaveSession(s)
  BY DEF TypeOK, PCs, Leaving, HelloRejected, MarkDisconnected, Live, Counted
<1>2. /\ IsFiniteSet(Live(s))
      /\ active[s] = Cardinality(Live(s))
      /\ active[s] \in Nat
  BY <1>1, LiveFinite DEF NoGhostSession, TypeOK
<1>3. active[s] # 0
  BY <1>1, <1>2, FS_EmptySet
<1>4. Live(s) = {c} => active[s] = 1
  BY <1>2, FS_Singleton
<1>5. Live(s) # {c} => active[s] > 1
  <2> SUFFICES ASSUME Live(s) # {c}, active[s] = 1 PROVE FALSE
      BY <1>2, <1>3
  <2>1. PICK x : Live(s) = {x}
      BY <1>2, FS_Singleton
  <2> QED
      BY <1>1, <2>1
<1> QED
  BY <1>1, <1>2, <1>3, <1>4, <1>5 DEF LeaveSession, LastOne, TypeOK

\* What each kind of step does to the connections of a session.
LEMMA LiveStaying ==
    ASSUME TypeOK, NEW c \in Conns, Staying(c), NEW s \in Sessions
    PROVE  Live(s)' = Live(s)
<1>1. /\ sess' = sess /\ pc[c] \in Counted /\ pc'[c] \in Counted
      /\ \A d \in Conns \ {c} : pc'[d] = pc[d]
  BY StayingFrame
<1> QED
  BY <1>1 DEF Live

\* A connection that leaves its session leaves the other connections live.
LEMMA LiveLeaving ==
    ASSUME TypeOK, NoGhostSession, NEW c \in Conns, Leaving(c), NEW s \in Sessions
    PROVE  Live(s)' = Live(s) \ {c}
<1>1. /\ sess' = sess /\ pc'[c] = "closed"
      /\ \A d \in Conns \ {c} : pc'[d] = pc[d]
  BY LeavingFrame
<1> QED
  BY <1>1 DEF Live, Counted, Serving

\* active_connections keeps counting the connections, and a session without
\* connections stays clean.
LEMMA NoGhostStep ==
    TypeOK /\ NoGhostSession /\ PresenceOwned /\ [Next]_vars => NoGhostSession'
<1> SUFFICES ASSUME TypeOK, NoGhostSession, PresenceOwned, [Next]_vars,
                    NEW s \in Sessions
             PROVE  /\ active'[s] = Cardinality(Live(s)')
                    /\ Live(s)' = {} => /\ s \notin subscribed'
                                        /\ s \notin presence'
                                        /\ outbound'[s] = NoConn
    BY DEF NoGhostSession, Live
<1>0. /\ active[s] = Cardinality(Live(s))
      /\ IsFiniteSet(Live(s))
      /\ Live(s) = {} => /\ s \notin subscribed
                         /\ s \notin presence
                         /\ outbound[s] = NoConn
  BY LiveFinite DEF NoGhostSession
<1>1. CASE UNCHANGED <<sessVars, connVars>>
  BY <1>0, <1>1 DEF sessVars, connVars, Live
<1>2. ASSUME NEW c \in Conns, Staying(c)
      PROVE  /\ active'[s] = Cardinality(Live(s)')
             /\ Live(s)' = {} => /\ s \notin subscribed'
                                 /\ s \notin presence'
                                 /\ outbound'[s] = NoConn
  <2>1. Live(s)' = Live(s) /\ active' = active
    BY <1>2, LiveStaying, StayingFrame
  <2>2. ASSUME Live(s) = {} PROVE s # sess[c]
    <3>1. pc[c] \in Counted
      BY <1>2, StayingFrame
    <3> QED
      BY <2>2, <3>1 DEF Live
  <2> QED
    BY <1>0, <1>2, <2>1, <2>2, StayingFrame
<1>3. ASSUME NEW c \in Conns, Leaving(c)
      PROVE  /\ active'[s] = Cardinality(Live(s)')
             /\ Live(s)' = {} => /\ s \notin subscribed'
                                 /\ s \notin presence'
                                 /\ outbound'[s] = NoConn
  <2>1. Live(s)' = Live(s) \ {c}
    BY <1>3, LiveLeaving
  <2>2. CASE s # sess[c]
    <3>1. Live(s)' = Live(s)
      BY <2>1, <2>2 DEF Live
    <3> QED
      BY <1>0, <1>3, <2>2, <3>1, LeavingFrame
  <2>3. CASE s = sess[c]
    <3>1. c \in Live(s)
      BY <1>3, <2>3, LeavingFrame
    <3>2. active'[s] = Cardinality(Live(s)')
      <4>1. active'[s] = active[s] - 1
        BY <1>3, <2>3, LeavingFrame
      <4>2. Cardinality(Live(s) \ {c}) = Cardinality(Live(s)) - 1
        BY <1>0, <3>1, FS_RemoveElement
      <4> QED
        BY <1>0, <2>1, <4>1, <4>2
    <3>3. ASSUME Live(s)' = {}
          PROVE  s \notin subscribed' /\ s \notin presence' /\ outbound'[s] = NoConn
      <4>1. Live(s) = {c}
        BY <2>1, <3>1, <3>3
      <4>2. s \notin subscribed' /\ outbound'[s] = NoConn /\ presence' = presence
        BY <1>3, <2>3, <4>1, LeavingFrame
      <4>3. pc[c] \in {"hello", "leaving"}
        BY <1>3, LeavingFrame
      <4>4. s \notin presence
        BY <4>1, <4>3 DEF PresenceOwned, Live, Counted, Serving
      <4> QED
        BY <4>2, <4>4
    <3> QED
      BY <3>2, <3>3
  <2> QED
    BY <2>2, <2>3
<1>4. ASSUME NEW c \in Conns, NEW t \in Sessions, MarkConnected(c, t)
      PROVE  /\ active'[s] = Cardinality(Live(s)')
             /\ Live(s)' = {} => /\ s \notin subscribed'
                                 /\ s \notin presence'
                                 /\ outbound'[s] = NoConn
  <2>1. /\ c \notin Live(s)
        /\ Live(s)' = IF s = t THEN Live(s) \cup {c} ELSE Live(s)
        /\ active'[s] = IF s = t THEN active[s] + 1 ELSE active[s]
        /\ subscribed' = subscribed /\ presence' = presence /\ outbound' = outbound
    BY <1>4 DEF MarkConnected, TypeOK, Live, Counted, Serving
  <2>2. Cardinality(Live(s) \cup {c}) = Cardinality(Live(s)) + 1
    BY <1>0, <2>1, FS_AddElement
  <2> QED
    BY <1>0, <2>1, <2>2
<1> QED
  BY <1>1, <1>2, <1>3, <1>4, StepKinds

\* synced is set by StateSync only, and only a connection past its hello
\* has it set.
LEMMA SyncedFrame ==
    ASSUME TypeOK, NEW c \in Conns, Staying(c)
    PROVE  /\ \A d \in Conns \ {c} : synced'[d] = synced[d]
           /\ pc'[c] \notin {"idle", "hello"}
           /\ pc'[c] = "build" => sess[c] \in subscribed'
           /\ \/ synced'[c] = synced[c]
              \/ pc[c] = "build"
           /\ pc'[c] \in Serving => pc[c] \in Serving \cup {"hello"}
<1> USE DEF TypeOK, Counted, Serving, PCs
<1>1. CASE RegisterOutbound(c)
  BY <1>1 DEF RegisterOutbound
<1>2. CASE \E n \in Bases \cup {NoSeq} : TrackSubscription(c, n)
  BY <1>2 DEF TrackSubscription
<1>3. CASE StateSync(c) \/ StateSyncFails(c)
  BY <1>3 DEF StateSync, StateSyncFails
<1>4. CASE \E u \in Updates : ApplyDuplicate(c, u)
  BY <1>4 DEF ApplyDuplicate
<1>5. CASE \E u \in Updates, base \in Bases : ApplyFresh(c, u, base)
  BY <1>5 DEF ApplyFresh
<1>6. CASE AckSent(c)
  BY <1>6 DEF AckSent
<1>7. CASE AckFails(c) \/ BroadcastToSubscribers(c)
  BY <1>7 DEF AckFails, BroadcastToSubscribers
<1>8. CASE \E present \in BOOLEAN : AwarenessUpdate(c, present)
  BY <1>8 DEF AwarenessUpdate, connVars
<1>9. CASE OutboundRecv(c) \/ OutboundReplaced(c) \/ SocketEnds(c)
  BY <1>9 DEF OutboundRecv, OutboundReplaced, SocketEnds
<1>10. CASE CleanUpAwareness(c)
  BY <1>10 DEF CleanUpAwareness
<1> QED
  BY <1>1, <1>2, <1>3, <1>4, <1>5, <1>6, <1>7, <1>8, <1>9, <1>10 DEF Staying

\* No departure takes a subscription from a connection that is still there.
LEMMA SubscriptionStep ==
    TypeOK /\ NoGhostSession /\ SubscriptionKept /\ [Next]_vars => SubscriptionKept'
<1> SUFFICES ASSUME TypeOK, NoGhostSession, SubscriptionKept, [Next]_vars,
                    NEW d \in Conns
             PROVE  /\ pc'[d] \in {"idle", "hello"} => ~synced'[d]
                    /\ synced'[d] /\ pc'[d] \in Serving => sess'[d] \in subscribed'
                    /\ pc'[d] = "build" => sess'[d] \in subscribed'
    BY DEF SubscriptionKept
<1>1. CASE UNCHANGED <<sessVars, connVars>>
  BY <1>1 DEF sessVars, connVars, SubscriptionKept
<1>2. ASSUME NEW c \in Conns, Staying(c)
      PROVE  /\ pc'[d] \in {"idle", "hello"} => ~synced'[d]
             /\ synced'[d] /\ pc'[d] \in Serving => sess'[d] \in subscribed'
             /\ pc'[d] = "build" => sess'[d] \in subscribed'
  <2>1. CASE d # c
    BY <1>2, <2>1, StayingFrame, SyncedFrame DEF SubscriptionKept
  <2>2. CASE d = c
    BY <1>2, <2>2, StayingFrame, SyncedFrame DEF SubscriptionKept
  <2> QED
    BY <2>1, <2>2
<1>3. ASSUME NEW c \in Conns, Leaving(c)
      PROVE  /\ pc'[d] \in {"idle", "hello"} => ~synced'[d]
             /\ synced'[d] /\ pc'[d] \in Serving => sess'[d] \in subscribed'
             /\ pc'[d] = "build" => sess'[d] \in subscribed'
  <2>0. synced' = synced
    BY <1>3 DEF Leaving, HelloRejected, MarkDisconnected
  <2>1. CASE d = c
    BY <1>3, <2>1, LeavingFrame DEF Serving
  <2>2. CASE d # c
    <3>1. pc'[d] = pc[d] /\ sess'[d] = sess[d]
      BY <1>3, <2>2, LeavingFrame
    <3>2. ASSUME pc[d] \in Serving, sess[d] \in subscribed PROVE sess[d] \in subscribed'
      <4>0. sess[d] \in Sessions
        BY <3>2 DEF TypeOK
      <4>1. CASE sess[d] # sess[c]
        BY <1>3, <3>2, <4>0, <4>1, LeavingFrame
      <4>2. CASE sess[d] = sess[c]
        <5>1. d \in Live(sess[c])
          BY <3>2, <4>2 DEF Live, Counted
        <5>2. Live(sess[c]) # {c}
          BY <2>2, <5>1
        <5> QED
          BY <1>3, <3>2, <5>2, LeavingFrame
      <4> QED
        BY <4>1, <4>2
    <3> QED
      BY <2>0, <3>1, <3>2 DEF SubscriptionKept, Serving
  <2> QED
    BY <2>1, <2>2
<1>4. ASSUME NEW c \in Conns, NEW t \in Sessions, MarkConnected(c, t)
      PROVE  /\ pc'[d] \in {"idle", "hello"} => ~synced'[d]
             /\ synced'[d] /\ pc'[d] \in Serving => sess'[d] \in subscribed'
             /\ pc'[d] = "build" => sess'[d] \in subscribed'
  BY <1>4 DEF MarkConnected, TypeOK, SubscriptionKept, Serving
<1> QED
  BY <1>1, <1>2, <1>3, <1>4, StepKinds

\* A presence entry has a connection that will remove it.
LEMMA PresenceStep ==
    TypeOK /\ NoGhostSession /\ PresenceOwned /\ [Next]_vars => PresenceOwned'
<1> SUFFICES ASSUME TypeOK, NoGhostSession, PresenceOwned, [Next]_vars,
                    NEW s \in presence'
             PROVE  /\ s \in subscribed'
                    /\ \E e \in Conns : sess'[e] = s /\ pc'[e] \in Serving \cup {"cleanup"}
    BY DEF PresenceOwned
<1>1. CASE UNCHANGED <<sessVars, connVars>>
  BY <1>1 DEF sessVars, connVars, PresenceOwned
<1>2. ASSUME NEW c \in Conns, Staying(c), ~CleanUpAwareness(c)
      PROVE  /\ s \in subscribed'
             /\ \E e \in Conns : sess'[e] = s /\ pc'[e] \in Serving \cup {"cleanup"}
  <2>1. pc'[c] \in Serving \cup {"cleanup"}
    BY <1>2 DEF Staying, RegisterOutbound, TrackSubscription, StateSync,
         StateSyncFails, ApplyDuplicate, ApplyFresh, AckSent, AckFails,
         BroadcastToSubscribers, AwarenessUpdate, OutboundRecv,
         OutboundReplaced, SocketEnds, TypeOK, Serving, connVars
  <2>2. (s = sess[c] /\ s \in subscribed') \/ s \in presence
    BY <1>2, StayingFrame DEF Staying, RegisterOutbound, TrackSubscription, StateSync,
         StateSyncFails, ApplyDuplicate, ApplyFresh, AckSent, AckFails,
         BroadcastToSubscribers, AwarenessUpdate, OutboundRecv,
         OutboundReplaced, SocketEnds, sessVars
  <2>3. CASE s \in presence
    BY <1>2, <2>1, <2>3, StayingFrame DEF PresenceOwned
  <2> QED
    BY <1>2, <2>1, <2>2, <2>3, StayingFrame
<1>3. ASSUME NEW c \in Conns, CleanUpAwareness(c)
      PROVE  /\ s \in subscribed'
             /\ \E e \in Conns : sess'[e] = s /\ pc'[e] \in Serving \cup {"cleanup"}
  <2>1. s \in presence /\ s # sess[c]
    BY <1>3 DEF CleanUpAwareness, PresenceOwned
  <2> QED
    BY <1>3, <2>1 DEF CleanUpAwareness, PresenceOwned, TypeOK
<1>4. ASSUME NEW c \in Conns, Leaving(c)
      PROVE  /\ s \in subscribed'
             /\ \E e \in Conns : sess'[e] = s /\ pc'[e] \in Serving \cup {"cleanup"}
  <2>1. s \in presence
    BY <1>4, LeavingFrame
  <2>2. PICK e \in Conns : sess[e] = s /\ pc[e] \in Serving \cup {"cleanup"}
    BY <2>1 DEF PresenceOwned
  <2>3. e # c /\ pc'[e] = pc[e] /\ sess'[e] = s
    BY <1>4, <2>2, LeavingFrame DEF Serving
  <2>4. s \in subscribed'
    <3>1. s \in Sessions /\ s \in subscribed
      BY <2>1 DEF PresenceOwned, TypeOK
    <3>2. CASE s = sess[c]
      <4>1. Live(sess[c]) # {c}
        BY <2>2, <2>3, <3>2 DEF Live, Counted
      <4> QED
        BY <1>4, <3>1, <4>1, LeavingFrame
    <3> QED
      BY <1>4, <3>1, <3>2, LeavingFrame
  <2> QED
    BY <2>2, <2>3, <2>4
<1>5. ASSUME NEW c \in Conns, NEW t \in Sessions, MarkConnected(c, t)
      PROVE  /\ s \in subscribed'
             /\ \E e \in Conns : sess'[e] = s /\ pc'[e] \in Serving \cup {"cleanup"}
  <2>1. s \in presence /\ subscribed' = subscribed
    BY <1>5 DEF MarkConnected
  <2>2. PICK e \in Conns : sess[e] = s /\ pc[e] \in Serving \cup {"cleanup"}
    BY <2>1 DEF PresenceOwned
  <2> QED
    BY <1>5, <2>1, <2>2 DEF MarkConnected, PresenceOwned, TypeOK, Serving
<1> QED
  BY <1>1, <1>2, <1>3, <1>4, <1>5, StepKinds

-----------------------------------------------------------------------------
(***************************************************************************)
(* Delivery.                                                               *)
(***************************************************************************)

\* The steps that neither sequence, broadcast, deliver nor orphan an update.
Quiet(c) ==
    \/ \E s \in Sessions : MarkConnected(c, s)
    \/ HelloRejected(c)
    \/ RegisterOutbound(c)
    \/ \E n \in Bases \cup {NoSeq} : TrackSubscription(c, n)
    \/ StateSyncFails(c)
    \/ \E u \in Updates : ApplyDuplicate(c, u)
    \/ AckSent(c)
    \/ \E present \in BOOLEAN : AwarenessUpdate(c, present)
    \/ OutboundReplaced(c)
    \/ SocketEnds(c)
    \/ CleanUpAwareness(c)
    \/ MarkDisconnected(c)

\* A quiet step serves no new connection, keeps what is queued and written
\* for the served ones, and keeps every pending broadcast pending.
LEMMA QuietFrame ==
    ASSUME TypeOK, InflightSequenced, SubscriptionKept, NEW c \in Conns, Quiet(c),
           NEW d \in Conns, Served(d)'
    PROVE  /\ updates' = updates /\ orphaned' = orphaned
           /\ Served(d)
           /\ floor'[d] = floor[d] /\ got'[d] = got[d] /\ chan'[d] = chan[d]
           /\ \A n \in Nat : BroadcastPending(n) => BroadcastPending(n)'
<1> USE DEF TypeOK, Served, Serving, SubscriptionKept, BroadcastPending, InFlight
<1>1. CASE \E s \in Sessions : MarkConnected(c, s)
  BY <1>1 DEF MarkConnected, docVars
<1>2. CASE HelloRejected(c)
  <2>1. /\ updates' = updates /\ orphaned' = orphaned /\ sess' = sess
        /\ synced' = synced /\ inflight' = inflight /\ floor' = floor /\ got' = got
        /\ pc[c] \notin {"ack", "bcast"}
        /\ pc'[c] = "closed" /\ \A x \in Conns \ {c} : pc'[x] = pc[x] /\ chan'[x] = chan[x]
        /\ sess[c] \in Sessions
        /\ \/ outbound' = outbound
           \/ outbound' = [outbound EXCEPT ![sess[c]] = NoConn]
    BY <1>2 DEF HelloRejected, LeaveSession, LastOne, docVars
  <2>2. d # c /\ outbound[sess[d]] = d
    BY <2>1, NoConnFresh
  <2> QED
    BY <2>1, <2>2
<1>3. CASE RegisterOutbound(c)
  BY <1>3 DEF RegisterOutbound, docVars
<1>4. CASE \E n \in Bases \cup {NoSeq} : TrackSubscription(c, n)
  BY <1>4 DEF TrackSubscription, docVars
<1>5. CASE StateSyncFails(c)
  BY <1>5 DEF StateSyncFails, sessVars, docVars
<1>6. CASE \E u \in Updates : ApplyDuplicate(c, u)
  BY <1>6 DEF ApplyDuplicate, docVars, sessVars
<1>7. CASE AckSent(c)
  <2>1. /\ updates' = updates /\ orphaned' = orphaned /\ sess' = sess
        /\ synced' = synced /\ floor' = floor /\ got' = got /\ chan' = chan
        /\ outbound' = outbound
        /\ pc[c] = "ack" /\ \A x \in Conns \ {c} : pc'[x] = pc[x] /\ inflight'[x] = inflight[x]
    BY <1>7 DEF AckSent, docVars, sessVars
  <2>2. inflight[c].applied => pc'[c] = "bcast" /\ inflight'[c] = inflight[c]
    BY <1>7 DEF AckSent
  <2>3. ASSUME NEW n \in Nat, BroadcastPending(n) PROVE BroadcastPending(n)'
    <3>1. PICK x \in Conns : /\ pc[x] \in {"ack", "bcast"}
                             /\ inflight[x].applied
                             /\ inflight[x].seq = n
      BY <2>3
    <3>2. CASE x = c
      BY <2>2, <3>1, <3>2
    <3>3. CASE x # c
      BY <2>1, <3>1, <3>3
    <3> QED
      BY <3>2, <3>3
  <2> QED
    BY <2>1, <2>3
<1>8. CASE \E present \in BOOLEAN : AwarenessUpdate(c, present)
  BY <1>8 DEF AwarenessUpdate, connVars, docVars
<1>9. CASE OutboundReplaced(c)
  BY <1>9 DEF OutboundReplaced, sessVars, docVars
<1>10. CASE SocketEnds(c)
  BY <1>10 DEF SocketEnds, sessVars, docVars
<1>11. CASE CleanUpAwareness(c)
  BY <1>11 DEF CleanUpAwareness, docVars
<1>12. CASE MarkDisconnected(c)
  <2>1. /\ updates' = updates /\ orphaned' = orphaned /\ sess' = sess
        /\ synced' = synced /\ inflight' = inflight /\ floor' = floor /\ got' = got
        /\ pc[c] \notin {"ack", "bcast"}
        /\ pc'[c] = "closed" /\ \A x \in Conns \ {c} : pc'[x] = pc[x] /\ chan'[x] = chan[x]
        /\ sess[c] \in Sessions
        /\ \/ outbound' = outbound
           \/ outbound' = [outbound EXCEPT ![sess[c]] = NoConn]
    BY <1>12 DEF MarkDisconnected, LeaveSession, LastOne, docVars
  <2>2. d # c /\ outbound[sess[d]] = d
    BY <2>1, NoConnFresh
  <2> QED
    BY <2>1, <2>2
<1> QED
  BY <1>1, <1>2, <1>3, <1>4, <1>5, <1>6, <1>7, <1>8, <1>9, <1>10, <1>11, <1>12 DEF Quiet

\* Subscribing, sequencing, acking, broadcasting and delivering never leave a
\* gap in front of a served connection.
LEMMA DeliveryStep ==
    /\ TypeOK /\ InflightSequenced /\ SubscriptionKept /\ NoLostUpdate
    /\ [Next]_vars
    => NoLostUpdate'
<1> SUFFICES ASSUME TypeOK, InflightSequenced, SubscriptionKept, NoLostUpdate,
                    [Next]_vars,
                    NEW d \in Conns, NEW e \in updates', Served(d)'
             PROVE  Reaches(d, e.seq)' \/ e.seq \in orphaned'
    BY DEF NoLostUpdate
<1>t. TypeOK'
  BY TypeStep
<1>s. e.seq \in Nat
  BY <1>t DEF TypeOK, Entry
<1>n. Served(d) => \A f \in updates : Reaches(d, f.seq) \/ f.seq \in orphaned
  BY DEF NoLostUpdate
<1>1. CASE UNCHANGED vars
  BY <1>1, <1>n DEF vars, docVars, sessVars, connVars, Served, Reaches,
                    InChannel, BroadcastPending
<1>2. ASSUME NEW n \in HydrateSeqs, SetSnapshot(n) PROVE FALSE
  BY <1>2 DEF SetSnapshot, Served, SubscriptionKept, sessVars, connVars
<1>3. ASSUME NEW n \in HydrateSeqs, NEW u \in Updates, AppendUpdate(n, u) PROVE FALSE
  BY <1>3 DEF AppendUpdate, Served, SubscriptionKept, sessVars, connVars
<1>4. ASSUME NEW c \in Conns, Quiet(c)
      PROVE  Reaches(d, e.seq)' \/ e.seq \in orphaned'
  <2>1. /\ updates' = updates /\ orphaned' = orphaned /\ Served(d)
        /\ floor'[d] = floor[d] /\ got'[d] = got[d] /\ chan'[d] = chan[d]
        /\ \A n \in Nat : BroadcastPending(n) => BroadcastPending(n)'
    BY <1>4, QuietFrame
  <2> QED
    BY <1>s, <1>n, <2>1 DEF Reaches, InChannel
<1>5. ASSUME NEW c \in Conns, StateSync(c)
      PROVE  Reaches(d, e.seq)' \/ e.seq \in orphaned'
  <2>1. /\ updates' = updates /\ orphaned' = orphaned /\ chan' = chan
        /\ pc[c] = "build"
        /\ inflight' = inflight /\ sess' = sess /\ outbound' = outbound
        /\ \A x \in Conns \ {c} : /\ pc'[x] = pc[x] /\ synced'[x] = synced[x]
                                  /\ floor'[x] = floor[x] /\ got'[x] = got[x]
    BY <1>5 DEF StateSync, docVars, sessVars, TypeOK
  <2>2. CASE d = c
    <3>1. floor'[c] = CursorSeq(last[c]) /\ got'[c] = got[c] \cup MissingSeqs(last[c])
      BY <1>5 DEF StateSync, TypeOK
    <3>2. CursorSeq(last[c]) \in Nat
      BY DEF CursorSeq, SendsSnapshot, TypeOK, NoSeq
    <3>3. e.seq > CursorSeq(last[c]) => e.seq \in MissingSeqs(last[c])
      BY <2>1 DEF MissingSeqs
    <3> QED
      BY <1>s, <2>2, <3>1, <3>2, <3>3 DEF Reaches
  <2>3. CASE d # c
    <3>1. Served(d)
      BY <2>1, <2>3 DEF Served
    <3>2. ASSUME BroadcastPending(e.seq) PROVE BroadcastPending(e.seq)'
      BY <2>1, <3>2 DEF BroadcastPending
    <3> QED
      BY <1>n, <2>1, <2>3, <3>1, <3>2 DEF Reaches, InChannel
  <2> QED
    BY <2>2, <2>3
<1>6. ASSUME NEW c \in Conns, NEW u \in Updates, NEW base \in Bases,
             ApplyFresh(c, u, base)
      PROVE  Reaches(d, e.seq)' \/ e.seq \in orphaned'
  <2>1. /\ orphaned' = orphaned /\ chan' = chan /\ floor' = floor /\ got' = got
        /\ synced' = synced /\ sess' = sess /\ outbound' = outbound
        /\ pc[c] = "loop" /\ pc'[c] = "ack"
        /\ inflight'[c] = [u |-> u, seq |-> head + 1, applied |-> TRUE]
        /\ \A x \in Conns \ {c} : pc'[x] = pc[x] /\ inflight'[x] = inflight[x]
        /\ e \in updates \/ e.seq = head + 1
    BY <1>6 DEF ApplyFresh, NextServerSeq, sessVars, TypeOK
  <2>2. CASE e.seq = head + 1
    BY <2>1, <2>2 DEF Reaches, BroadcastPending
  <2>3. CASE e \in updates
    <3>1. Served(d)
      BY <2>1 DEF Served, Serving
    <3>2. ASSUME BroadcastPending(e.seq) PROVE BroadcastPending(e.seq)'
      BY <2>1, <3>2 DEF BroadcastPending
    <3> QED
      BY <1>n, <2>1, <2>3, <3>1, <3>2 DEF Reaches, InChannel
  <2> QED
    BY <2>1, <2>2, <2>3
<1>7. ASSUME NEW c \in Conns, AckFails(c)
      PROVE  Reaches(d, e.seq)' \/ e.seq \in orphaned'
  <2>1. /\ updates' = updates /\ chan' = chan /\ floor' = floor /\ got' = got
        /\ synced' = synced /\ sess' = sess /\ outbound' = outbound
        /\ pc[c] = "ack" /\ pc'[c] = "cleanup"
        /\ orphaned \subseteq orphaned'
        /\ inflight[c].applied => inflight[c].seq \in orphaned'
        /\ \A x \in Conns \ {c} : pc'[x] = pc[x] /\ inflight'[x] = inflight[x]
    BY <1>7 DEF AckFails, docVars, sessVars, TypeOK
  <2>2. Served(d)
    BY <2>1 DEF Served, Serving
  <2>3. ASSUME BroadcastPending(e.seq)
        PROVE  BroadcastPending(e.seq)' \/ e.seq \in orphaned'
    BY <2>1, <2>3 DEF BroadcastPending
  <2> QED
    BY <1>n, <2>1, <2>2, <2>3 DEF Reaches, InChannel
<1>8. ASSUME NEW c \in Conns, BroadcastToSubscribers(c)
      PROVE  Reaches(d, e.seq)' \/ e.seq \in orphaned'
  <2>1. /\ updates' = updates /\ orphaned' = orphaned /\ floor' = floor /\ got' = got
        /\ synced' = synced /\ sess' = sess /\ outbound' = outbound
        /\ pc[c] = "bcast" /\ pc'[c] = "loop"
        /\ \A x \in Conns \ {c} : pc'[x] = pc[x] /\ inflight'[x] = inflight[x]
    BY <1>8 DEF BroadcastToSubscribers, docVars, sessVars, TypeOK
  <2>2. Served(d)
    BY <2>1 DEF Served, Serving
  <2>3. d \in Recipients
    BY <2>2 DEF Served, Recipients, SubscriptionKept, Counted
  <2>4. chan'[d] = Append(chan[d], inflight[c].seq)
    BY <1>8, <2>3 DEF BroadcastToSubscribers
  <2>5. /\ chan[d] \in Seq(Nat) /\ inflight[c].seq \in Nat
        /\ Len(chan'[d]) = Len(chan[d]) + 1
        /\ chan'[d][Len(chan[d]) + 1] = inflight[c].seq
        /\ \A i \in 1 .. Len(chan[d]) : chan'[d][i] = chan[d][i]
    BY <2>4 DEF TypeOK, InFlight
  <2>6. ASSUME InChannel(d, e.seq) PROVE InChannel(d, e.seq)'
    BY <2>5, <2>6 DEF InChannel
  <2>7. ASSUME BroadcastPending(e.seq)
        PROVE  BroadcastPending(e.seq)' \/ InChannel(d, e.seq)'
    <3>1. PICK x \in Conns : /\ pc[x] \in {"ack", "bcast"}
                             /\ inflight[x].applied
                             /\ inflight[x].seq = e.seq
      BY <2>7 DEF BroadcastPending
    <3>2. CASE x = c
      <4>1. Len(chan[d]) + 1 \in 1 .. Len(chan'[d])
        BY <2>5
      <4> QED
        BY <2>5, <3>1, <3>2, <4>1 DEF InChannel
    <3>3. CASE x # c
      BY <2>1, <3>1, <3>3 DEF BroadcastPending
    <3> QED
      BY <3>2, <3>3
  <2> QED
    BY <1>n, <2>1, <2>2, <2>6, <2>7 DEF Reaches
<1>9. ASSUME NEW c \in Conns, OutboundRecv(c)
      PROVE  Reaches(d, e.seq)' \/ e.seq \in orphaned'
  <2>1. /\ updates' = updates /\ orphaned' = orphaned /\ floor' = floor
        /\ UNCHANGED <<pc, sess, synced, outbound, inflight>>
        /\ chan[c] \in Seq(Nat) /\ chan[c] # <<>>
        /\ got'[c] = got[c] \cup {Head(chan[c])} /\ chan'[c] = Tail(chan[c])
        /\ \A x \in Conns \ {c} : got'[x] = got[x] /\ chan'[x] = chan[x]
    BY <1>9 DEF OutboundRecv, docVars, sessVars, TypeOK
  <2>2. Served(d)
    BY <2>1 DEF Served
  <2>3. ASSUME InChannel(c, e.seq) PROVE InChannel(c, e.seq)' \/ e.seq \in got'[c]
    <3>1. PICK i \in 1 .. Len(chan[c]) : chan[c][i] = e.seq
      BY <2>3 DEF InChannel
    <3>2. CASE i = 1
      BY <2>1, <3>1, <3>2
    <3>3. CASE i # 1
      <4>1. i - 1 \in 1 .. Len(chan'[c]) /\ chan'[c][i - 1] = chan[c][i]
        BY <2>1, <3>3
      <4> QED
        BY <3>1, <4>1 DEF InChannel
    <3> QED
      BY <3>2, <3>3
  <2>4. BroadcastPending(e.seq) => BroadcastPending(e.seq)'
    BY <2>1 DEF BroadcastPending
  <2> QED
    BY <1>n, <2>1, <2>2, <2>3, <2>4 DEF Reaches, InChannel
<1>10. ASSUME NEW c \in Conns, ConnNext(c)
       PROVE  \/ Quiet(c) \/ StateSync(c)
              \/ \E u \in Updates, base \in Bases : ApplyFresh(c, u, base)
              \/ AckFails(c) \/ BroadcastToSubscribers(c) \/ OutboundRecv(c)
  BY <1>10 DEF ConnNext, Quiet
<1> QED
  BY <1>1, <1>2, <1>3, <1>4, <1>5, <1>6, <1>7, <1>8, <1>9, <1>10 DEF Next

-----------------------------------------------------------------------------
(***************************************************************************)
(* The theorems.                                                           *)
(***************************************************************************)

\* The empty relay satisfies the inductive invariant.
LEMMA InitIndInv == Init => IndInv
<1> SUFFICES ASSUME Init PROVE IndInv
    OBVIOUS
<1>1. TypeOK
  BY DEF Init, TypeOK, PCs, InFlight, NothingInFlight, NoSeq
<1>2. ExactlyOnce /\ AckAgreement /\ InflightSequenced /\ DeliveredSequenced
  BY DEF Init, ExactlyOnce, AckAgreement, InflightSequenced, DeliveredSequenced
<1>3. NoGhostSession
  <2>1. \A s \in Sessions : Live(s) = {}
    BY DEF Init, Live, Counted, Serving
  <2> QED
    BY <2>1, FS_EmptySet DEF Init, NoGhostSession
<1>4. SubscriptionKept /\ PresenceOwned /\ NoLostUpdate
  BY DEF Init, SubscriptionKept, PresenceOwned, NoLostUpdate, Serving
<1> QED
  BY <1>1, <1>2, <1>3, <1>4 DEF IndInv

\* Every handler of the relay keeps the inductive invariant.
LEMMA IndInvStep == IndInv /\ [Next]_vars => IndInv'
  BY TypeStep, ExactlyOnceStep, InflightStep, AckStep, DeliveredStep,
     NoGhostStep, SubscriptionStep, PresenceStep, DeliveryStep DEF IndInv

\* The inductive invariant holds in every reachable state.
THEOREM Invariance == Spec => []IndInv
  BY InitIndInv, IndInvStep, PTL DEF Spec

\* Types hold for any number of connections.
THEOREM TypeCorrect == Spec => []TypeOK
<1>1. IndInv => TypeOK
  BY DEF IndInv
<1> QED
  BY Invariance, <1>1, PTL

\* The relay stores every update once, whatever is retried where.
THEOREM ExactlyOnceHolds == Spec => []ExactlyOnce
<1>1. IndInv => ExactlyOnce
  BY DEF IndInv
<1> QED
  BY Invariance, <1>1, PTL

\* All acks of an update agree with the log.
THEOREM AckAgreementHolds == Spec => []AckAgreement
<1>1. IndInv => AckAgreement
  BY DEF IndInv
<1> QED
  BY Invariance, <1>1, PTL

\* Sessions are cleaned up by their last connection and by no earlier one.
THEOREM NoGhostSessionHolds == Spec => []NoGhostSession
<1>1. IndInv => NoGhostSession
  BY DEF IndInv
<1> QED
  BY Invariance, <1>1, PTL

\* A served connection misses no update, skipped broadcasts aside.
THEOREM NoLostUpdateHolds == Spec => []NoLostUpdate
<1>1. IndInv => NoLostUpdate
  BY DEF IndInv
<1> QED
  BY Invariance, <1>1, PTL

\* The log is append-only.
THEOREM LogAppendOnlyHolds == Spec => LogAppendOnly
<1>1. IndInv /\ [Next]_vars => [LogStep]_vars
  BY LogStepHolds DEF IndInv
<1> QED
  BY Invariance, <1>1, PTL DEF Spec, LogAppendOnly

-----------------------------------------------------------------------------
(***************************************************************************)
(* Refinement of SequencedLog.                                             *)
(***************************************************************************)

\* Only five actions change what the abstract log sees.
LEMMA AbstractFrame ==
    ASSUME [Next]_vars
    PROVE  \/ UNCHANGED <<dedupe, acks, got>>
           \/ \E n \in HydrateSeqs, u \in Updates : AppendUpdate(n, u)
           \/ \E c \in Conns :
                  \/ StateSync(c)
                  \/ \E u \in Updates, base \in Bases : ApplyFresh(c, u, base)
                  \/ AckSent(c)
                  \/ OutboundRecv(c)
  BY DEF Next, vars, docVars, connVars, SetSnapshot, ConnNext, MarkConnected,
         HelloRejected, RegisterOutbound, TrackSubscription, StateSyncFails,
         ApplyDuplicate, AckFails, BroadcastToSubscribers, AwarenessUpdate,
         OutboundReplaced, SocketEnds, CleanUpAwareness, MarkDisconnected

\* Sequence numbers of stored updates are sequenced in the abstract log, and
\* the head is above every number given out.
LEMMA StoredIsSequenced ==
    ASSUME TypeOK, ExactlyOnce
    PROVE  /\ \A e \in updates : e.seq \in Log!Sequenced
           /\ \A v \in Updates : dedupe[v] <= head
<1>1. \A e \in updates : e.u \in Updates /\ dedupe[e.u] = e.seq /\ e.seq # 0
  BY DEF TypeOK, ExactlyOnce, Entry
<1>2. \A e \in updates : e.seq \in Log!Sequenced
  BY <1>1 DEF Log!Sequenced
<1>3. ASSUME NEW v \in Updates PROVE dedupe[v] <= head
  <2>1. CASE dedupe[v] = 0
    BY <2>1 DEF TypeOK
  <2>2. CASE dedupe[v] # 0
    <3>1. PICK e \in updates : e.u = v
      BY <2>2 DEF ExactlyOnce
    <3> QED
      BY <3>1 DEF ExactlyOnce
  <2> QED
    BY <2>1, <2>2
<1> QED
  BY <1>2, <1>3

\* Every step of the sync plane is a step of the abstract log or a stutter.
LEMMA RefinementStep == IndInv /\ [Next]_vars => [Log!Next]_(Log!vars)
<1> SUFFICES ASSUME IndInv, [Next]_vars PROVE [Log!Next]_(Log!vars)
    OBVIOUS
<1>0. TypeOK /\ ExactlyOnce /\ InflightSequenced /\ DeliveredSequenced
  BY DEF IndInv
<1>1. CASE UNCHANGED <<dedupe, acks, got>>
  BY <1>1 DEF Log!vars
<1>2. ASSUME NEW n \in HydrateSeqs, NEW u \in Updates, AppendUpdate(n, u)
      PROVE  Log!Sequence(u)
  <2>1. /\ n \in Nat /\ n > head
        /\ dedupe[u] = 0 /\ dedupe' = [dedupe EXCEPT ![u] = n]
        /\ acks' = acks /\ got' = got
    BY <1>2, HydrateSeqsPos DEF AppendUpdate, connVars
  <2>2. dedupe'[u] = n
    BY <1>0, <2>1 DEF TypeOK
  <2> QED
    BY <1>0, <2>1, <2>2, StoredIsSequenced DEF Log!Sequence, TypeOK
<1>3. ASSUME NEW c \in Conns, NEW u \in Updates, NEW base \in Bases,
             ApplyFresh(c, u, base)
      PROVE  Log!Sequence(u)
  <2>1. /\ head + 1 \in Nat
        /\ dedupe[u] = 0 /\ dedupe' = [dedupe EXCEPT ![u] = head + 1]
        /\ acks' = acks /\ got' = got
    BY <1>0, <1>3 DEF ApplyFresh, NextServerSeq, AlreadySequenced, TypeOK
  <2>2. dedupe'[u] = head + 1
    BY <1>0, <2>1 DEF TypeOK
  <2> QED
    BY <1>0, <2>1, <2>2, StoredIsSequenced, SMTT(60) DEF Log!Sequence, TypeOK
<1>4. ASSUME NEW c \in Conns, AckSent(c)
      PROVE  inflight[c].u \in Updates /\ Log!Tell(inflight[c].u)
  BY <1>0, <1>4 DEF AckSent, Log!Tell, TypeOK, InFlight, InflightSequenced, docVars
<1>5. ASSUME NEW c \in Conns, StateSync(c)
      PROVE  \E S \in SUBSET Log!Sequenced : Log!Show(c, S)
  <2>1. MissingSeqs(last[c]) \subseteq Log!Sequenced
    BY <1>0, StoredIsSequenced DEF MissingSeqs
  <2>2. Log!Show(c, MissingSeqs(last[c]))
    BY <1>5, <2>1 DEF StateSync, Log!Show, docVars
  <2> QED
    BY <2>1, <2>2
<1>6. ASSUME NEW c \in Conns, OutboundRecv(c)
      PROVE  \E S \in SUBSET Log!Sequenced : Log!Show(c, S)
  <2>1. /\ chan[c] \in Seq(Nat) /\ chan[c] # <<>>
        /\ Head(chan[c]) = chan[c][1] /\ 1 \in 1 .. Len(chan[c])
    BY <1>0, <1>6 DEF OutboundRecv, TypeOK
  <2>2. {Head(chan[c])} \subseteq Log!Sequenced
    BY <1>0, <2>1, StoredIsSequenced DEF DeliveredSequenced
  <2>3. Log!Show(c, {Head(chan[c])})
    BY <1>6, <2>2 DEF OutboundRecv, Log!Show, docVars
  <2> QED
    BY <2>2, <2>3
<1> QED
  BY <1>1, <1>2, <1>3, <1>4, <1>5, <1>6, AbstractFrame DEF Log!Next

\* The sync plane implements the sequenced log.
THEOREM RefinesSequencedLog == Spec => LogRefinement
<1>1. Init => Log!Init
  BY DEF Init, Log!Init
<1> QED
  BY <1>1, Invariance, RefinementStep, PTL DEF Spec, LogRefinement, Log!Spec
=============================================================================
