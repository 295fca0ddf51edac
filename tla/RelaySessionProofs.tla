------------------------- MODULE RelaySessionProofs -------------------------
(***************************************************************************)
(* Proofs about the daemon's connection to the relay: its types, that a    *)
(* connected manager has its session's resume token, that a connection     *)
(* that was not resumed has the subscriptions the manager believes in, and *)
(* that the heartbeat drops a silent peer in time.                         *)
(***************************************************************************)
EXTENDS RelaySession, TLAPS

\* The bounds and times are natural numbers.
LEMMA Bounds ==
    /\ MaxSessions \in Nat /\ MaxTime \in Nat /\ MaxQueue \in Nat /\ ResumeTTL \in Nat
    /\ SessionTTL \in Nat /\ Interval \in Nat /\ Timeout \in Nat
BY BoundsNat

\* A blank session has the right shape and nothing in it.
LEMMA BlankOK ==
    /\ NoSession \in Sessions
    /\ UpOK(NoSession) /\ DownOK(NoSession) /\ DueOK(NoSession)
    /\ NoSession.conn = "none"
<1>1. <<>> \in Seq(Messages) /\ Len(<<>>) = 0
  OBVIOUS
<1>2. NoSession \in Sessions
  BY <1>1, Bounds DEF NoSession, Sessions, Times, NoPing, NoToken
<1>3. QED
  BY <1>1, <1>2 DEF NoSession, UpOK, DownOK, DueOK

\* The messages are messages.
LEMMA MessageTypes ==
    /\ \A t \in Nat : Hello(t) \in Messages /\ Hello(t).type = "hello" /\ Hello(t).token = t
    /\ \A ok \in BOOLEAN, t \in Nat :
           /\ HelloAck(ok, t) \in Messages /\ HelloAck(ok, t).type = "hello_ack"
           /\ HelloAck(ok, t).token = t /\ HelloAck(ok, t).resumed = ok
    /\ \A d \in Docs : /\ Subscribing(d) \in Messages /\ Subscribing(d).type = "subscribe"
                       /\ Subscribing(d).doc = d
    /\ Refusal \in Messages /\ Refusal.type = "error"
BY DEF Hello, HelloAck, Subscribing, Refusal, Messages

\* A message is what its type says.
LEMMA MessageFields ==
    ASSUME NEW m \in Messages
    PROVE  /\ m.type = "hello" => m.token \in Nat
           /\ m.type = "subscribe" => m.doc \in Docs
           /\ m.type = "hello_ack" => m.token \in Nat /\ m.resumed \in BOOLEAN
BY DEF Messages, Refusal

\* Initially nothing is connected and no session is made.
LEMMA InitInv == Init => IndInv
<1> SUFFICES ASSUME Init PROVE IndInv
  OBVIOUS
<1>1. \A s \in Ids : sess[s] = NoSession
  BY DEF Init
<1>2. sess \in [Ids -> Sessions]
  BY BlankOK DEF Init
<1>3. TypeOK
  <2>1. 0 \in 0..MaxSessions /\ 0 \in 0..MaxTime /\ \A x \in 1..0 : FALSE
    BY Bounds
  <2>2. resumed \in BOOLEAN
    BY Zenon DEF Init
  <2>3. nextToken \in Nat \ {NoToken} /\ token \in 0..(nextToken - 1) /\ cur \in 0..made
    BY DEF Init, NoToken
  <2>4. QED
    BY <1>2, <2>1, <2>2, <2>3 DEF Init, TypeOK
<1>4. QED
  BY <1>1, <1>3, BlankOK
     DEF Init, IndInv, Unmade, Handshake, Uplink, Downlink, TickDue, TokenAgreement,
         FreshIsTracked, SubscribedIsTracked

\* The numbers of a state and their order.
LEMMA Numbers ==
    ASSUME TypeOK
    PROVE  /\ nextToken \in Nat /\ nextToken > 0 /\ token \in Nat /\ token < nextToken
           /\ made \in Nat /\ made <= MaxSessions /\ cur \in Nat /\ cur <= made
           /\ now \in Nat /\ now <= MaxTime
           /\ cur # 0 => cur \in Ids
           /\ \A x \in Ids : x \in Nat /\ x >= 1
<1>1. nextToken \in Nat /\ nextToken > 0
  BY DEF TypeOK, NoToken
<1>2. token \in Nat /\ token < nextToken
  BY <1>1 DEF TypeOK
<1>3. made \in Nat /\ made <= MaxSessions /\ now \in Nat /\ now <= MaxTime
  BY Bounds DEF TypeOK
<1>4. cur \in Nat /\ cur <= made
  BY <1>3 DEF TypeOK
<1>5. QED
  BY <1>1, <1>2, <1>3, <1>4, Bounds DEF Ids

\* What the relay may do to one session and keep the invariant.
LEMMA RelayStep ==
    ASSUME IndInv, NEW s \in Ids, NEW r \in Sessions,
           s <= made,
           sess' = [sess EXCEPT ![s] = r],
           UNCHANGED <<client, made, now>>,
           nextToken' \in {nextToken, nextToken + 1},
           r.resume \in 1..(nextToken' - 1),
           accepted' \subseteq (1..(nextToken' - 1)) \X Ids,
           UpOK(r), DownOK(r), DueOK(r),
           r.conn = "none" <=> sess[s].conn = "none",
           sess[s].conn \in {"serving", "closed", "timedout"} =>
               /\ r.conn \in {"serving", "closed", "timedout"}
               /\ r.resume = sess[s].resume,
           r.conn = "serving" /\ sess[s].conn = "serving" =>
               sess[s].subs \cup sess[s].refused \cup OnTheWay(s)
                   \subseteq r.subs \cup r.refused \cup OnTheWay(s)',
           r.conn = "serving" => sess[s].conn \in {"hello", "serving"}
    PROVE  IndInv'
<1> USE DEF client
<1>1. /\ sess' \in [Ids -> Sessions] /\ sess'[s] = r
      /\ \A x \in Ids : x # s => sess'[x] = sess[x]
  BY DEF IndInv, TypeOK
<1>2. TypeOK'
  <2>1. \A x \in 1..made : sess'[x].resume \in 1..(nextToken' - 1)
    BY <1>1 DEF IndInv, TypeOK, Ids
  <2>2. nextToken' \in Nat \ {NoToken} /\ token \in 0..(nextToken' - 1)
    BY Numbers DEF IndInv, NoToken
  <2>3. QED
    BY <1>1, <2>1, <2>2 DEF IndInv, TypeOK
<1>3. Unmade'
  BY <1>1 DEF IndInv, TypeOK, Unmade, Ids
<1>4. Uplink' /\ Downlink' /\ TickDue'
  <2>1. \A x \in Ids : UpOK(sess'[x]) /\ DownOK(sess'[x])
    BY <1>1 DEF IndInv, Uplink, Downlink
  <2>2. \A x \in Ids : DueOK(sess[x])'
    <3> SUFFICES ASSUME NEW x \in Ids PROVE DueOK(sess[x])'
      OBVIOUS
    <3>1. DueOK(sess[x]) /\ now' = now
      BY DEF IndInv, TickDue
    <3>2. QED
      BY <1>1, <3>1 DEF DueOK
  <2>3. Uplink' /\ Downlink'
    BY <2>1 DEF Uplink, Downlink, UpOK, DownOK
  <2>4. TickDue'
    BY <2>2 DEF TickDue
  <2>5. QED
    BY <2>3, <2>4
<1>5. cur # 0 => cur \in Ids
  BY Numbers DEF IndInv
<1>6. Handshake'
  BY <1>1, <1>5 DEF IndInv, Handshake
<1>7. TokenAgreement'
  BY <1>1, <1>5 DEF IndInv, Handshake, TokenAgreement
<1>8. FreshIsTracked'
  <2> SUFFICES ASSUME ~resumed, state = "connected", sess'[cur].conn = "serving"
               PROVE  subscribed \subseteq
                          sess'[cur].subs \cup sess'[cur].refused \cup OnTheWay(cur)'
    BY DEF FreshIsTracked, SubscribedIsTracked
  <2>1. cur \in Ids
    BY <1>5 DEF IndInv, Handshake
  <2>2. CASE cur # s
    <3>1. sess'[cur] = sess[cur]
      BY <1>1, <2>1, <2>2
    <3>2. OnTheWay(cur)' = OnTheWay(cur)
      BY <3>1 DEF OnTheWay
    <3>3. QED
      BY <3>1, <3>2 DEF IndInv, FreshIsTracked, SubscribedIsTracked
  <2>3. CASE cur = s
    <3>1. sess[s].conn = "serving" /\ r.conn = "serving"
      BY <1>1, <2>3 DEF IndInv, Handshake
    <3>2. QED
      BY <1>1, <2>3, <3>1 DEF IndInv, FreshIsTracked, SubscribedIsTracked
  <2>4. QED
    BY <2>2, <2>3
<1>9. QED
  BY <1>2, <1>3, <1>4, <1>6, <1>7, <1>8 DEF IndInv

\* The first element and the rest of a sequence.
LEMMA TailFacts ==
    ASSUME NEW S, NEW q \in Seq(S), q # <<>>
    PROVE  /\ Head(q) \in S /\ Head(q) = q[1] /\ Len(q) \in Nat \ {0}
           /\ Tail(q) \in Seq(S) /\ Len(Tail(q)) = Len(q) - 1
           /\ \A i \in 1 .. (Len(q) - 1) : Tail(q)[i] = q[i + 1] /\ i + 1 \in 1 .. Len(q)
OBVIOUS

\* A sequence with one more element.
LEMMA AppendFacts ==
    ASSUME NEW S, NEW q \in Seq(S), NEW m \in S
    PROVE  /\ Append(q, m) \in Seq(S) /\ Len(Append(q, m)) = Len(q) + 1
           /\ Append(q, m)[Len(q) + 1] = m /\ Len(q) \in Nat
           /\ \A i \in 1 .. Len(q) : Append(q, m)[i] = q[i]
OBVIOUS

\* A session that has a connection has been made.
LEMMA ConnectedIsMade ==
    ASSUME IndInv, NEW s \in Ids, sess[s].conn # "none"
    PROVE  /\ s <= made /\ sess[s] \in Sessions /\ sess[s].resume \in 1..(nextToken - 1)
           /\ sess[s].up \in Seq(Messages) /\ sess[s].down \in Seq(Messages)
<1>1. s <= made
  BY BlankOK, Numbers DEF IndInv, Unmade
<1>2. sess[s] \in Sessions
  BY DEF IndInv, TypeOK
<1>3. s \in 1..made
  BY <1>1, Numbers DEF IndInv
<1>4. QED
  BY <1>1, <1>2, <1>3 DEF IndInv, TypeOK, Sessions

\* A session whose connection has ended.
LEMMA EndedFacts ==
    ASSUME NEW r \in Sessions, NEW how \in {"closed", "timedout"}
    PROVE  /\ Ended(r, how) \in Sessions
           /\ Ended(r, how).conn = how /\ Ended(r, how).up = <<>>
           /\ Ended(r, how).down = r.down /\ Ended(r, how).resume = r.resume
<1>1. <<>> \in Seq(Messages)
  OBVIOUS
<1>2. how \in {"none", "hello", "serving", "closed", "timedout"} /\ {} \in SUBSET Docs
  OBVIOUS
<1>3. Ended(r, how) \in Sessions
  BY <1>1, <1>2 DEF Ended, Sessions
<1>4. QED
  BY <1>3 DEF Ended, Sessions

\* The end of a connection, whatever it has been sent before.
LEMMA EndedInv ==
    ASSUME IndInv, NEW s \in Ids, sess[s].conn \in {"hello", "serving"},
           NEW r \in Sessions, NEW how \in {"closed", "timedout"},
           sess' = [sess EXCEPT ![s] = Ended(r, how)],
           UNCHANGED <<client, made, now>>,
           nextToken' \in {nextToken, nextToken + 1},
           r.resume \in 1..(nextToken' - 1),
           accepted' \subseteq (1..(nextToken' - 1)) \X Ids,
           DownOK(r),
           sess[s].conn = "serving" => r.resume = sess[s].resume
    PROVE  IndInv'
<1> DEFINE e == Ended(r, how)
<1>1. /\ e \in Sessions /\ e.conn = how /\ e.up = <<>> /\ e.down = r.down
      /\ e.resume = r.resume
  BY EndedFacts
<1>2. UpOK(e) /\ DownOK(e) /\ DueOK(e)
  BY <1>1 DEF UpOK, DownOK, DueOK
<1>3. s <= made
  BY ConnectedIsMade
<1> HIDE DEF e
<1>4. QED
  BY <1>1, <1>2, <1>3, RelayStep DEF e

\* SocketEnds: the relay forgets the connection, the session stays.
LEMMA SocketEndsInv ==
    ASSUME IndInv, NEW s \in Ids, SocketEnds(s)
    PROVE  IndInv'
<1>1. DownOK(sess[s]) /\ sess[s] \in Sessions /\ sess[s].resume \in 1..(nextToken - 1)
  BY ConnectedIsMade DEF SocketEnds, IndInv, Downlink
<1>2. accepted \subseteq (1..(nextToken - 1)) \X Ids
  BY DEF IndInv, TypeOK
<1>3. sess' = [sess EXCEPT ![s] = Ended(sess[s], "closed")]
  BY DEF SocketEnds, IndInv, TypeOK
<1>4. QED
  BY <1>1, <1>2, <1>3, EndedInv DEF SocketEnds

\* HelloExpired: one error goes down and the connection ends.
LEMMA HelloExpiredInv ==
    ASSUME IndInv, NEW s \in Ids, HelloExpired(s)
    PROVE  IndInv'
<1> DEFINE r == [sess[s] EXCEPT !.down = <<Refusal>>]
<1>1. sess[s] \in Sessions /\ sess[s].resume \in 1..(nextToken - 1)
  BY ConnectedIsMade DEF HelloExpired
<1>2. /\ r \in Sessions /\ r.resume = sess[s].resume /\ r.conn = sess[s].conn
      /\ r.down = <<Refusal>>
  <2>1. <<Refusal>> \in Seq(Messages)
    BY MessageTypes
  <2>2. r \in Sessions
    BY <1>1, <2>1 DEF Sessions
  <2>3. QED
    BY <1>1, <2>2 DEF Sessions
<1>3. accepted \subseteq (1..(nextToken - 1)) \X Ids
  BY DEF IndInv, TypeOK
<1>4. sess' = [sess EXCEPT ![s] = Ended(r, "closed")] /\ sess[s].conn = "hello"
  BY DEF HelloExpired, IndInv, TypeOK
<1> DEFINE e == Ended(r, "closed")
<1>5. /\ e \in Sessions /\ e.conn = "closed" /\ e.up = <<>> /\ e.down = <<Refusal>>
      /\ e.resume = sess[s].resume
  BY <1>2, EndedFacts
<1>6. UpOK(e) /\ DownOK(e) /\ DueOK(e)
  BY <1>5, MessageTypes DEF UpOK, DownOK, DueOK
<1>7. s <= made
  BY <1>4, ConnectedIsMade
<1>8. UNCHANGED <<client, made, now, nextToken, accepted>>
  BY DEF HelloExpired
<1> HIDE DEF e, r
<1>9. QED
  BY <1>1, <1>3, <1>4, <1>5, <1>6, <1>7, <1>8, RelayStep DEF e

\* Times that are written are times.
LEMMA TimesFacts ==
    ASSUME TypeOK
    PROVE  /\ now \in Times /\ now + Interval \in Times /\ now + ResumeTTL \in Times
           /\ now + SessionTTL \in Times
           /\ now \in 0..NoPing /\ NoPing \in 0..NoPing
BY Numbers, Bounds DEF Times, NoPing

\* The rotation of the resume token at hello.
LEMMA RotatedFacts ==
    ASSUME IndInv, NEW s \in Ids, sess[s].conn = "hello", sess[s].up # <<>>
    PROVE  /\ Rotated(s) \in Sessions /\ Rotated(s).resume = nextToken
           /\ Rotated(s).conn = "hello" /\ Rotated(s).down = <<>>
           /\ Rotated(s).up = Tail(sess[s].up)
<1>1. sess[s] \in Sessions /\ Tail(sess[s].up) \in Seq(Messages)
  BY ConnectedIsMade, TailFacts
<1>2. nextToken \in Nat /\ now + ResumeTTL \in Times
  BY Numbers, TimesFacts DEF IndInv
<1>3. Rotated(s) \in Sessions
  BY <1>1, <1>2 DEF Rotated, Sessions
<1>4. sess[s].down = <<>>
  BY DEF IndInv, Downlink, DownOK
<1>5. QED
  BY <1>1, <1>3, <1>4 DEF Rotated, Sessions

\* HandleHello: hello_ack brings the token the session was rotated to, or the
\* connection ends before it is served.
LEMMA HandleHelloInv ==
    ASSUME IndInv, NEW s \in Ids, HandleHello(s)
    PROVE  IndInv'
<1> DEFINE t == Head(sess[s].up).token
           ok == ResumeAccepted(s, t)
           r == [Rotated(s) EXCEPT !.conn = "serving", !.down = <<HelloAck(ok, nextToken)>>,
                                   !.tickAt = now + Interval, !.pongAt = now]
<1>1. sess[s].conn = "hello" /\ sess[s].up # <<>>
  BY DEF HandleHello
<1>2. /\ s <= made /\ sess[s] \in Sessions /\ sess[s].resume \in 1..(nextToken - 1)
      /\ sess[s].up \in Seq(Messages)
  BY <1>1, ConnectedIsMade
<1>3. nextToken \in Nat /\ nextToken > 0
  BY Numbers DEF IndInv
<1>4. accepted' \subseteq (1..(nextToken' - 1)) \X Ids
  <2>1. ok => t \in 1..(nextToken - 1)
    BY <1>2 DEF ResumeAccepted
  <2>2. accepted \subseteq (1..(nextToken - 1)) \X Ids
    BY DEF IndInv, TypeOK
  <2>3. nextToken' = nextToken + 1 /\ (1..(nextToken - 1)) \subseteq 1..(nextToken' - 1)
    BY <1>3 DEF HandleHello
  <2>4. accepted' = IF ok THEN accepted \cup {<<t, s>>} ELSE accepted
    BY DEF HandleHello
  <2> HIDE DEF t, ok
  <2>5. QED
    BY <2>1, <2>2, <2>3, <2>4
<1>5. nextToken' = nextToken + 1 /\ UNCHANGED <<client, made, now>>
  BY DEF HandleHello
<1>6. CASE sess' = [sess EXCEPT ![s] = Ended(Rotated(s), "closed")]
  <2>1. DownOK(Rotated(s)) /\ Rotated(s) \in Sessions /\ Rotated(s).resume = nextToken
    BY <1>1, RotatedFacts DEF DownOK
  <2>2. Rotated(s).resume \in 1..(nextToken' - 1)
    BY <2>1, <1>3, <1>5
  <2>3. QED
    BY <1>1, <1>4, <1>5, <1>6, <2>1, <2>2, EndedInv
<1>7. CASE sess' = [sess EXCEPT ![s] = r]
  <2>1. HelloAck(ok, nextToken) \in Messages /\ HelloAck(ok, nextToken).token = nextToken
    BY <1>3, MessageTypes, Zenon DEF ResumeAccepted
  <2>2. /\ Rotated(s) \in Sessions /\ Rotated(s).resume = nextToken
        /\ Rotated(s).up = Tail(sess[s].up)
    BY <1>1, RotatedFacts
  <2>3. now \in Times /\ now + Interval \in Times
    BY TimesFacts DEF IndInv
  <2> DEFINE a == HelloAck(ok, nextToken)
  <2>4. <<a>> \in Seq(Messages)
    BY <2>1
  <2> HIDE DEF a, ok, t
  <2>5. r \in Sessions
    BY <2>2, <2>3, <2>4 DEF Sessions, a
  <2>6. /\ r.conn = "serving" /\ r.down = <<a>> /\ r.tickAt = now + Interval
        /\ r.pongAt = now /\ r.resume = nextToken /\ r.up = Tail(sess[s].up)
    BY <2>2, <2>5 DEF Sessions, a
  <2> HIDE DEF r
  <2>7. Len(r.up) = 0
    <3>1. Len(sess[s].up) <= 1
      BY <1>1 DEF IndInv, Uplink, UpOK
    <3>2. Len(sess[s].up) \in Nat \ {0} /\ Len(Tail(sess[s].up)) = Len(sess[s].up) - 1
      BY <1>1, <1>2, TailFacts
    <3>3. ASSUME NEW n \in Nat \ {0}, n <= 1 PROVE n - 1 = 0
      BY <3>3
    <3>4. Len(Tail(sess[s].up)) = 0
      BY <3>1, <3>2, <3>3, Zenon
    <3>5. QED
      BY <2>6, <3>4, Zenon
  <2>8. UpOK(r)
    <3>1. \A i \in 1 .. 0 : FALSE
      OBVIOUS
    <3>2. r.conn # "hello" /\ \A i \in 1 .. Len(r.up) : FALSE
      BY <2>6, <2>7, <3>1
    <3>3. QED
      BY <3>2, Zenon DEF UpOK
  <2>9. DownOK(r)
    BY <2>1, <2>6 DEF DownOK, a
  <2>10. DueOK(r)
    BY <2>6, Numbers, Bounds DEF DueOK, IndInv
  <2>11. r.resume \in 1..(nextToken' - 1)
    BY <1>3, <1>5, <2>6
  <2>12. QED
    BY <1>1, <1>2, <1>4, <1>5, <1>7, <2>5, <2>6, <2>8, <2>9, <2>10, <2>11, RelayStep
<1>8. QED
  BY <1>6, <1>7 DEF HandleHello

\* HandleSubscribe: a document that leaves the uplink is tracked or refused.
LEMMA HandleSubscribeInv ==
    ASSUME IndInv, NEW s \in Ids, HandleSubscribe(s)
    PROVE  IndInv'
<1> DEFINE q == sess[s].up
           d == Head(q).doc
           b == [sess[s] EXCEPT !.up = Tail(@)]
           r1 == TrackSubscription(b, d)
           r2 == [b EXCEPT !.refused = @ \cup {d}, !.down = Append(@, Refusal)]
<1>1. sess[s].conn = "serving" /\ q # <<>>
  BY DEF HandleSubscribe
<1>2. /\ s <= made /\ sess[s] \in Sessions /\ sess[s].resume \in 1..(nextToken - 1)
      /\ q \in Seq(Messages) /\ sess[s].down \in Seq(Messages)
  BY <1>1, ConnectedIsMade
<1>3. /\ Tail(q) \in Seq(Messages) /\ Head(q) \in Messages /\ Head(q) = q[1]
      /\ Len(q) \in Nat \ {0} /\ Len(Tail(q)) = Len(q) - 1
      /\ \A i \in 1 .. (Len(q) - 1) : Tail(q)[i] = q[i + 1] /\ i + 1 \in 1 .. Len(q)
  BY <1>1, <1>2, TailFacts
<1>4. d \in Docs /\ \A i \in 1 .. Len(q) : q[i].type = "subscribe"
  <2>1. \A i \in 1 .. Len(q) : q[i].type = "subscribe"
    BY <1>1 DEF IndInv, Uplink, UpOK
  <2>2. QED
    BY <1>3, <2>1, MessageFields
<1>5. /\ b \in Sessions /\ b.conn = "serving" /\ b.up = Tail(q) /\ b.down = sess[s].down
      /\ b.resume = sess[s].resume /\ b.subs = sess[s].subs /\ b.refused = sess[s].refused
      /\ b.tickAt = sess[s].tickAt /\ b.pongAt = sess[s].pongAt
  BY <1>1, <1>2, <1>3 DEF Sessions
<1>6. DownOK(sess[s]) /\ DueOK(sess[s])
  BY DEF IndInv, Downlink, TickDue
<1>7. /\ nextToken' = nextToken /\ UNCHANGED <<client, made, now>>
      /\ accepted' \subseteq (1..(nextToken' - 1)) \X Ids
  BY DEF HandleSubscribe, IndInv, TypeOK
<1>8. ASSUME NEW r \in Sessions, sess' = [sess EXCEPT ![s] = r],
             r.conn = "serving", r.up = Tail(q), r.resume = sess[s].resume,
             r.tickAt = sess[s].tickAt, r.pongAt = sess[s].pongAt, DownOK(r),
             sess[s].subs \cup sess[s].refused \cup {d} \subseteq r.subs \cup r.refused
      PROVE  IndInv'
  <2>1. UpOK(r)
    BY <1>3, <1>4, <1>8 DEF UpOK
  <2>2. DueOK(r)
    BY <1>1, <1>6, <1>8 DEF DueOK
  <2>3. sess'[s].up = Tail(q)
    BY <1>8 DEF IndInv, TypeOK
  <2>4. OnTheWay(s) \subseteq {d} \cup OnTheWay(s)'
    <3> SUFFICES ASSUME NEW x \in OnTheWay(s), x # d PROVE x \in OnTheWay(s)'
      OBVIOUS
    <3>1. PICK i \in 1 .. Len(q) : x = q[i].doc
      BY <1>2 DEF OnTheWay
    <3>2. i # 1
      BY <1>3, <3>1
    <3>3. /\ i - 1 \in 1 .. Len(Tail(q)) /\ Tail(q)[i - 1] = q[i]
      BY <1>3, <3>1, <3>2
    <3>4. i - 1 \in DOMAIN Tail(q) /\ Tail(q)[i - 1].type = "subscribe"
      BY <1>3, <1>4, <3>3
    <3>5. QED
      BY <2>3, <3>1, <3>3, <3>4 DEF OnTheWay
  <2>5. QED
    BY <1>1, <1>2, <1>7, <1>8, <2>1, <2>2, <2>4, RelayStep
<1>9. CASE sess' = [sess EXCEPT ![s] = r1]
  <2>1. b.subs \cup {d} \in SUBSET Docs
    BY <1>4, <1>5 DEF Sessions
  <2> HIDE DEF b, d, q
  <2>2. r1 \in Sessions
    BY <1>5, <2>1 DEF TrackSubscription, Sessions
  <2>3. /\ r1.conn = "serving" /\ r1.up = Tail(q) /\ r1.resume = sess[s].resume
        /\ r1.tickAt = sess[s].tickAt /\ r1.pongAt = sess[s].pongAt
        /\ r1.down = sess[s].down /\ r1.subs = sess[s].subs \cup {d}
        /\ r1.refused = sess[s].refused
    BY <1>5 DEF TrackSubscription, Sessions
  <2>4. DownOK(r1)
    BY <1>6, <2>3 DEF DownOK
  <2> HIDE DEF r1
  <2>5. QED
    BY <1>8, <1>9, <2>2, <2>3, <2>4
<1>10. CASE sess' = [sess EXCEPT ![s] = r2]
  <2> DEFINE w == Append(sess[s].down, Refusal)
  <2>1. b.refused \cup {d} \in SUBSET Docs
    BY <1>4, <1>5 DEF Sessions
  <2>2. /\ w \in Seq(Messages) /\ Len(w) = Len(sess[s].down) + 1
        /\ w[Len(sess[s].down) + 1] = Refusal /\ Len(sess[s].down) \in Nat
        /\ \A i \in 1 .. Len(sess[s].down) : w[i] = sess[s].down[i]
    BY <1>2, MessageTypes, AppendFacts
  <2> HIDE DEF b, d, q
  <2>3. r2 \in Sessions
    BY <1>5, <2>1, <2>2 DEF Sessions
  <2>4. /\ r2.conn = "serving" /\ r2.up = Tail(q) /\ r2.resume = sess[s].resume
        /\ r2.tickAt = sess[s].tickAt /\ r2.pongAt = sess[s].pongAt
        /\ r2.down = w /\ r2.subs = sess[s].subs
        /\ r2.refused = sess[s].refused \cup {d}
    BY <1>5 DEF Sessions
  <2> HIDE DEF w, r2
  <2>5. DownOK(r2)
    BY <1>6, <2>2, <2>4, MessageTypes DEF DownOK
  <2>6. QED
    BY <1>8, <1>10, <2>3, <2>4, <2>5
<1>11. QED
  BY <1>9, <1>10 DEF HandleSubscribe

\* HeartbeatTick: a peer that is not silent is looked at again in an interval.
LEMMA HeartbeatTickInv ==
    ASSUME IndInv, NEW s \in Ids, HeartbeatTick(s)
    PROVE  IndInv'
<1> DEFINE r == [sess[s] EXCEPT !.tickAt = now + Interval, !.pingAt = now]
<1>1. sess[s].conn = "serving" /\ sess[s].tickAt = now /\ UNCHANGED <<client, made, now>>
  BY DEF HeartbeatTick
<1>2. /\ s <= made /\ sess[s] \in Sessions /\ sess[s].resume \in 1..(nextToken - 1)
  BY <1>1, ConnectedIsMade
<1>3. UpOK(sess[s]) /\ DownOK(sess[s]) /\ DueOK(sess[s])
  BY DEF IndInv, Uplink, Downlink, TickDue
<1>4. nextToken' = nextToken /\ accepted' \subseteq (1..(nextToken' - 1)) \X Ids
  BY DEF HeartbeatTick, IndInv, TypeOK
<1>5. CASE Silent(s)
  <2>1. sess' = [sess EXCEPT ![s] = Ended(sess[s], "timedout")]
    BY <1>5 DEF HeartbeatTick, IndInv, TypeOK
  <2>2. QED
    BY <1>1, <1>2, <1>3, <1>4, <2>1, EndedInv
<1>6. CASE ~Silent(s)
  <2>1. sess' = [sess EXCEPT ![s] = r]
    BY <1>6 DEF HeartbeatTick, IndInv, TypeOK
  <2>2. now + Interval \in Times /\ now \in 0..NoPing
    BY TimesFacts DEF IndInv
  <2>3. r \in Sessions
    BY <1>2, <2>2 DEF Sessions
  <2>4. /\ r.conn = "serving" /\ r.up = sess[s].up /\ r.down = sess[s].down
        /\ r.resume = sess[s].resume /\ r.subs = sess[s].subs /\ r.refused = sess[s].refused
        /\ r.tickAt = now + Interval /\ r.pongAt = sess[s].pongAt
    BY <1>1, <1>2, <2>3 DEF Sessions
  <2>5. UpOK(r) /\ DownOK(r)
    BY <1>1, <1>3, <2>4 DEF UpOK, DownOK
  <2>6. DueOK(r)
    <3>1. sess[s].pongAt \in Nat
      BY <1>2, Bounds DEF Sessions, Times
    <3>2. QED
      BY <1>1, <1>3, <1>6, <2>4, <3>1, Numbers, Bounds DEF DueOK, Silent, IndInv
  <2> HIDE DEF r
  <2>7. sess'[s].up = sess[s].up
    BY <2>1, <2>4 DEF IndInv, TypeOK
  <2>8. OnTheWay(s)' = OnTheWay(s)
    BY <2>7 DEF OnTheWay
  <2>9. QED
    BY <1>1, <1>2, <1>4, <2>1, <2>3, <2>4, <2>5, <2>6, <2>8, RelayStep
<1>7. QED
  BY <1>5, <1>6

\* Pong: the silence of the peer starts again.
LEMMA PongInv ==
    ASSUME IndInv, NEW s \in Ids, Pong(s)
    PROVE  IndInv'
<1> DEFINE r == [sess[s] EXCEPT !.pongAt = now, !.pingAt = NoPing]
<1>1. sess[s].conn = "serving" /\ UNCHANGED <<client, made, now>>
  BY DEF Pong
<1>2. /\ s <= made /\ sess[s] \in Sessions /\ sess[s].resume \in 1..(nextToken - 1)
  BY <1>1, ConnectedIsMade
<1>3. UpOK(sess[s]) /\ DownOK(sess[s]) /\ DueOK(sess[s])
  BY DEF IndInv, Uplink, Downlink, TickDue
<1>4. nextToken' = nextToken /\ accepted' \subseteq (1..(nextToken' - 1)) \X Ids
  BY DEF Pong, IndInv, TypeOK
<1>5. sess' = [sess EXCEPT ![s] = r]
  BY DEF Pong, IndInv, TypeOK
<1>6. now \in Times /\ NoPing \in 0..NoPing
  BY TimesFacts DEF IndInv
<1>7. r \in Sessions
  BY <1>2, <1>6 DEF Sessions
<1>8. /\ r.conn = "serving" /\ r.up = sess[s].up /\ r.down = sess[s].down
      /\ r.resume = sess[s].resume /\ r.subs = sess[s].subs /\ r.refused = sess[s].refused
      /\ r.tickAt = sess[s].tickAt /\ r.pongAt = now
  BY <1>1, <1>2, <1>7 DEF Sessions
<1>9. UpOK(r) /\ DownOK(r)
  BY <1>1, <1>3, <1>8 DEF UpOK, DownOK
<1>10. DueOK(r)
  <2>1. sess[s].tickAt \in Nat
    BY <1>2, Bounds DEF Sessions, Times
  <2>2. QED
    BY <1>1, <1>3, <1>8, <2>1, Numbers, Bounds DEF DueOK, IndInv
<1> HIDE DEF r
<1>11. OnTheWay(s)' = OnTheWay(s)
  <2>1. sess'[s].up = sess[s].up
    BY <1>5, <1>8 DEF IndInv, TypeOK
  <2>2. QED
    BY <2>1 DEF OnTheWay
<1>12. QED
  BY <1>1, <1>2, <1>4, <1>5, <1>7, <1>8, <1>9, <1>10, <1>11, RelayStep

\* Tick: time does not pass a timer that is due.
LEMMA TickInv ==
    ASSUME IndInv, Tick
    PROVE  IndInv'
<1> USE DEF client
<1>1. UNCHANGED <<client, sess, made, nextToken, accepted>> /\ now' = now + 1 /\ now < MaxTime
  BY DEF Tick
<1>2. now' \in 0..MaxTime
  BY <1>1, Numbers, Bounds DEF IndInv
<1>3. TypeOK'
  BY <1>1, <1>2 DEF IndInv, TypeOK
<1>4. TickDue'
  <2> SUFFICES ASSUME NEW s \in Ids, sess[s].conn = "serving"
               PROVE  DueOK(sess[s])'
    BY <1>1 DEF TickDue, DueOK
  <2>1. sess[s].tickAt > now /\ DueOK(sess[s])
    BY DEF Tick, IndInv, TickDue
  <2>2. sess[s].tickAt \in Nat /\ sess[s].pongAt \in Nat
    BY Bounds DEF IndInv, TypeOK, Sessions, Times
  <2>3. QED
    BY <1>1, <2>1, <2>2, Numbers, Bounds DEF DueOK, IndInv
<1>5. Unmade' /\ Handshake' /\ TokenAgreement'
  BY <1>1 DEF IndInv, Unmade, Handshake, TokenAgreement
<1>6. Uplink' /\ Downlink'
  BY <1>1 DEF IndInv, Uplink, Downlink
<1>7. FreshIsTracked'
  BY <1>1 DEF IndInv, FreshIsTracked, SubscribedIsTracked, OnTheWay
<1>8. QED
  BY <1>3, <1>4, <1>5, <1>6, <1>7 DEF IndInv

\* What the manager may do to its session and keep the parts of the invariant
\* that are about the sessions.
LEMMA ClientStep ==
    ASSUME IndInv, NEW s \in Ids, s <= made, NEW r \in Sessions,
           sess' = [sess EXCEPT ![s] = r],
           UNCHANGED <<made, nextToken, accepted, now>>,
           r.resume = sess[s].resume,
           UpOK(r), DownOK(r), DueOK(r),
           state' \in {"disconnected", "connecting", "authenticating", "connected"},
           cur' \in 0..made, token' \in 0..(nextToken - 1),
           subscribed' \subseteq Docs, resumed' \in BOOLEAN
    PROVE  TypeOK' /\ Unmade' /\ Uplink' /\ Downlink' /\ TickDue' /\ sess'[s] = r
<1>1. /\ sess' \in [Ids -> Sessions] /\ sess'[s] = r
      /\ \A x \in Ids : x # s => sess'[x] = sess[x]
  BY DEF IndInv, TypeOK
<1>2. TypeOK'
  <2>1. \A x \in 1..made : sess'[x].resume \in 1..(nextToken - 1)
    BY <1>1 DEF IndInv, TypeOK, Ids
  <2>2. QED
    BY <1>1, <2>1 DEF IndInv, TypeOK
<1>3. Unmade'
  BY <1>1 DEF IndInv, TypeOK, Unmade, Ids
<1>4. \A x \in Ids : UpOK(sess'[x]) /\ DownOK(sess'[x])
  BY <1>1 DEF IndInv, Uplink, Downlink
<1>5. Uplink' /\ Downlink'
  BY <1>4 DEF Uplink, Downlink, UpOK, DownOK
<1>6. TickDue'
  <2> SUFFICES ASSUME NEW x \in Ids PROVE DueOK(sess[x])'
    BY DEF TickDue
  <2>1. DueOK(sess[x]) /\ now' = now
    BY DEF IndInv, TickDue
  <2>2. QED
    BY <1>1, <2>1 DEF DueOK
<1>7. QED
  BY <1>1, <1>2, <1>3, <1>5, <1>6

\* The session of a manager that is not disconnected.
LEMMA CurrentSession ==
    ASSUME IndInv, state # "disconnected"
    PROVE  /\ cur \in Ids /\ cur <= made /\ cur \in 0..made /\ sess[cur] \in Sessions
           /\ sess[cur].resume \in 1..(nextToken - 1)
           /\ sess[cur].up \in Seq(Messages) /\ sess[cur].down \in Seq(Messages)
           /\ UpOK(sess[cur]) /\ DownOK(sess[cur]) /\ DueOK(sess[cur])
<1>1. cur \in Ids /\ cur <= made /\ cur \in 0..made
  BY Numbers DEF IndInv, Handshake
<1>2. cur \in 1..made
  BY <1>1, Numbers DEF IndInv
<1>3. sess[cur] \in Sessions /\ sess[cur].resume \in 1..(nextToken - 1)
  BY <1>1, <1>2 DEF IndInv, TypeOK
<1>4. QED
  BY <1>1, <1>3 DEF IndInv, Uplink, Downlink, TickDue, Sessions

\* The manager's own variables have their types, which a step keeps that does
\* not touch them.
LEMMA ClientTypes ==
    ASSUME IndInv
    PROVE  /\ token \in 0..(nextToken - 1) /\ subscribed \subseteq Docs
           /\ resumed \in BOOLEAN /\ 0 \in 0..made
BY Numbers DEF IndInv, TypeOK

\* The manager hangs up: it has no session any more, and the relay does not
\* know of it yet.
LEMMA HangUpInv ==
    ASSUME IndInv, state # "disconnected", state' = "disconnected", cur' = 0,
           sess' = [sess EXCEPT ![cur].clientEnd = "closed"],
           UNCHANGED <<token, subscribed, resumed, made, nextToken, accepted, now>>
    PROVE  IndInv'
<1> DEFINE r == [sess[cur] EXCEPT !.clientEnd = "closed"]
<1>1. /\ cur \in Ids /\ cur <= made /\ sess[cur] \in Sessions
      /\ UpOK(sess[cur]) /\ DownOK(sess[cur]) /\ DueOK(sess[cur])
  BY CurrentSession
<1>2. sess' = [sess EXCEPT ![cur] = r]
  BY <1>1 DEF IndInv, TypeOK
<1>3. r \in Sessions
  BY <1>1 DEF Sessions
<1>4. /\ r.conn = sess[cur].conn /\ r.up = sess[cur].up /\ r.down = sess[cur].down
      /\ r.resume = sess[cur].resume /\ r.tickAt = sess[cur].tickAt
      /\ r.pongAt = sess[cur].pongAt
  BY <1>1 DEF Sessions
<1> HIDE DEF r
<1>5. UpOK(r) /\ DownOK(r) /\ DueOK(r)
  BY <1>1, <1>4 DEF UpOK, DownOK, DueOK
<1>6. TypeOK' /\ Unmade' /\ Uplink' /\ Downlink' /\ TickDue'
  BY <1>1, <1>2, <1>3, <1>4, <1>5, ClientTypes, ClientStep
<1>7. Handshake' /\ TokenAgreement' /\ FreshIsTracked'
  BY DEF Handshake, TokenAgreement, FreshIsTracked, SubscribedIsTracked
<1>8. QED
  BY <1>6, <1>7 DEF IndInv

\* Disconnect.
LEMMA DisconnectInv ==
    ASSUME IndInv, Disconnect
    PROVE  IndInv'
BY HangUpInv DEF Disconnect

\* ConnectFails: nothing is open yet, or the manager hangs up.
LEMMA ConnectFailsInv ==
    ASSUME IndInv, ConnectFails
    PROVE  IndInv'
<1>1. CASE state = "authenticating"
  BY <1>1, HangUpInv DEF ConnectFails
<1>2. CASE state # "authenticating"
  <2>1. /\ state' = "disconnected" /\ cur' = 0 /\ sess' = sess
        /\ UNCHANGED <<token, subscribed, resumed, made, nextToken, accepted, now>>
    BY <1>2 DEF ConnectFails
  <2>2. TypeOK'
    BY <2>1, ClientTypes DEF IndInv, TypeOK
  <2>3. Unmade' /\ Uplink' /\ Downlink'
    BY <2>1 DEF IndInv, Unmade, Uplink, Downlink
  <2>4. TickDue'
    BY <2>1 DEF IndInv, TickDue, DueOK
  <2>5. Handshake' /\ TokenAgreement' /\ FreshIsTracked'
    BY <2>1 DEF Handshake, TokenAgreement, FreshIsTracked, SubscribedIsTracked
  <2>6. QED
    BY <2>2, <2>3, <2>4, <2>5 DEF IndInv
<1>3. QED
  BY <1>1, <1>2

\* ConnectWs: hello is the first message up.
LEMMA ConnectWsInv ==
    ASSUME IndInv, ConnectWs
    PROVE  IndInv'
<1> DEFINE q == <<Hello(token)>>
           r == [sess[cur] EXCEPT !.conn = "hello", !.clientEnd = "open", !.up = q]
<1>1. /\ state = "connecting" /\ state' = "authenticating"
      /\ UNCHANGED <<cur, token, subscribed, resumed, made, nextToken, accepted, now>>
  BY DEF ConnectWs
<1>2. /\ cur \in Ids /\ cur <= made /\ cur \in 0..made /\ sess[cur] \in Sessions
      /\ DownOK(sess[cur])
  BY <1>1, CurrentSession
<1>3. q \in Seq(Messages) /\ Len(q) = 1 /\ q[1].type = "hello"
  BY MessageTypes, Numbers DEF IndInv
<1>4. sess' = [sess EXCEPT ![cur] = r]
  BY <1>2 DEF ConnectWs, IndInv, TypeOK
<1> HIDE DEF q
<1>5. r \in Sessions
  BY <1>2, <1>3 DEF Sessions
<1>6. /\ r.conn = "hello" /\ r.up = q /\ r.down = sess[cur].down
      /\ r.resume = sess[cur].resume
  BY <1>2, <1>5 DEF Sessions
<1> HIDE DEF r
<1>7. sess[cur].conn = "none" /\ cur # 0
  BY <1>1 DEF IndInv, Handshake
<1>8. UpOK(r) /\ DownOK(r) /\ DueOK(r)
  <2>1. Len(q) <= 1 /\ \A i \in 1 .. Len(q) : q[i].type = "hello"
    <3>1. \A i \in 1..1 : i = 1
      OBVIOUS
    <3>2. QED
      BY <1>3, <3>1
  <2>2. r.conn # "serving"
    BY <1>6
  <2>3. UpOK(r)
    BY <1>6, <2>1, <2>2, Zenon DEF UpOK
  <2>4. DownOK(r) /\ DueOK(r)
    BY <1>2, <1>6, <1>7 DEF DownOK, DueOK
  <2>5. QED
    BY <2>3, <2>4
<1>9. TypeOK' /\ Unmade' /\ Uplink' /\ Downlink' /\ TickDue'
  BY <1>1, <1>2, <1>4, <1>5, <1>6, <1>8, ClientTypes, ClientStep
<1>10. Handshake' /\ TokenAgreement' /\ FreshIsTracked'
  BY <1>1, <1>7 DEF Handshake, TokenAgreement, FreshIsTracked, SubscribedIsTracked
<1>11. QED
  BY <1>9, <1>10 DEF IndInv

\* What a message taken from the downlink leaves.
LEMMA DownTaken ==
    ASSUME IndInv, state # "disconnected", sess[cur].down # <<>>,
           NEW r, r = [sess[cur] EXCEPT !.down = Tail(@)]
    PROVE  /\ r \in Sessions /\ r.conn = sess[cur].conn /\ r.up = sess[cur].up
           /\ r.resume = sess[cur].resume /\ r.subs = sess[cur].subs
           /\ r.refused = sess[cur].refused
           /\ UpOK(r) /\ DownOK(r) /\ DueOK(r)
           /\ sess[cur].conn \in {"serving", "closed", "timedout"}
<1> DEFINE q == sess[cur].down
<1>1. /\ cur \in Ids /\ sess[cur] \in Sessions /\ q \in Seq(Messages)
      /\ UpOK(sess[cur]) /\ DownOK(sess[cur]) /\ DueOK(sess[cur])
  BY CurrentSession
<1>2. /\ Tail(q) \in Seq(Messages) /\ Len(Tail(q)) = Len(q) - 1
      /\ \A i \in 1 .. (Len(q) - 1) : Tail(q)[i] = q[i + 1] /\ i + 1 \in 1 .. Len(q)
  BY <1>1, TailFacts
<1>3. r \in Sessions
  BY <1>1, <1>2 DEF Sessions
<1>4. /\ r.conn = sess[cur].conn /\ r.up = sess[cur].up /\ r.down = Tail(q)
      /\ r.resume = sess[cur].resume /\ r.tickAt = sess[cur].tickAt
      /\ r.pongAt = sess[cur].pongAt /\ r.subs = sess[cur].subs
      /\ r.refused = sess[cur].refused
  BY <1>1, <1>3 DEF Sessions
<1>5. sess[cur].conn \in {"serving", "closed", "timedout"}
  BY <1>1 DEF DownOK, Sessions
<1>6. UpOK(r) /\ DueOK(r)
  BY <1>1, <1>4 DEF UpOK, DueOK
<1>7. DownOK(r)
  <2>1. \A i \in 1 .. Len(q) : q[i].type = "hello_ack" => q[i].token = sess[cur].resume
    BY <1>1 DEF DownOK
  <2>2. r.conn \notin {"none", "hello"}
    BY <1>4, <1>5
  <2> HIDE DEF q
  <2>3. QED
    BY <1>2, <1>4, <2>1, <2>2 DEF DownOK
<1>8. QED
  BY <1>3, <1>4, <1>5, <1>6, <1>7

\* RecvHelloAck: the manager has the token of its session now.
LEMMA RecvHelloAckInv ==
    ASSUME IndInv, RecvHelloAck
    PROVE  IndInv'
<1> DEFINE m == Head(sess[cur].down)
           r == [sess[cur] EXCEPT !.down = Tail(@)]
<1>1. /\ state = "authenticating" /\ sess[cur].down # <<>> /\ state' = "connected"
      /\ m.type = "hello_ack" /\ subscribed' = Kept(m.resumed) /\ resumed' = m.resumed
      /\ token' = m.token /\ UNCHANGED <<cur, made, nextToken, accepted, now>>
  BY DEF RecvHelloAck, RotatedToken
<1>2. /\ cur \in Ids /\ cur <= made /\ cur \in 0..made /\ sess[cur] \in Sessions
      /\ sess[cur].resume \in 1..(nextToken - 1) /\ sess[cur].down \in Seq(Messages)
      /\ DownOK(sess[cur])
  BY <1>1, CurrentSession
<1>3. /\ r \in Sessions /\ r.conn = sess[cur].conn /\ r.resume = sess[cur].resume
      /\ UpOK(r) /\ DownOK(r) /\ DueOK(r)
      /\ sess[cur].conn \in {"serving", "closed", "timedout"}
  BY <1>1, DownTaken
<1>4. sess' = [sess EXCEPT ![cur] = r]
  BY <1>2 DEF RecvHelloAck, IndInv, TypeOK
<1>5. m \in Messages /\ m.token = sess[cur].resume
  <2>1. /\ m \in Messages /\ m = sess[cur].down[1] /\ Len(sess[cur].down) \in Nat \ {0}
    BY <1>1, <1>2, TailFacts
  <2>2. 1 \in 1 .. Len(sess[cur].down)
    BY <2>1
  <2>3. QED
    BY <1>1, <1>2, <2>1, <2>2 DEF DownOK
<1> HIDE DEF m, r
<1>6. token' \in 0..(nextToken - 1)
  BY <1>1, <1>2, <1>5
<1>7. resumed' \in BOOLEAN
  BY <1>1, <1>5, MessageFields, Zenon
<1>8. subscribed' \subseteq Docs /\ (~resumed' => subscribed' = {})
  BY <1>1, ClientTypes, Zenon DEF Kept
<1>9. TypeOK' /\ Unmade' /\ Uplink' /\ Downlink' /\ TickDue' /\ sess'[cur] = r
  BY <1>1, <1>2, <1>3, <1>4, <1>6, <1>7, <1>8, ClientStep
<1>10. Handshake'
  BY <1>1, <1>3, <1>9, CurrentSession DEF Handshake, IndInv
<1>11. TokenAgreement'
  BY <1>1, <1>3, <1>5, <1>9 DEF TokenAgreement
<1>12. FreshIsTracked'
  BY <1>8 DEF FreshIsTracked, SubscribedIsTracked
<1>13. QED
  BY <1>9, <1>10, <1>11, <1>12 DEF IndInv

\* RecvError: the manager keeps what it believes.
LEMMA RecvErrorInv ==
    ASSUME IndInv, RecvError
    PROVE  IndInv'
<1> USE DEF client
<1> DEFINE r == [sess[cur] EXCEPT !.down = Tail(@)]
<1>1. /\ state = "connected" /\ sess[cur].down # <<>>
      /\ UNCHANGED <<state, cur, token, subscribed, resumed, made, nextToken, accepted, now>>
  BY DEF RecvError
<1>2. /\ cur \in Ids /\ cur <= made /\ cur \in 0..made /\ sess[cur] \in Sessions
  BY <1>1, CurrentSession
<1>3. /\ r \in Sessions /\ r.conn = sess[cur].conn /\ r.resume = sess[cur].resume
      /\ r.up = sess[cur].up /\ r.subs = sess[cur].subs /\ r.refused = sess[cur].refused
      /\ UpOK(r) /\ DownOK(r) /\ DueOK(r)
  BY <1>1, DownTaken
<1>4. sess' = [sess EXCEPT ![cur] = r]
  BY <1>2 DEF RecvError, IndInv, TypeOK
<1> HIDE DEF r
<1>5. TypeOK' /\ Unmade' /\ Uplink' /\ Downlink' /\ TickDue' /\ sess'[cur] = r
  BY <1>1, <1>2, <1>3, <1>4, ClientTypes, ClientStep
<1>6. Handshake' /\ TokenAgreement'
  BY <1>1, <1>3, <1>5 DEF Handshake, TokenAgreement, IndInv
<1>7. OnTheWay(cur)' = OnTheWay(cur)
  BY <1>1, <1>3, <1>5 DEF OnTheWay
<1>8. FreshIsTracked'
  BY <1>1, <1>3, <1>5, <1>7 DEF FreshIsTracked, SubscribedIsTracked, IndInv
<1>9. QED
  BY <1>5, <1>6, <1>8 DEF IndInv

\* Subscribe: the document is on its way.
LEMMA SubscribeInv ==
    ASSUME IndInv, NEW d \in Docs, Subscribe(d)
    PROVE  IndInv'
<1> DEFINE q == sess[cur].up
           w == Append(q, Subscribing(d))
           r == [sess[cur] EXCEPT !.up = w]
<1>1. /\ state = "connected" /\ subscribed' = subscribed \cup {d}
      /\ UNCHANGED <<state, cur, token, resumed, made, nextToken, accepted, now>>
  BY DEF Subscribe
<1>2. /\ cur \in Ids /\ cur <= made /\ cur \in 0..made /\ sess[cur] \in Sessions
      /\ q \in Seq(Messages) /\ UpOK(sess[cur]) /\ DownOK(sess[cur]) /\ DueOK(sess[cur])
  BY <1>1, CurrentSession
<1>3. /\ w \in Seq(Messages) /\ Len(w) = Len(q) + 1 /\ w[Len(q) + 1] = Subscribing(d)
      /\ Len(q) \in Nat /\ \A i \in 1 .. Len(q) : w[i] = q[i]
  BY <1>2, MessageTypes, AppendFacts
<1>4. sess' = [sess EXCEPT ![cur] = r]
  BY <1>2 DEF Subscribe, IndInv, TypeOK
<1> HIDE DEF w
<1>5. r \in Sessions
  BY <1>2, <1>3 DEF Sessions
<1>6. /\ r.conn = sess[cur].conn /\ r.up = w /\ r.down = sess[cur].down
      /\ r.resume = sess[cur].resume /\ r.tickAt = sess[cur].tickAt
      /\ r.pongAt = sess[cur].pongAt /\ r.subs = sess[cur].subs
      /\ r.refused = sess[cur].refused
  BY <1>2, <1>5 DEF Sessions
<1> HIDE DEF r
<1>7. r.conn # "hello"
  BY <1>1, <1>6 DEF IndInv, Handshake
<1>8. UpOK(r)
  <2>1. \A i \in 1 .. Len(q) : r.conn = "serving" => q[i].type = "subscribe"
    BY <1>2, <1>6 DEF UpOK
  <2>2. Subscribing(d).type = "subscribe"
    BY MessageTypes
  <2> HIDE DEF q
  <2>3. \A i \in 1 .. Len(w) : r.conn = "serving" => w[i].type = "subscribe"
    BY <1>3, <2>1, <2>2
  <2>4. QED
    BY <1>6, <1>7, <2>3 DEF UpOK
<1>9. DownOK(r) /\ DueOK(r)
  BY <1>2, <1>6 DEF DownOK, DueOK
<1>10. subscribed' \subseteq Docs
  BY <1>1, ClientTypes
<1>11. TypeOK' /\ Unmade' /\ Uplink' /\ Downlink' /\ TickDue' /\ sess'[cur] = r
  BY <1>1, <1>2, <1>4, <1>5, <1>6, <1>8, <1>9, <1>10, ClientTypes, ClientStep
<1>12. Handshake' /\ TokenAgreement'
  BY <1>1, <1>6, <1>11 DEF Handshake, TokenAgreement, IndInv
<1>13. OnTheWay(cur) \cup {d} \subseteq OnTheWay(cur)'
  <2>1. sess'[cur'].up = w
    BY <1>1, <1>6, <1>11
  <2>2. DOMAIN q = 1 .. Len(q) /\ DOMAIN w = 1 .. Len(w)
    BY <1>2, <1>3
  <2>3. OnTheWay(cur) = {q[i].doc : i \in {i \in DOMAIN q : q[i].type = "subscribe"}}
    BY DEF OnTheWay
  <2>4. OnTheWay(cur)' = {w[i].doc : i \in {i \in DOMAIN w : w[i].type = "subscribe"}}
    BY <2>1 DEF OnTheWay
  <2>5. Subscribing(d).type = "subscribe" /\ Subscribing(d).doc = d
    BY MessageTypes
  <2> HIDE DEF q
  <2>6. d \in OnTheWay(cur)'
    BY <1>3, <2>2, <2>4, <2>5
  <2>7. ASSUME NEW i \in 1 .. Len(q), q[i].type = "subscribe"
        PROVE  q[i].doc \in OnTheWay(cur)'
    BY <1>3, <2>2, <2>4, <2>7
  <2>8. QED
    BY <2>2, <2>3, <2>6, <2>7
<1>14. FreshIsTracked'
  BY <1>1, <1>6, <1>11, <1>13 DEF FreshIsTracked, SubscribedIsTracked, IndInv
<1>15. QED
  BY <1>11, <1>12, <1>14 DEF IndInv

\* CreateSyncSession: the new session is blank but for its tokens.
LEMMA CreateSyncSessionInv ==
    ASSUME IndInv, CreateSyncSession
    PROVE  IndInv'
<1> DEFINE s == made + 1
           k == ResumeTokenFor(token)
           r == [NoSession EXCEPT !.resume = k, !.resumeBy = now + ResumeTTL,
                                  !.expires = now + SessionTTL]
<1>1. /\ made < MaxSessions /\ made' = s /\ sess' = [sess EXCEPT ![s] = r]
      /\ nextToken' = nextToken + 1
      /\ UNCHANGED <<token, subscribed, resumed, accepted, now>>
  BY DEF CreateSyncSession
<1>2. \/ state' = "connecting" /\ cur' = s
      \/ state' = "disconnected" /\ cur' = 0
  BY DEF CreateSyncSession
<1>3. /\ s \in Ids /\ s \in 0..made' /\ 0 \in 0..made' /\ made' \in 0..MaxSessions /\ s # 0
  BY <1>1, Numbers, Bounds DEF IndInv, Ids
<1>4. k \in 1..nextToken /\ k \in Nat
  BY Numbers DEF IndInv, ResumeTokenFor, NoToken
<1>5. now + ResumeTTL \in Times /\ now + SessionTTL \in Times
  BY TimesFacts DEF IndInv
<1> HIDE DEF k
<1>6. r \in Sessions
  BY <1>4, <1>5, BlankOK DEF Sessions
<1>7. /\ r.conn = "none" /\ r.up = NoSession.up /\ r.down = NoSession.down
      /\ r.resume = k
  BY BlankOK DEF Sessions
<1> HIDE DEF r
<1>8. UpOK(r) /\ DownOK(r)
  <2>1. NoSession.up = <<>> /\ NoSession.down = <<>> /\ Len(<<>>) = 0
    BY DEF NoSession
  <2>2. QED
    BY <1>7, <2>1 DEF UpOK, DownOK
<1>9. /\ sess' \in [Ids -> Sessions] /\ sess'[s] = r
      /\ \A x \in Ids : x # s => sess'[x] = sess[x]
  BY <1>1, <1>3, <1>6 DEF IndInv, TypeOK
<1>10. TypeOK'
  <2>1. \A x \in 1..made' : sess'[x].resume \in 1..(nextToken' - 1)
    <3> SUFFICES ASSUME NEW x \in 1..made' PROVE sess'[x].resume \in 1..(nextToken' - 1)
      OBVIOUS
    <3>1. CASE x = s
      BY <1>1, <1>4, <1>7, <1>9, <3>1, Numbers DEF IndInv
    <3>2. CASE x # s
      <4>1. x \in 1..made /\ x \in Ids
        BY <1>1, <3>2, Numbers, Bounds DEF IndInv, Ids
      <4>2. sess[x].resume \in 1..(nextToken - 1)
        BY <4>1 DEF IndInv, TypeOK
      <4>3. sess'[x] = sess[x] /\ (1..(nextToken - 1)) \subseteq 1..(nextToken' - 1)
        BY <1>1, <1>9, <3>2, <4>1, Numbers DEF IndInv
      <4>4. QED
        BY <4>2, <4>3
    <3>3. QED
      BY <3>1, <3>2
  <2>2. /\ nextToken' \in Nat \ {NoToken} /\ token' \in 0..(nextToken' - 1)
        /\ (1..(nextToken - 1)) \subseteq 1..(nextToken' - 1)
    BY <1>1, Numbers DEF IndInv, NoToken
  <2>3. accepted' \subseteq (1..(nextToken' - 1)) \X Ids
    BY <1>1, <2>2 DEF IndInv, TypeOK
  <2>4. cur' \in 0..made' /\ state' \in {"disconnected", "connecting", "authenticating", "connected"}
    BY <1>2, <1>3
  <2>5. QED
    BY <1>1, <1>3, <1>9, <2>1, <2>2, <2>3, <2>4 DEF IndInv, TypeOK
<1>11. Unmade'
  BY <1>1, <1>9, Numbers DEF IndInv, Unmade
<1>12. Uplink' /\ Downlink'
  <2>1. \A x \in Ids : UpOK(sess'[x]) /\ DownOK(sess'[x])
    BY <1>8, <1>9 DEF IndInv, Uplink, Downlink
  <2>2. QED
    BY <2>1 DEF Uplink, Downlink, UpOK, DownOK
<1>13. TickDue'
  <2> SUFFICES ASSUME NEW x \in Ids PROVE DueOK(sess[x])'
    BY DEF TickDue
  <2>1. DueOK(sess[x]) /\ now' = now
    BY <1>1 DEF IndInv, TickDue
  <2>2. QED
    BY <1>7, <1>9, <2>1 DEF DueOK
<1>14. Handshake' /\ TokenAgreement' /\ FreshIsTracked'
  BY <1>2, <1>3, <1>7, <1>9
     DEF Handshake, TokenAgreement, FreshIsTracked, SubscribedIsTracked
<1>15. QED
  BY <1>10, <1>11, <1>12, <1>13, <1>14 DEF IndInv

\* Every step keeps the invariant.
LEMMA NextInv == IndInv /\ [Next]_vars => IndInv'
<1> SUFFICES ASSUME IndInv, [Next]_vars PROVE IndInv'
  OBVIOUS
<1>1. CASE CreateSyncSession
  BY <1>1, CreateSyncSessionInv
<1>2. CASE ConnectWs
  BY <1>2, ConnectWsInv
<1>3. CASE ConnectFails
  BY <1>3, ConnectFailsInv
<1>4. CASE RecvHelloAck
  BY <1>4, RecvHelloAckInv
<1>5. CASE \E d \in Docs : Subscribe(d)
  BY <1>5, SubscribeInv
<1>6. CASE RecvError
  BY <1>6, RecvErrorInv
<1>7. CASE Disconnect
  BY <1>7, DisconnectInv
<1>8. ASSUME NEW s \in Ids,
             \/ HelloExpired(s) \/ HandleHello(s) \/ HandleSubscribe(s)
             \/ HeartbeatTick(s) \/ Pong(s) \/ SocketEnds(s)
      PROVE  IndInv'
  BY <1>8, HelloExpiredInv, HandleHelloInv, HandleSubscribeInv, HeartbeatTickInv,
     PongInv, SocketEndsInv
<1>9. CASE Tick
  BY <1>9, TickInv
<1>10. CASE UNCHANGED vars
  <2>1. /\ UNCHANGED <<state, cur, token, subscribed, resumed>>
        /\ UNCHANGED <<sess, made, nextToken, accepted, now>>
    BY <1>10 DEF vars, client
  <2>2. TypeOK' /\ Unmade' /\ Handshake' /\ TokenAgreement'
    BY <2>1 DEF IndInv, TypeOK, Unmade, Handshake, TokenAgreement
  <2>3. Uplink' /\ Downlink'
    BY <2>1 DEF IndInv, Uplink, Downlink
  <2>4. TickDue'
    BY <2>1 DEF IndInv, TickDue, DueOK
  <2>5. FreshIsTracked'
    BY <2>1 DEF IndInv, FreshIsTracked, SubscribedIsTracked, OnTheWay
  <2>6. QED
    BY <2>2, <2>3, <2>4, <2>5 DEF IndInv
<1>11. QED
  BY <1>1, <1>2, <1>3, <1>4, <1>5, <1>6, <1>7, <1>8, <1>9, <1>10, Zenon DEF Next

\* The inductive invariant holds in every state of every behaviour.
THEOREM Invariance == Spec => []IndInv
BY InitInv, NextInv, PTL DEF Spec

\* The manager and the relay's sessions have the shape the code gives them,
\* and every session has a resume token that was issued.
THEOREM TypeCorrect == Spec => []TypeOK
<1>1. IndInv => TypeOK
  BY DEF IndInv
<1>2. QED
  BY <1>1, Invariance, PTL

\* A connected manager (RelayConnectionManager::connect has returned) holds
\* the resume token of its session, whatever was lost before.
THEOREM TokenAgreementHolds == Spec => []TokenAgreement
<1>1. IndInv => TokenAgreement
  BY DEF IndInv
<1>2. QED
  BY <1>1, Invariance, PTL

\* On a connection that was not resumed, the relay tracks, has been asked for
\* or has refused every document the manager takes for subscribed.
THEOREM FreshIsTrackedHolds == Spec => []FreshIsTracked
<1>1. IndInv => FreshIsTracked
  BY DEF IndInv
<1>2. QED
  BY <1>1, Invariance, PTL

\* The heartbeat of handle_socket serves a silent peer for no longer than one
\* timeout and one interval after its last pong.
THEOREM SilentPeerGoneHolds == Spec => []SilentPeerGone
<1>1. IndInv => SilentPeerGone
  <2> SUFFICES ASSUME IndInv, NEW s \in Ids, sess[s].conn = "serving"
               PROVE  now - sess[s].pongAt <= Timeout + Interval
    BY DEF SilentPeerGone
  <2>1. now <= sess[s].tickAt /\ sess[s].tickAt <= sess[s].pongAt + Timeout + Interval
    BY DEF IndInv, TickDue, DueOK
  <2>2. sess[s].tickAt \in Nat /\ sess[s].pongAt \in Nat
    BY Bounds DEF IndInv, TypeOK, Sessions, Times
  <2>3. QED
    BY <2>1, <2>2, Numbers, Bounds DEF IndInv
<1>2. QED
  BY <1>1, Invariance, PTL
=============================================================================
