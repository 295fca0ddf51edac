---------------------------- MODULE RelaySession ----------------------------
(***************************************************************************)
(* A daemon's connection to the relay: RelayConnectionManager              *)
(* (crates/daemon/src/relay/mod.rs) on one side, and on the other the      *)
(* sessions of the relay (create_sync_session, the hello and the heartbeat *)
(* of handle_socket in crates/relay/src/ws/handler.rs, SyncSessionStore in *)
(* ws/session.rs).                                                         *)
(*                                                                         *)
(* Every attempt to connect makes a session and one socket to it, so       *)
(* socket and session share a number.  A socket delivers in order until it *)
(* breaks, and each end learns of that in its own time.  Tokens are        *)
(* numbers; a new one is one nobody has.  Time passes in steps, and a      *)
(* timer of the relay that is due fires before the next step.              *)
(***************************************************************************)
EXTENDS Naturals, Sequences

CONSTANTS
    Docs,
    MaxSessions,   \* bound on the sessions made
    MaxTime,       \* bound on the clock
    MaxQueue,      \* bound on the messages on their way, in each direction
    ResumeTTL,     \* RESUME_TOKEN_TTL_MINUTES
    SessionTTL,    \* SESSION_TOKEN_TTL_MINUTES
    Interval,      \* HEARTBEAT_INTERVAL_MS
    Timeout        \* HEARTBEAT_TIMEOUT_MS

ASSUME BoundsNat ==
    {MaxSessions, MaxTime, MaxQueue, ResumeTTL, SessionTTL, Interval, Timeout} \subseteq Nat

VARIABLES
    state,         \* ConnectionState of the manager
    cur,           \* its session, 0 for none
    token,         \* its resume_token, NoToken for None
    subscribed,    \* subscribed_docs
    resumed,       \* resume_accepted of the last hello_ack
    sess,          \* the sessions of the relay and their sockets
    made,          \* how many sessions there are
    nextToken,     \* the next new token
    accepted,      \* which session accepted which resume token
    now

client == <<state, cur, token, subscribed, resumed>>
vars == <<client, sess, made, nextToken, accepted, now>>

Ids == 1..MaxSessions
NoToken == 0
NoPing == MaxTime + 1

Hello(t) == [type |-> "hello", token |-> t]
HelloAck(ok, t) == [type |-> "hello_ack", resumed |-> ok, token |-> t]
Subscribing(d) == [type |-> "subscribe", doc |-> d]
Refusal == [type |-> "error"]

\* A session that has not been made yet.  Its socket is, at the relay, not
\* open, waiting for hello, served, closed, or dropped by the heartbeat.
NoSession ==
    [resume |-> NoToken, resumeBy |-> 0, expires |-> 0,
     conn |-> "none", subs |-> {}, refused |-> {},
     tickAt |-> 0, pongAt |-> 0, pingAt |-> NoPing,
     up |-> <<>>, down |-> <<>>, clientEnd |-> "none"]

Init ==
    /\ state = "disconnected" /\ cur = 0 /\ token = NoToken
    /\ subscribed = {} /\ resumed = FALSE
    /\ sess = [s \in Ids |-> NoSession]
    /\ made = 0
    /\ nextToken = 1
    /\ accepted = {}
    /\ now = 0

(***************************************************************************)
(* POST sync-sessions.                                                     *)
(***************************************************************************)

\* Mutant: a client without a token leaves the session without one.
ResumeTokenAsSent(t) == t

\* The resume token the client sent becomes the one of the new session.
ResumeTokenFor(t) == IF t # NoToken THEN t ELSE nextToken

\* create_sync_session, called by connect from any state that it can be left
\* in (a ws_url that is refused leaves "connecting"); the answer may be lost.
CreateSyncSession ==
    /\ state # "authenticating"
    /\ made < MaxSessions
    /\ made' = made + 1
    /\ sess' = [sess EXCEPT ![made + 1] =
                   [NoSession EXCEPT !.resume = ResumeTokenFor(token),
                                     !.resumeBy = now + ResumeTTL,
                                     !.expires = now + SessionTTL]]
    /\ nextToken' = nextToken + 1
    /\ \/ state' = "connecting" /\ cur' = made + 1
       \/ state' = "disconnected" /\ cur' = 0
    /\ UNCHANGED <<token, subscribed, resumed, accepted, now>>

(***************************************************************************)
(* The manager: connect.                                                   *)
(***************************************************************************)
\* connect_ws and hello in one go; the relay counts the connection.
ConnectWs ==
    /\ state = "connecting"
    /\ state' = "authenticating"
    /\ sess' = [sess EXCEPT ![cur].conn = "hello",
                            ![cur].clientEnd = "open",
                            ![cur].up = <<Hello(token)>>]
    /\ UNCHANGED <<cur, token, subscribed, resumed, made, nextToken, accepted, now>>

\* Any of its steps fails: the manager closes what it has opened.
ConnectFails ==
    /\ state \in {"connecting", "authenticating"}
    /\ state' = "disconnected"
    /\ cur' = 0
    /\ sess' = IF state = "authenticating"
                 THEN [sess EXCEPT ![cur].clientEnd = "closed"] ELSE sess
    /\ UNCHANGED <<token, subscribed, resumed, made, nextToken, accepted, now>>

\* Mutant: the manager keeps the token it had instead of the rotated one.
RotatedTokenIgnored(t) == IF token = NoToken THEN t ELSE token
RotatedToken(t) == t

\* Mutant: subscriptions are kept whether or not the session was resumed.
KeptAlways(ok) == subscribed
Kept(ok) == IF ok THEN subscribed ELSE {}

RecvHelloAck ==
    /\ state = "authenticating"
    /\ sess[cur].down # <<>>
    /\ LET m == Head(sess[cur].down)
       IN  /\ m.type = "hello_ack"
           /\ subscribed' = Kept(m.resumed)
           /\ resumed' = m.resumed
           /\ token' = RotatedToken(m.token)
    /\ state' = "connected"
    /\ sess' = [sess EXCEPT ![cur].down = Tail(@)]
    /\ UNCHANGED <<cur, made, nextToken, accepted, now>>

(***************************************************************************)
(* The manager: subscribe, recv_event, disconnect.                         *)
(***************************************************************************)
Subscribe(d) ==
    /\ state = "connected"
    /\ Len(sess[cur].up) < MaxQueue
    /\ subscribed' = subscribed \cup {d}
    /\ sess' = [sess EXCEPT ![cur].up = Append(@, Subscribing(d))]
    /\ UNCHANGED <<state, cur, token, resumed, made, nextToken, accepted, now>>

\* An error of the relay is passed on; the manager's own state stays.
RecvError ==
    /\ state = "connected"
    /\ sess[cur].down # <<>>
    /\ sess' = [sess EXCEPT ![cur].down = Tail(@)]
    /\ UNCHANGED <<client, made, nextToken, accepted, now>>

\* The end of the connection, or disconnect().
Disconnect ==
    /\ state = "connected"
    /\ state' = "disconnected"
    /\ cur' = 0
    /\ sess' = [sess EXCEPT ![cur].clientEnd = "closed"]
    /\ UNCHANGED <<token, subscribed, resumed, made, nextToken, accepted, now>>

(***************************************************************************)
(* The relay: handle_socket.                                               *)
(***************************************************************************)
\* mark_disconnected of the only connection of a session.
Ended(r, how) == [r EXCEPT !.conn = how, !.subs = {}, !.up = <<>>]

ResumeAccepted(s, t) ==
    t # NoToken /\ t = sess[s].resume /\ now <= sess[s].resumeBy

\* validate_session_token rotates the resume token whatever hello brings.
Rotated(s) ==
    [sess[s] EXCEPT !.resume = nextToken, !.resumeBy = now + ResumeTTL, !.up = Tail(@)]

\* The session token has run out: an error and the end of the connection.
HelloExpired(s) ==
    /\ sess[s].conn = "hello"
    /\ sess[s].up # <<>>
    /\ now > sess[s].expires
    /\ sess' = [sess EXCEPT ![s] = Ended([@ EXCEPT !.down = <<Refusal>>], "closed")]
    /\ UNCHANGED <<client, made, nextToken, accepted, now>>

\* handle_hello_message, sending hello_ack, and the start of the heartbeat.
HandleHello(s) ==
    LET t  == Head(sess[s].up).token
        ok == ResumeAccepted(s, t)
        served == [Rotated(s) EXCEPT !.conn = "serving",
                                     !.down = <<HelloAck(ok, nextToken)>>,
                                     !.tickAt = now + Interval,
                                     !.pongAt = now]
    IN  /\ sess[s].conn = "hello"
        /\ sess[s].up # <<>>
        /\ now <= sess[s].expires
        /\ nextToken' = nextToken + 1
        /\ accepted' = IF ok THEN accepted \cup {<<t, s>>} ELSE accepted
        /\ sess' \in {[sess EXCEPT ![s] = served],
                      [sess EXCEPT ![s] = Ended(Rotated(s), "closed")]}
        /\ UNCHANGED <<client, made, now>>

TrackSubscription(r, d) == [r EXCEPT !.subs = @ \cup {d}]

\* handle_subscribe_message, or its refusal to a caller without access.
HandleSubscribe(s) ==
    LET d == Head(sess[s].up).doc
        r == [sess[s] EXCEPT !.up = Tail(@)]
    IN  /\ sess[s].conn = "serving"
        /\ sess[s].up # <<>>
        /\ \/ sess' = [sess EXCEPT ![s] = TrackSubscription(r, d)]
           \/ /\ Len(r.down) < MaxQueue
              /\ sess' = [sess EXCEPT ![s] =
                          [r EXCEPT !.refused = @ \cup {d}, !.down = Append(@, Refusal)]]
        /\ UNCHANGED <<client, made, nextToken, accepted, now>>

\* Mutant: silence is tolerated for an interval more.
SilentForLonger(s) == now - sess[s].pongAt > Timeout + Interval
Silent(s) == now - sess[s].pongAt > Timeout

HeartbeatTick(s) ==
    /\ sess[s].conn = "serving"
    /\ sess[s].tickAt = now
    /\ sess' = [sess EXCEPT ![s] =
                   IF Silent(s) THEN Ended(@, "timedout")
                   ELSE [@ EXCEPT !.tickAt = now + Interval, !.pingAt = now]]
    /\ UNCHANGED <<client, made, nextToken, accepted, now>>

\* The client's transport answers a ping.
Pong(s) ==
    /\ sess[s].conn = "serving"
    /\ sess[s].clientEnd = "open"
    /\ sess[s].pingAt # NoPing
    /\ sess' = [sess EXCEPT ![s].pongAt = now, ![s].pingAt = NoPing]
    /\ UNCHANGED <<client, made, nextToken, accepted, now>>

\* The socket is closed by the client, or breaks.
SocketEnds(s) ==
    /\ sess[s].conn \in {"hello", "serving"}
    /\ sess' = [sess EXCEPT ![s] = Ended(@, "closed")]
    /\ UNCHANGED <<client, made, nextToken, accepted, now>>

Tick ==
    /\ now < MaxTime
    /\ \A s \in Ids : sess[s].conn = "serving" => sess[s].tickAt > now
    /\ now' = now + 1
    /\ UNCHANGED <<client, sess, made, nextToken, accepted>>

Next ==
    \/ CreateSyncSession \/ ConnectWs \/ ConnectFails \/ RecvHelloAck
    \/ (\E d \in Docs : Subscribe(d))
    \/ RecvError \/ Disconnect
    \/ \E s \in Ids :
          \/ HelloExpired(s) \/ HandleHello(s) \/ HandleSubscribe(s)
          \/ HeartbeatTick(s) \/ Pong(s) \/ SocketEnds(s)
    \/ Tick

Spec == Init /\ [][Next]_vars
-----------------------------------------------------------------------------
Messages ==
    [type : {"hello"}, token : Nat] \cup [type : {"subscribe"}, doc : Docs]
    \cup [type : {"hello_ack"}, resumed : BOOLEAN, token : Nat] \cup {Refusal}

Times == 0..(MaxTime + SessionTTL + ResumeTTL + Interval)

Sessions ==
    [resume : Nat, resumeBy : Times, expires : Times,
     conn : {"none", "hello", "serving", "closed", "timedout"},
     subs : SUBSET Docs, refused : SUBSET Docs,
     tickAt : Times, pongAt : Times, pingAt : 0..NoPing,
     up : Seq(Messages), down : Seq(Messages), clientEnd : {"none", "open", "closed"}]

\* The manager and the sessions have the shape the code gives them, and every
\* session the relay made has a resume token, one that was issued.
TypeOK ==
    /\ state \in {"disconnected", "connecting", "authenticating", "connected"}
    /\ cur \in 0..made
    /\ made \in 0..MaxSessions
    /\ nextToken \in Nat \ {NoToken}
    /\ token \in 0..(nextToken - 1)
    /\ subscribed \subseteq Docs
    /\ resumed \in BOOLEAN
    /\ sess \in [Ids -> Sessions]
    /\ \A s \in 1..made : sess[s].resume \in 1..(nextToken - 1)
    /\ accepted \subseteq (1..(nextToken - 1)) \X Ids
    /\ now \in 0..MaxTime

\* A connected manager holds the resume token its session has, the one
\* rotated last: whatever answers were lost on the way, connect takes the
\* token from the hello_ack and nothing rotates it until the next hello.
TokenAgreement == state = "connected" => sess[cur].resume = token

\* The documents in subscribe messages that the relay has not handled yet.
OnTheWay(s) == {sess[s].up[i].doc : i \in {i \in DOMAIN sess[s].up :
                                            sess[s].up[i].type = "subscribe"}}

\* What the manager takes for subscribed, the relay broadcasts to it, has been
\* asked to, or has refused to, while it serves the connection.
SubscribedIsTracked ==
    state = "connected" /\ sess[cur].conn = "serving" =>
        subscribed \subseteq sess[cur].subs \cup sess[cur].refused \cup OnTheWay(cur)

\* This holds of a connection whose session was not resumed.
FreshIsTracked == ~resumed => SubscribedIsTracked

\* A peer that says nothing is not served for longer than one timeout and one
\* interval after its last pong (or after its hello).
SilentPeerGone ==
    \A s \in Ids : sess[s].conn = "serving" => now - sess[s].pongAt <= Timeout + Interval

\* "Resume token: TTL 10 min, single-use, bound to (session_id, ...)": no two
\* sessions accept the same token.
ResumeSingleUse ==
    \A a, b \in accepted : a[1] = b[1] => a = b

\* "server pings every HEARTBEAT_INTERVAL_MS, disconnects if no pong arrives
\* within HEARTBEAT_TIMEOUT_MS": a peer dropped for silence has left a ping
\* unanswered.
DroppedAfterPing ==
    \A s \in Ids : sess[s].conn = "timedout" => sess[s].pingAt # NoPing
-----------------------------------------------------------------------------
\* The inductive invariant behind TokenAgreement, FreshIsTracked and
\* SilentPeerGone.  Sessions not made yet are blank.
Unmade == \A s \in Ids : s > made => sess[s] = NoSession

\* Where the manager is in connect, and how far its session has come.
Handshake ==
    /\ state # "disconnected" => cur # 0
    /\ state = "connecting" => sess[cur].conn = "none"
    /\ state = "connected" => sess[cur].conn \in {"serving", "closed", "timedout"}

\* One hello is sent on a socket, and after it subscriptions only.
UpOK(r) ==
    /\ r.conn = "hello" => Len(r.up) <= 1
    /\ \A i \in 1 .. Len(r.up) :
          /\ r.conn = "hello" => r.up[i].type = "hello"
          /\ r.conn = "serving" => r.up[i].type = "subscribe"
Uplink == \A s \in Ids : UpOK(sess[s])

\* Nothing is answered before hello, and hello_ack brings the session's token.
DownOK(r) ==
    /\ r.conn \in {"none", "hello"} => r.down = <<>>
    /\ \A i \in 1 .. Len(r.down) : r.down[i].type = "hello_ack" => r.down[i].token = r.resume
Downlink == \A s \in Ids : DownOK(sess[s])

\* The next tick is due within an interval, and not too long after a pong.
DueOK(r) ==
    r.conn = "serving" => /\ now <= r.tickAt /\ r.tickAt <= now + Interval
                          /\ r.pongAt <= now
                          /\ r.tickAt <= r.pongAt + Timeout + Interval
TickDue == \A s \in Ids : DueOK(sess[s])

IndInv == /\ TypeOK /\ Unmade /\ Handshake /\ Uplink /\ Downlink /\ TickDue
          /\ TokenAgreement /\ FreshIsTracked
=============================================================================
