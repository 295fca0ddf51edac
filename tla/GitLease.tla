------------------------------ MODULE GitLease ------------------------------
(***************************************************************************)
(* Git leader election for one workspace.  The relay's LeaseManager        *)
(* (crates/relay/src/leader/mod.rs) keeps one row of git_leader_leases;    *)
(* each daemon runs leader_loop and LeaderHandle::shutdown                 *)
(* (crates/daemon/src/git/leader.rs), which reach the relay through a      *)
(* LeaseClient.  The client is a trait with no implementation in the       *)
(* repository beyond the tests' mock: it is taken to deliver a request     *)
(* once or not at all, and to return Err when the request or the answer is *)
(* lost.                                                                   *)
(*                                                                         *)
(* Time passes in ticks of all clocks together.  The row keeps the ticks   *)
(* left before expires_at, a daemon the ticks left to sleep and the ticks  *)
(* since it sent the request its current belief rests on, so the states    *)
(* are finitely many although time is not bounded.                         *)
(***************************************************************************)
EXTENDS Integers

CONSTANTS
    Daemons,       \* client ids of the daemons of the workspace
    Mortal,        \* the daemons that may be shut down or crash
    LeaseIds,      \* lease ids
    TTL,           \* LeaseManager.ttl
    Heartbeat,     \* LeaderConfig.heartbeat_interval
    Retry,         \* LeaderConfig.retry_interval
    NoDaemon,      \* there is no row
    NoLease        \* current_lease_id = None

ASSUME TTLPos == TTL \in Nat \ {0}
ASSUME IntervalsNat == Heartbeat \in Nat /\ Retry \in Nat
ASSUME NoDaemonFresh == NoDaemon \notin Daemons
ASSUME NoLeaseFresh == NoLease \notin LeaseIds

VARIABLES
    \* the row of git_leader_leases
    holder,        \* daemon_id
    rowId,         \* lease_id
    left,          \* ticks until expires_at, 0 once it is reached
    \* leader_loop of each daemon
    pc,            \* where the loop stands
    leaseId,       \* current_lease_id
    called,        \* the lease id a call carries, or an answer brings
    sent,          \* ticks since the call in progress was sent
    wake,          \* ticks left to sleep
    state,         \* the watched LeaderState
    age,           \* ticks since the request that last confirmed leaseId
    \* LeaderHandle::shutdown of each daemon
    shut

rowVars  == <<holder, rowId, left>>
loopVars == <<pc, leaseId, called, sent, wake, state, age>>
vars == <<rowVars, loopVars, shut>>

\* Points of leader_loop: at the top, in a call, with an answer, between the
\* two statements that record a grant, in the select, after the break; a
\* crashed process is "dead".
PCs == {"top", "acquiring", "granted", "denied", "acquireErr", "elected",
        "renewing", "renewed", "lost", "renewErr", "select", "stopped", "dead"}
InCall == {"acquiring", "granted", "denied", "acquireErr",
           "renewing", "renewed", "lost", "renewErr"}
\* Points of shutdown: not called, shutdown_tx sent, lease id taken and the
\* release on its way, answered, returned.
ShutPCs == {"no", "signalled", "releasing", "released", "done"}

Init ==
    /\ holder = NoDaemon
    /\ rowId = NoLease
    /\ left = 0
    /\ pc = [d \in Daemons |-> "top"]
    /\ leaseId = [d \in Daemons |-> NoLease]
    /\ called = [d \in Daemons |-> NoLease]
    /\ sent = [d \in Daemons |-> 0]
    /\ wake = [d \in Daemons |-> 0]
    /\ state = [d \in Daemons |-> "Unknown"]
    /\ age = [d \in Daemons |-> TTL]
    /\ shut = [d \in Daemons |-> "no"]

(***************************************************************************)
(* The relay.                                                              *)
(***************************************************************************)
RowActive == holder # NoDaemon /\ left > 0
HoldsLease(d) == RowActive /\ holder = d

UsedIds == {rowId} \cup {leaseId[d] : d \in Daemons}
                   \cup {called[d] : d \in Daemons}
\* Uuid::new_v4(): some id nobody remembers.
NewId == CHOOSE i \in LeaseIds : i \notin UsedIds

\* Mutant: an expired row is not replaced.
GrantNewNeverExpired(d) ==
    /\ holder = NoDaemon
    /\ LeaseIds \ UsedIds # {}
    /\ holder' = d
    /\ rowId' = NewId
    /\ left' = TTL

\* INSERT ... ON CONFLICT DO UPDATE of acquire: no row, or an expired one,
\* is replaced; the caller's own row is extended and keeps its lease_id;
\* another daemon's row stays.
GrantNew(d) ==
    /\ ~RowActive
    /\ LeaseIds \ UsedIds # {}
    /\ holder' = d
    /\ rowId' = NewId
    /\ left' = TTL

ExtendOwn(d) ==
    /\ HoldsLease(d)
    /\ left' = TTL
    /\ UNCHANGED <<holder, rowId>>

\* The answer reaches the daemon, or is lost on the way.
ServeAcquire(d, arrives) ==
    /\ pc[d] = "acquiring"
    /\ \/ /\ GrantNew(d)
          /\ pc' = [pc EXCEPT ![d] = IF arrives THEN "granted" ELSE "acquireErr"]
          /\ called' = [called EXCEPT ![d] = IF arrives THEN rowId' ELSE @]
       \/ /\ ExtendOwn(d)
          /\ pc' = [pc EXCEPT ![d] = IF arrives THEN "granted" ELSE "acquireErr"]
          /\ called' = [called EXCEPT ![d] = IF arrives THEN rowId ELSE @]
       \/ /\ RowActive /\ holder # d
          /\ pc' = [pc EXCEPT ![d] = IF arrives THEN "denied" ELSE "acquireErr"]
          /\ UNCHANGED <<rowVars, called>>
    /\ UNCHANGED <<leaseId, sent, wake, state, age, shut>>

RenewMatches(d) == HoldsLease(d) /\ rowId = called[d]

\* NotFound and WrongHolder are both RenewResponse::Lost to the daemon.
ServeRenew(d, arrives) ==
    /\ pc[d] = "renewing"
    /\ left' = IF RenewMatches(d) THEN TTL ELSE left
    /\ pc' = [pc EXCEPT ![d] = IF ~arrives THEN "renewErr"
                               ELSE IF RenewMatches(d) THEN "renewed" ELSE "lost"]
    /\ UNCHANGED <<holder, rowId, leaseId, called, sent, wake, state, age, shut>>

RequestLost(d) ==
    /\ pc[d] \in {"acquiring", "renewing"}
    /\ pc' = [pc EXCEPT ![d] = IF @ = "acquiring" THEN "acquireErr" ELSE "renewErr"]
    /\ UNCHANGED <<rowVars, leaseId, called, sent, wake, state, age, shut>>

\* Mutant: the row is deleted whoever holds it.
DeleteAnyRow(d) ==
    /\ holder' = NoDaemon
    /\ rowId' = NoLease
    /\ left' = 0

\* DELETE of release: by workspace and daemon, not by lease_id.
DeleteRow(d) ==
    IF HoldsLease(d) THEN holder' = NoDaemon /\ rowId' = NoLease /\ left' = 0
                     ELSE UNCHANGED rowVars

EvictExpired ==
    /\ holder # NoDaemon
    /\ left = 0
    /\ holder' = NoDaemon
    /\ rowId' = NoLease
    /\ UNCHANGED <<left, loopVars, shut>>

(***************************************************************************)
(* leader_loop.                                                            *)
(***************************************************************************)
BeginCall(d) ==
    /\ pc[d] = "top"
    /\ pc' = [pc EXCEPT ![d] = IF leaseId[d] = NoLease THEN "acquiring" ELSE "renewing"]
    /\ called' = [called EXCEPT ![d] = leaseId[d]]
    /\ sent' = [sent EXCEPT ![d] = 0]
    /\ UNCHANGED <<rowVars, leaseId, wake, state, age, shut>>

\* The match is over: interval goes to the select, the answer is dropped.
Sleep(d, ticks) ==
    /\ pc' = [pc EXCEPT ![d] = "select"]
    /\ wake' = [wake EXCEPT ![d] = ticks]
    /\ called' = [called EXCEPT ![d] = NoLease]
    /\ sent' = [sent EXCEPT ![d] = 0]

\* Granted: current_lease_id is set under its mutex, the state is sent next.
OnGranted(d) ==
    /\ pc[d] = "granted"
    /\ pc' = [pc EXCEPT ![d] = "elected"]
    /\ leaseId' = [leaseId EXCEPT ![d] = called[d]]
    /\ called' = [called EXCEPT ![d] = NoLease]
    /\ age' = [age EXCEPT ![d] = sent[d]]
    /\ sent' = [sent EXCEPT ![d] = 0]
    /\ UNCHANGED <<rowVars, wake, state, shut>>

BecomeLeader(d) ==
    /\ pc[d] = "elected"
    /\ state' = [state EXCEPT ![d] = "Leader"]
    /\ Sleep(d, Heartbeat)
    /\ UNCHANGED <<rowVars, leaseId, age, shut>>

OnDenied(d) ==
    /\ pc[d] = "denied"
    /\ state' = [state EXCEPT ![d] = "Follower"]
    /\ Sleep(d, Retry)
    /\ UNCHANGED <<rowVars, leaseId, age, shut>>

OnAcquireErr(d) ==
    /\ pc[d] = "acquireErr"
    /\ state' = [state EXCEPT ![d] = "Unknown"]
    /\ Sleep(d, Retry)
    /\ UNCHANGED <<rowVars, leaseId, age, shut>>

OnRenewed(d) ==
    /\ pc[d] = "renewed"
    /\ age' = [age EXCEPT ![d] = sent[d]]
    /\ Sleep(d, Heartbeat)
    /\ UNCHANGED <<rowVars, leaseId, state, shut>>

\* Mutant: a lost lease is treated like a failed call.
OnLostKeepsState(d) ==
    /\ pc[d] = "lost"
    /\ Sleep(d, Heartbeat)
    /\ UNCHANGED <<rowVars, leaseId, state, age, shut>>

OnLost(d) ==
    /\ pc[d] = "lost"
    /\ leaseId' = [leaseId EXCEPT ![d] = NoLease]
    /\ age' = [age EXCEPT ![d] = TTL]
    /\ state' = [state EXCEPT ![d] = "Follower"]
    /\ Sleep(d, 0)
    /\ UNCHANGED <<rowVars, shut>>

\* "Keep the lease for now": the daemon stays Leader.
OnRenewErr(d) ==
    /\ pc[d] = "renewErr"
    /\ Sleep(d, Heartbeat)
    /\ UNCHANGED <<rowVars, leaseId, state, age, shut>>

\* The two branches of the select; when both are ready either is taken.
Wake(d) ==
    /\ pc[d] = "select"
    /\ wake[d] = 0
    /\ pc' = [pc EXCEPT ![d] = "top"]
    /\ UNCHANGED <<rowVars, leaseId, called, sent, wake, state, age, shut>>

StopLoop(d) ==
    /\ pc[d] = "select"
    /\ shut[d] # "no"
    /\ pc' = [pc EXCEPT ![d] = "stopped"]
    /\ wake' = [wake EXCEPT ![d] = 0]
    /\ UNCHANGED <<rowVars, leaseId, called, sent, state, age, shut>>

(***************************************************************************)
(* shutdown, which runs beside the loop.                                   *)
(***************************************************************************)
SignalShutdown(d) ==
    /\ d \in Mortal
    /\ pc[d] # "dead"
    /\ shut[d] = "no"
    /\ shut' = [shut EXCEPT ![d] = "signalled"]
    /\ UNCHANGED <<rowVars, loopVars>>

TakeLease(d) ==
    /\ pc[d] # "dead"
    /\ shut[d] = "signalled"
    /\ shut' = [shut EXCEPT ![d] = IF leaseId[d] = NoLease THEN "done" ELSE "releasing"]
    /\ leaseId' = [leaseId EXCEPT ![d] = NoLease]
    /\ age' = [age EXCEPT ![d] = TTL]
    /\ UNCHANGED <<rowVars, pc, called, sent, wake, state>>

ServeRelease(d) ==
    /\ pc[d] # "dead"
    /\ shut[d] = "releasing"
    /\ shut' = [shut EXCEPT ![d] = "released"]
    /\ DeleteRow(d)
    /\ UNCHANGED loopVars

ReleaseLost(d) ==
    /\ pc[d] # "dead"
    /\ shut[d] = "releasing"
    /\ shut' = [shut EXCEPT ![d] = "released"]
    /\ UNCHANGED <<rowVars, loopVars>>

FinishShutdown(d) ==
    /\ pc[d] # "dead"
    /\ shut[d] = "released"
    /\ shut' = [shut EXCEPT ![d] = "done"]
    /\ state' = [state EXCEPT ![d] = "Follower"]
    /\ UNCHANGED <<rowVars, pc, leaseId, called, sent, wake, age>>

\* The daemon process dies; its memory goes with it.
Crash(d) ==
    /\ d \in Mortal
    /\ pc[d] # "dead"
    /\ pc' = [pc EXCEPT ![d] = "dead"]
    /\ leaseId' = [leaseId EXCEPT ![d] = NoLease]
    /\ called' = [called EXCEPT ![d] = NoLease]
    /\ sent' = [sent EXCEPT ![d] = 0]
    /\ wake' = [wake EXCEPT ![d] = 0]
    /\ state' = [state EXCEPT ![d] = "Unknown"]
    /\ age' = [age EXCEPT ![d] = TTL]
    /\ UNCHANGED <<rowVars, shut>>

\* Mutant: the clock runs past expires_at.
DecrNoFloor(n) == n - 1
Decr(n) == IF n = 0 THEN 0 ELSE n - 1
Older(n) == IF n >= TTL THEN TTL ELSE n + 1

Tick ==
    /\ left' = Decr(left)
    /\ wake' = [d \in Daemons |-> Decr(wake[d])]
    /\ sent' = [d \in Daemons |-> IF pc[d] \in InCall THEN Older(sent[d]) ELSE 0]
    /\ age' = [d \in Daemons |-> Older(age[d])]
    /\ UNCHANGED <<holder, rowId, pc, leaseId, called, state, shut>>

Served(d) == ServeAcquire(d, TRUE) \/ ServeRenew(d, TRUE)
CallFails(d) == ServeAcquire(d, FALSE) \/ ServeRenew(d, FALSE) \/ RequestLost(d)

\* What leader_loop does by itself, and what shutdown does once called.
LoopStep(d) ==
    \/ BeginCall(d) \/ OnGranted(d) \/ BecomeLeader(d) \/ OnDenied(d)
    \/ OnAcquireErr(d) \/ OnRenewed(d) \/ OnLost(d) \/ OnRenewErr(d)
    \/ Wake(d) \/ StopLoop(d)
ShutdownStep(d) ==
    TakeLease(d) \/ ServeRelease(d) \/ ReleaseLost(d) \/ FinishShutdown(d)

Next ==
    \/ \E d \in Daemons :
          \/ Served(d) \/ CallFails(d) \/ LoopStep(d)
          \/ SignalShutdown(d) \/ ShutdownStep(d) \/ Crash(d)
    \/ EvictExpired
    \/ Tick

Spec == Init /\ [][Next]_vars

\* Clocks advance, the scheduler runs every task that can run, the select
\* (which polls its branches in random order) does not ignore a shutdown for
\* ever, and from some moment on the relay is reachable: a call in progress
\* is served and its answer arrives.
NoMoreFailures == <>[][\A d \in Daemons : ~CallFails(d)]_vars
FairSpec ==
    /\ Spec
    /\ WF_vars(Tick)
    /\ \A d \in Daemons : /\ WF_vars(LoopStep(d))
                            /\ SF_vars(StopLoop(d))
                            /\ WF_vars(Served(d))
    /\ NoMoreFailures
-----------------------------------------------------------------------------
Running(d) == pc[d] # "dead" /\ shut[d] = "no"
\* Until shutdown has taken the lease id, nothing releases the lease.
Unreleased(d) == shut[d] \in {"no", "signalled"}

\* The row, the loop and the shutdown have the shape LeaseManager and
\* leader_loop give them; no count of ticks leaves 0..TTL.
TypeOK ==
    /\ holder \in Daemons \cup {NoDaemon}
    /\ rowId \in LeaseIds \cup {NoLease}
    /\ left \in 0..TTL
    /\ pc \in [Daemons -> PCs]
    /\ leaseId \in [Daemons -> LeaseIds \cup {NoLease}]
    /\ called \in [Daemons -> LeaseIds \cup {NoLease}]
    /\ sent \in [Daemons -> 0..TTL]
    /\ wake \in [Daemons -> Nat]
    /\ state \in [Daemons -> {"Unknown", "Leader", "Follower"}]
    /\ age \in [Daemons -> 0..TTL]
    /\ shut \in [Daemons -> ShutPCs]

\* A daemon that calls itself Leader, has not begun to release, and sent the
\* request that last confirmed its lease less than TTL ago really holds the
\* relay's row, under the lease id it remembers, for at least the rest of
\* that TTL: lost answers, denied or expired rows, evictions and the other
\* daemons' acquires and releases never make it wrong before.
FreshLeaderHoldsLease ==
    \A d \in Daemons :
        state[d] = "Leader" /\ Unreleased(d) /\ age[d] < TTL =>
            holder = d /\ rowId = leaseId[d] /\ left >= TTL - age[d]

\* What the election is for, as the comment of leader.rs ("Only the leader
\* daemon pushes") and SPEC.md ("Prevents multi-writer race conditions") say:
\* two running daemons never call themselves Leader at the same time.
AtMostOneLeader ==
    \A d, e \in Daemons :
        Running(d) /\ Running(e) /\ state[d] = "Leader" /\ state[e] = "Leader"
            => d = e

\* "Gracefully shut down: release the lease and stop the loop": once shutdown
\* has returned and the loop has stopped, the daemon does not call itself
\* Leader.
ShutdownStepsDown ==
    \A d \in Daemons :
        shut[d] = "done" /\ pc[d] = "stopped" => state[d] # "Leader"

\* SPEC.md: "If the leader disconnects, another connected daemon takes over":
\* as long as some daemon runs, one that runs is Leader again and again,
\* whoever crashed, shut down or was cut off with the lease.
Failover ==
    []<>(\/ \A d \in Daemons : ~Running(d)
         \/ \E d \in Daemons : Running(d) /\ state[d] = "Leader")

\* A running Leader whose row is gone finds out: it steps down, or is given
\* the row again.
StaleLeaderStepsDown ==
    \A d \in Daemons :
        state[d] = "Leader" /\ ~HoldsLease(d)
            ~> state[d] # "Leader" \/ HoldsLease(d) \/ ~Running(d)
-----------------------------------------------------------------------------
\* The inductive strengthening of FreshLeaderHoldsLease.
Backed(d, id, ticks) == holder = d /\ rowId = id /\ left >= TTL - ticks

\* The lease id a daemon remembers is backed while it is fresh.
LeaseBacked ==
    \A d \in Daemons :
        leaseId[d] # NoLease /\ Unreleased(d) /\ age[d] < TTL
            => Backed(d, leaseId[d], age[d])

\* So is the one a positive answer on its way brings.
AnswerBacked ==
    \A d \in Daemons :
        pc[d] \in {"granted", "renewed"} /\ Unreleased(d) /\ sent[d] < TTL
            => Backed(d, called[d], sent[d])

\* A row always carries a lease id.
RowHasId == holder # NoDaemon => rowId # NoLease

\* A call carries what the loop still remembers, unless shutdown took it.
CallMatches ==
    \A d \in Daemons :
        /\ pc[d] \in {"acquiring", "granted", "denied", "acquireErr"}
              => leaseId[d] = NoLease
        /\ pc[d] \in {"renewing", "renewed", "lost", "renewErr"} /\ Unreleased(d)
              => called[d] = leaseId[d]
        /\ pc[d] = "granted" => called[d] # NoLease

LeaderRemembers ==
    \A d \in Daemons :
        /\ state[d] = "Leader" /\ Unreleased(d) => leaseId[d] # NoLease
        /\ pc[d] = "elected" /\ Unreleased(d) => leaseId[d] # NoLease

IndInv == /\ TypeOK /\ RowHasId /\ LeaseBacked /\ AnswerBacked
          /\ CallMatches /\ LeaderRemembers
=============================================================================
