--------------------------- MODULE GitLeaseProofs ---------------------------
(***************************************************************************)
(* Proof that a fresh leader holds the lease, for any number of daemons    *)
(* and any TTL and intervals.  The invariant has to speak of the answers   *)
(* in flight as well as of what the daemons remember: a grant is made by   *)
(* the relay one step, and any number of ticks, before the daemon learns   *)
(* of it.                                                                  *)
(***************************************************************************)
EXTENDS GitLease, TLAPS

USE TTLPos, IntervalsNat, NoDaemonFresh, NoLeaseFresh

\* A new lease id is one nobody remembers.
LEMMA NewIdIsFresh ==
    ASSUME LeaseIds \ UsedIds # {}
    PROVE  NewId \in LeaseIds /\ NewId \notin UsedIds
BY DEF NewId

\* No daemon believes anything at the start.
LEMMA InitIndInv == Init => IndInv
BY DEF Init, IndInv, TypeOK, LeaseBacked, AnswerBacked, CallMatches,
       LeaderRemembers, RowHasId, Unreleased, PCs, ShutPCs

\* The relay's answer to an acquire.
LEMMA ServeAcquireInv ==
    ASSUME IndInv, NEW d \in Daemons, NEW arrives \in BOOLEAN,
           ServeAcquire(d, arrives)
    PROVE  IndInv'
<1> USE DEF IndInv
<1>1. CASE GrantNew(d) /\ pc' = [pc EXCEPT ![d] = IF arrives THEN "granted" ELSE "acquireErr"]
                       /\ called' = [called EXCEPT ![d] = IF arrives THEN rowId' ELSE @]
  <2>1. rowId' \in LeaseIds /\ holder' = d /\ left' = TTL /\ ~RowActive
    BY <1>1, NewIdIsFresh DEF GrantNew
  <2>2. UNCHANGED <<leaseId, sent, wake, state, age, shut>>
    BY DEF ServeAcquire
  <2>3. pc[d] = "acquiring"
    BY DEF ServeAcquire
  <2>4. TypeOK'
    BY <1>1, <2>1, <2>2 DEF TypeOK, PCs
  <2>5. LeaseBacked'
    BY <1>1, <2>1, <2>2, <2>3 DEF LeaseBacked, Backed, TypeOK, RowActive, Unreleased, CallMatches
  <2>6. AnswerBacked'
    BY <1>1, <2>1, <2>2, <2>3 DEF AnswerBacked, Backed, TypeOK, RowActive, Unreleased
  <2>7. CallMatches'
    BY <1>1, <2>1, <2>2, <2>3 DEF CallMatches, TypeOK, Unreleased
  <2>8. LeaderRemembers'
    BY <1>1, <2>1, <2>2, <2>3 DEF LeaderRemembers, TypeOK, Unreleased
  <2>9. RowHasId'
    BY <2>1 DEF RowHasId
  <2> QED
    BY <2>4, <2>5, <2>6, <2>7, <2>8, <2>9
<1>2. CASE ExtendOwn(d) /\ pc' = [pc EXCEPT ![d] = IF arrives THEN "granted" ELSE "acquireErr"]
                        /\ called' = [called EXCEPT ![d] = IF arrives THEN rowId ELSE @]
  <2>1. HoldsLease(d) /\ left' = TTL /\ UNCHANGED <<holder, rowId>>
    BY <1>2 DEF ExtendOwn
  <2>2. UNCHANGED <<leaseId, sent, wake, state, age, shut>>
    BY DEF ServeAcquire
  <2>3. pc[d] = "acquiring"
    BY DEF ServeAcquire
  <2>4. TypeOK'
    BY <1>2, <2>1, <2>2 DEF TypeOK, PCs
  <2>5. LeaseBacked'
    BY <1>2, <2>1, <2>2 DEF LeaseBacked, Backed, TypeOK, Unreleased
  <2>6. AnswerBacked'
    BY <1>2, <2>1, <2>2, <2>3 DEF AnswerBacked, Backed, TypeOK, HoldsLease, Unreleased
  <2>7. CallMatches'
    BY <1>2, <2>1, <2>2, <2>3 DEF CallMatches, TypeOK, Unreleased, HoldsLease, RowActive, RowHasId
  <2>8. LeaderRemembers'
    BY <1>2, <2>1, <2>2, <2>3 DEF LeaderRemembers, TypeOK, Unreleased
  <2>9. RowHasId'
    BY <2>1 DEF RowHasId
  <2> QED
    BY <2>4, <2>5, <2>6, <2>7, <2>8, <2>9
<1>3. CASE /\ RowActive /\ holder # d
           /\ pc' = [pc EXCEPT ![d] = IF arrives THEN "denied" ELSE "acquireErr"]
           /\ UNCHANGED <<rowVars, called>>
  BY <1>3 DEF ServeAcquire, rowVars, TypeOK, PCs, LeaseBacked, AnswerBacked, Backed,
              Unreleased, CallMatches, LeaderRemembers, RowHasId
<1> QED
  BY <1>1, <1>2, <1>3 DEF ServeAcquire

\* The relay's answer to a renew, or its loss.
LEMMA ServeRenewInv ==
    ASSUME IndInv, NEW d \in Daemons, NEW arrives \in BOOLEAN, ServeRenew(d, arrives)
    PROVE  IndInv'
<1> USE DEF ServeRenew, RenewMatches, HoldsLease, RowActive
<1>1. TypeOK'
  BY DEF IndInv, TypeOK, PCs, ShutPCs
<1>2. LeaseBacked'
  BY DEF IndInv, TypeOK, LeaseBacked, AnswerBacked, CallMatches, Backed, Unreleased
<1>3. AnswerBacked'
  BY DEF IndInv, TypeOK, AnswerBacked, LeaseBacked, CallMatches, Backed, Unreleased
<1>4. CallMatches'
  BY DEF IndInv, TypeOK, CallMatches, Unreleased
<1>5. LeaderRemembers'
  BY DEF IndInv, TypeOK, LeaderRemembers, CallMatches, Unreleased
<1>6. RowHasId'
  BY DEF IndInv, RowHasId
<1> QED
  BY <1>1, <1>2, <1>3, <1>4, <1>5, <1>6 DEF IndInv

\* A request that never reaches the relay.
LEMMA RequestLostInv ==
    ASSUME IndInv, NEW d \in Daemons, RequestLost(d)
    PROVE  IndInv'
<1> USE DEF RequestLost, rowVars
<1>1. TypeOK'
  BY DEF IndInv, TypeOK, PCs, ShutPCs
<1>2. LeaseBacked'
  BY DEF IndInv, TypeOK, LeaseBacked, AnswerBacked, CallMatches, Backed, Unreleased
<1>3. AnswerBacked'
  BY DEF IndInv, TypeOK, AnswerBacked, LeaseBacked, CallMatches, Backed, Unreleased
<1>4. CallMatches'
  BY DEF IndInv, TypeOK, CallMatches, Unreleased
<1>5. LeaderRemembers'
  BY DEF IndInv, TypeOK, LeaderRemembers, CallMatches, Unreleased
<1>6. RowHasId'
  BY DEF IndInv, RowHasId
<1> QED
  BY <1>1, <1>2, <1>3, <1>4, <1>5, <1>6 DEF IndInv

\* The top of the loop.
LEMMA BeginCallInv ==
    ASSUME IndInv, NEW d \in Daemons, BeginCall(d)
    PROVE  IndInv'
<1> USE DEF BeginCall, rowVars
<1>1. TypeOK'
  BY DEF IndInv, TypeOK, PCs, ShutPCs
<1>2. LeaseBacked'
  BY DEF IndInv, TypeOK, LeaseBacked, AnswerBacked, CallMatches, Backed, Unreleased
<1>3. AnswerBacked'
  BY DEF IndInv, TypeOK, AnswerBacked, LeaseBacked, CallMatches, Backed, Unreleased
<1>4. CallMatches'
  BY DEF IndInv, TypeOK, CallMatches, Unreleased
<1>5. LeaderRemembers'
  BY DEF IndInv, TypeOK, LeaderRemembers, CallMatches, Unreleased
<1>6. RowHasId'
  BY DEF IndInv, RowHasId
<1> QED
  BY <1>1, <1>2, <1>3, <1>4, <1>5, <1>6 DEF IndInv

\* The handlers of the answers.
LEMMA OnGrantedInv ==
    ASSUME IndInv, NEW d \in Daemons, OnGranted(d)
    PROVE  IndInv'
<1> USE DEF OnGranted, rowVars
<1>1. TypeOK'
  BY DEF IndInv, TypeOK, PCs, ShutPCs
<1>2. LeaseBacked'
  BY DEF IndInv, TypeOK, LeaseBacked, AnswerBacked, CallMatches, Backed, Unreleased
<1>3. AnswerBacked'
  BY DEF IndInv, TypeOK, AnswerBacked, LeaseBacked, CallMatches, Backed, Unreleased
<1>4. CallMatches'
  BY DEF IndInv, TypeOK, CallMatches, Unreleased
<1>5. LeaderRemembers'
  BY DEF IndInv, TypeOK, LeaderRemembers, CallMatches, Unreleased
<1>6. RowHasId'
  BY DEF IndInv, RowHasId
<1> QED
  BY <1>1, <1>2, <1>3, <1>4, <1>5, <1>6 DEF IndInv

\* The state follows the lease id.
LEMMA BecomeLeaderInv ==
    ASSUME IndInv, NEW d \in Daemons, BecomeLeader(d)
    PROVE  IndInv'
<1> USE DEF BecomeLeader, rowVars, Sleep
<1>1. TypeOK'
  BY DEF IndInv, TypeOK, PCs, ShutPCs
<1>2. LeaseBacked'
  BY DEF IndInv, TypeOK, LeaseBacked, AnswerBacked, CallMatches, Backed, Unreleased
<1>3. AnswerBacked'
  BY DEF IndInv, TypeOK, AnswerBacked, LeaseBacked, CallMatches, Backed, Unreleased
<1>4. CallMatches'
  BY DEF IndInv, TypeOK, CallMatches, Unreleased
<1>5. LeaderRemembers'
  BY DEF IndInv, TypeOK, LeaderRemembers, CallMatches, Unreleased
<1>6. RowHasId'
  BY DEF IndInv, RowHasId
<1> QED
  BY <1>1, <1>2, <1>3, <1>4, <1>5, <1>6 DEF IndInv

\* A denied acquire.
LEMMA OnDeniedInv ==
    ASSUME IndInv, NEW d \in Daemons, OnDenied(d)
    PROVE  IndInv'
<1> USE DEF OnDenied, rowVars, Sleep
<1>1. TypeOK'
  BY DEF IndInv, TypeOK, PCs, ShutPCs
<1>2. LeaseBacked'
  BY DEF IndInv, TypeOK, LeaseBacked, AnswerBacked, CallMatches, Backed, Unreleased
<1>3. AnswerBacked'
  BY DEF IndInv, TypeOK, AnswerBacked, LeaseBacked, CallMatches, Backed, Unreleased
<1>4. CallMatches'
  BY DEF IndInv, TypeOK, CallMatches, Unreleased
<1>5. LeaderRemembers'
  BY DEF IndInv, TypeOK, LeaderRemembers, CallMatches, Unreleased
<1>6. RowHasId'
  BY DEF IndInv, RowHasId
<1> QED
  BY <1>1, <1>2, <1>3, <1>4, <1>5, <1>6 DEF IndInv

\* A failed acquire.
LEMMA OnAcquireErrInv ==
    ASSUME IndInv, NEW d \in Daemons, OnAcquireErr(d)
    PROVE  IndInv'
<1> USE DEF OnAcquireErr, rowVars, Sleep
<1>1. TypeOK'
  BY DEF IndInv, TypeOK, PCs, ShutPCs
<1>2. LeaseBacked'
  BY DEF IndInv, TypeOK, LeaseBacked, AnswerBacked, CallMatches, Backed, Unreleased
<1>3. AnswerBacked'
  BY DEF IndInv, TypeOK, AnswerBacked, LeaseBacked, CallMatches, Backed, Unreleased
<1>4. CallMatches'
  BY DEF IndInv, TypeOK, CallMatches, Unreleased
<1>5. LeaderRemembers'
  BY DEF IndInv, TypeOK, LeaderRemembers, CallMatches, Unreleased
<1>6. RowHasId'
  BY DEF IndInv, RowHasId
<1> QED
  BY <1>1, <1>2, <1>3, <1>4, <1>5, <1>6 DEF IndInv

\* A renewal confirms the lease as of the time it was asked for.
LEMMA OnRenewedInv ==
    ASSUME IndInv, NEW d \in Daemons, OnRenewed(d)
    PROVE  IndInv'
<1> USE DEF OnRenewed, rowVars, Sleep
<1>1. TypeOK'
  BY DEF IndInv, TypeOK, PCs, ShutPCs
<1>2. LeaseBacked'
  BY DEF IndInv, TypeOK, LeaseBacked, AnswerBacked, CallMatches, Backed, Unreleased
<1>3. AnswerBacked'
  BY DEF IndInv, TypeOK, AnswerBacked, LeaseBacked, CallMatches, Backed, Unreleased
<1>4. CallMatches'
  BY DEF IndInv, TypeOK, CallMatches, Unreleased
<1>5. LeaderRemembers'
  BY DEF IndInv, TypeOK, LeaderRemembers, CallMatches, Unreleased
<1>6. RowHasId'
  BY DEF IndInv, RowHasId
<1> QED
  BY <1>1, <1>2, <1>3, <1>4, <1>5, <1>6 DEF IndInv

\* A lost lease is forgotten.
LEMMA OnLostInv ==
    ASSUME IndInv, NEW d \in Daemons, OnLost(d)
    PROVE  IndInv'
<1> USE DEF OnLost, rowVars, Sleep
<1>1. TypeOK'
  BY DEF IndInv, TypeOK, PCs, ShutPCs
<1>2. LeaseBacked'
  BY DEF IndInv, TypeOK, LeaseBacked, AnswerBacked, CallMatches, Backed, Unreleased
<1>3. AnswerBacked'
  BY DEF IndInv, TypeOK, AnswerBacked, LeaseBacked, CallMatches, Backed, Unreleased
<1>4. CallMatches'
  BY DEF IndInv, TypeOK, CallMatches, Unreleased
<1>5. LeaderRemembers'
  BY DEF IndInv, TypeOK, LeaderRemembers, CallMatches, Unreleased
<1>6. RowHasId'
  BY DEF IndInv, RowHasId
<1> QED
  BY <1>1, <1>2, <1>3, <1>4, <1>5, <1>6 DEF IndInv

\* A failed renew changes no belief.
LEMMA OnRenewErrInv ==
    ASSUME IndInv, NEW d \in Daemons, OnRenewErr(d)
    PROVE  IndInv'
<1> USE DEF OnRenewErr, rowVars, Sleep
<1>1. TypeOK'
  BY DEF IndInv, TypeOK, PCs, ShutPCs
<1>2. LeaseBacked'
  BY DEF IndInv, TypeOK, LeaseBacked, AnswerBacked, CallMatches, Backed, Unreleased
<1>3. AnswerBacked'
  BY DEF IndInv, TypeOK, AnswerBacked, LeaseBacked, CallMatches, Backed, Unreleased
<1>4. CallMatches'
  BY DEF IndInv, TypeOK, CallMatches, Unreleased
<1>5. LeaderRemembers'
  BY DEF IndInv, TypeOK, LeaderRemembers, CallMatches, Unreleased
<1>6. RowHasId'
  BY DEF IndInv, RowHasId
<1> QED
  BY <1>1, <1>2, <1>3, <1>4, <1>5, <1>6 DEF IndInv

\* The sleep ends.
LEMMA WakeInv ==
    ASSUME IndInv, NEW d \in Daemons, Wake(d)
    PROVE  IndInv'
<1> USE DEF Wake, rowVars
<1>1. TypeOK'
  BY DEF IndInv, TypeOK, PCs, ShutPCs
<1>2. LeaseBacked'
  BY DEF IndInv, TypeOK, LeaseBacked, AnswerBacked, CallMatches, Backed, Unreleased
<1>3. AnswerBacked'
  BY DEF IndInv, TypeOK, AnswerBacked, LeaseBacked, CallMatches, Backed, Unreleased
<1>4. CallMatches'
  BY DEF IndInv, TypeOK, CallMatches, Unreleased
<1>5. LeaderRemembers'
  BY DEF IndInv, TypeOK, LeaderRemembers, CallMatches, Unreleased
<1>6. RowHasId'
  BY DEF IndInv, RowHasId
<1> QED
  BY <1>1, <1>2, <1>3, <1>4, <1>5, <1>6 DEF IndInv

\* The shutdown branch.
LEMMA StopLoopInv ==
    ASSUME IndInv, NEW d \in Daemons, StopLoop(d)
    PROVE  IndInv'
<1> USE DEF StopLoop, rowVars
<1>1. TypeOK'
  BY DEF IndInv, TypeOK, PCs, ShutPCs
<1>2. LeaseBacked'
  BY DEF IndInv, TypeOK, LeaseBacked, AnswerBacked, CallMatches, Backed, Unreleased
<1>3. AnswerBacked'
  BY DEF IndInv, TypeOK, AnswerBacked, LeaseBacked, CallMatches, Backed, Unreleased
<1>4. CallMatches'
  BY DEF IndInv, TypeOK, CallMatches, Unreleased
<1>5. LeaderRemembers'
  BY DEF IndInv, TypeOK, LeaderRemembers, CallMatches, Unreleased
<1>6. RowHasId'
  BY DEF IndInv, RowHasId
<1> QED
  BY <1>1, <1>2, <1>3, <1>4, <1>5, <1>6 DEF IndInv

\* shutdown_tx is sent.
LEMMA SignalShutdownInv ==
    ASSUME IndInv, NEW d \in Daemons, SignalShutdown(d)
    PROVE  IndInv'
<1> USE DEF SignalShutdown, rowVars, loopVars
<1>1. TypeOK'
  BY DEF IndInv, TypeOK, PCs, ShutPCs
<1>2. LeaseBacked'
  BY DEF IndInv, TypeOK, LeaseBacked, AnswerBacked, CallMatches, Backed, Unreleased
<1>3. AnswerBacked'
  BY DEF IndInv, TypeOK, AnswerBacked, LeaseBacked, CallMatches, Backed, Unreleased
<1>4. CallMatches'
  BY DEF IndInv, TypeOK, CallMatches, Unreleased
<1>5. LeaderRemembers'
  BY DEF IndInv, TypeOK, LeaderRemembers, CallMatches, Unreleased
<1>6. RowHasId'
  BY DEF IndInv, RowHasId
<1> QED
  BY <1>1, <1>2, <1>3, <1>4, <1>5, <1>6 DEF IndInv

\* From here on the daemon's belief no longer counts.
LEMMA TakeLeaseInv ==
    ASSUME IndInv, NEW d \in Daemons, TakeLease(d)
    PROVE  IndInv'
<1> USE DEF TakeLease, rowVars
<1>1. TypeOK'
  BY DEF IndInv, TypeOK, PCs, ShutPCs
<1>2. LeaseBacked'
  BY DEF IndInv, TypeOK, LeaseBacked, AnswerBacked, CallMatches, Backed, Unreleased
<1>3. AnswerBacked'
  BY DEF IndInv, TypeOK, AnswerBacked, LeaseBacked, CallMatches, Backed, Unreleased
<1>4. CallMatches'
  BY DEF IndInv, TypeOK, CallMatches, Unreleased
<1>5. LeaderRemembers'
  BY DEF IndInv, TypeOK, LeaderRemembers, CallMatches, Unreleased
<1>6. RowHasId'
  BY DEF IndInv, RowHasId
<1> QED
  BY <1>1, <1>2, <1>3, <1>4, <1>5, <1>6 DEF IndInv

\* A release deletes only the row of a daemon that has given up its lease.
LEMMA ServeReleaseInv ==
    ASSUME IndInv, NEW d \in Daemons, ServeRelease(d)
    PROVE  IndInv'
<1> USE DEF ServeRelease, loopVars, DeleteRow, HoldsLease, RowActive, rowVars
<1>1. TypeOK'
  BY DEF IndInv, TypeOK, PCs, ShutPCs
<1>2. LeaseBacked'
  BY DEF IndInv, TypeOK, LeaseBacked, AnswerBacked, CallMatches, Backed, Unreleased
<1>3. AnswerBacked'
  BY DEF IndInv, TypeOK, AnswerBacked, LeaseBacked, CallMatches, Backed, Unreleased
<1>4. CallMatches'
  BY DEF IndInv, TypeOK, CallMatches, Unreleased
<1>5. LeaderRemembers'
  BY DEF IndInv, TypeOK, LeaderRemembers, CallMatches, Unreleased
<1>6. RowHasId'
  BY DEF IndInv, RowHasId
<1> QED
  BY <1>1, <1>2, <1>3, <1>4, <1>5, <1>6 DEF IndInv

\* A release that is lost.
LEMMA ReleaseLostInv ==
    ASSUME IndInv, NEW d \in Daemons, ReleaseLost(d)
    PROVE  IndInv'
<1> USE DEF ReleaseLost, rowVars, loopVars
<1>1. TypeOK'
  BY DEF IndInv, TypeOK, PCs, ShutPCs
<1>2. LeaseBacked'
  BY DEF IndInv, TypeOK, LeaseBacked, AnswerBacked, CallMatches, Backed, Unreleased
<1>3. AnswerBacked'
  BY DEF IndInv, TypeOK, AnswerBacked, LeaseBacked, CallMatches, Backed, Unreleased
<1>4. CallMatches'
  BY DEF IndInv, TypeOK, CallMatches, Unreleased
<1>5. LeaderRemembers'
  BY DEF IndInv, TypeOK, LeaderRemembers, CallMatches, Unreleased
<1>6. RowHasId'
  BY DEF IndInv, RowHasId
<1> QED
  BY <1>1, <1>2, <1>3, <1>4, <1>5, <1>6 DEF IndInv

\* shutdown returns.
LEMMA FinishShutdownInv ==
    ASSUME IndInv, NEW d \in Daemons, FinishShutdown(d)
    PROVE  IndInv'
<1> USE DEF FinishShutdown, rowVars
<1>1. TypeOK'
  BY DEF IndInv, TypeOK, PCs, ShutPCs
<1>2. LeaseBacked'
  BY DEF IndInv, TypeOK, LeaseBacked, AnswerBacked, CallMatches, Backed, Unreleased
<1>3. AnswerBacked'
  BY DEF IndInv, TypeOK, AnswerBacked, LeaseBacked, CallMatches, Backed, Unreleased
<1>4. CallMatches'
  BY DEF IndInv, TypeOK, CallMatches, Unreleased
<1>5. LeaderRemembers'
  BY DEF IndInv, TypeOK, LeaderRemembers, CallMatches, Unreleased
<1>6. RowHasId'
  BY DEF IndInv, RowHasId
<1> QED
  BY <1>1, <1>2, <1>3, <1>4, <1>5, <1>6 DEF IndInv

\* A dead daemon believes nothing.
LEMMA CrashInv ==
    ASSUME IndInv, NEW d \in Daemons, Crash(d)
    PROVE  IndInv'
<1> USE DEF Crash, rowVars
<1>1. TypeOK'
  BY DEF IndInv, TypeOK, PCs, ShutPCs
<1>2. LeaseBacked'
  BY DEF IndInv, TypeOK, LeaseBacked, AnswerBacked, CallMatches, Backed, Unreleased
<1>3. AnswerBacked'
  BY DEF IndInv, TypeOK, AnswerBacked, LeaseBacked, CallMatches, Backed, Unreleased
<1>4. CallMatches'
  BY DEF IndInv, TypeOK, CallMatches, Unreleased
<1>5. LeaderRemembers'
  BY DEF IndInv, TypeOK, LeaderRemembers, CallMatches, Unreleased
<1>6. RowHasId'
  BY DEF IndInv, RowHasId
<1> QED
  BY <1>1, <1>2, <1>3, <1>4, <1>5, <1>6 DEF IndInv

\* Only a row nobody can rely on is evicted.
LEMMA EvictExpiredInv ==
    ASSUME IndInv, EvictExpired
    PROVE  IndInv'
<1> USE DEF EvictExpired
<1>1. TypeOK'
  BY DEF IndInv, TypeOK, PCs, ShutPCs, loopVars
<1>2. LeaseBacked'
  BY DEF IndInv, TypeOK, LeaseBacked, AnswerBacked, CallMatches, Backed, Unreleased, loopVars
<1>3. AnswerBacked'
  BY DEF IndInv, TypeOK, AnswerBacked, LeaseBacked, CallMatches, Backed, Unreleased, loopVars
<1>4. CallMatches'
  BY DEF IndInv, TypeOK, CallMatches, Unreleased, loopVars
<1>5. LeaderRemembers'
  BY DEF IndInv, TypeOK, LeaderRemembers, CallMatches, Unreleased, loopVars
<1>6. RowHasId'
  BY DEF IndInv, RowHasId, loopVars
<1> QED
  BY <1>1, <1>2, <1>3, <1>4, <1>5, <1>6 DEF IndInv

\* A tick takes from the row what it adds to the age of every belief.
LEMMA TickInv ==
    ASSUME IndInv, Tick
    PROVE  IndInv'
<1> USE DEF Tick, Decr, Older, InCall
<1>1. TypeOK'
  BY DEF IndInv, TypeOK, PCs, ShutPCs
<1>2. LeaseBacked'
  BY DEF IndInv, TypeOK, LeaseBacked, AnswerBacked, CallMatches, Backed, Unreleased
<1>3. AnswerBacked'
  BY DEF IndInv, TypeOK, AnswerBacked, LeaseBacked, CallMatches, Backed, Unreleased
<1>4. CallMatches'
  BY DEF IndInv, TypeOK, CallMatches, Unreleased
<1>5. LeaderRemembers'
  BY DEF IndInv, TypeOK, LeaderRemembers, CallMatches, Unreleased
<1>6. RowHasId'
  BY DEF IndInv, RowHasId
<1> QED
  BY <1>1, <1>2, <1>3, <1>4, <1>5, <1>6 DEF IndInv

\* IndInv is inductive: one case per action.
LEMMA NextIndInv == IndInv /\ [Next]_vars => IndInv'
<1> SUFFICES ASSUME IndInv, [Next]_vars PROVE IndInv'
  OBVIOUS
<1>1. ASSUME NEW d \in Daemons, Served(d) \/ CallFails(d) PROVE IndInv'
  BY <1>1, ServeAcquireInv, ServeRenewInv, RequestLostInv DEF Served, CallFails
<1>2. ASSUME NEW d \in Daemons, LoopStep(d) PROVE IndInv'
  BY <1>2, BeginCallInv, OnGrantedInv, BecomeLeaderInv, OnDeniedInv, OnAcquireErrInv,
     OnRenewedInv, OnLostInv, OnRenewErrInv, WakeInv, StopLoopInv DEF LoopStep
<1>3. ASSUME NEW d \in Daemons, SignalShutdown(d) \/ ShutdownStep(d) \/ Crash(d)
      PROVE  IndInv'
  BY <1>3, SignalShutdownInv, TakeLeaseInv, ServeReleaseInv, ReleaseLostInv,
     FinishShutdownInv, CrashInv DEF ShutdownStep
<1>4. CASE UNCHANGED vars
  BY <1>4 DEF IndInv, TypeOK, LeaseBacked, AnswerBacked, Backed, CallMatches, LeaderRemembers,
      RowHasId, Unreleased, vars, rowVars, loopVars
<1> QED
  BY <1>1, <1>2, <1>3, <1>4, EvictExpiredInv, TickInv DEF Next

\* The inductive invariant holds in every state of the election.
THEOREM Invariance == Spec => []IndInv
  BY InitIndInv, NextIndInv, PTL DEF Spec

\* Type correctness of the row, the loops and the shutdowns.
THEOREM TypeCorrect == Spec => []TypeOK
<1>1. IndInv => TypeOK
  BY DEF IndInv
<1> QED
  BY <1>1, Invariance, PTL

\* A daemon that calls itself Leader and confirmed its lease less than TTL ago
\* holds the relay's row: leader_loop and LeaseManager together are safe as
\* long as a daemon acts on the state only while it is fresh.
THEOREM FreshLeaderHoldsLeaseHolds == Spec => []FreshLeaderHoldsLease
<1>1. IndInv => FreshLeaderHoldsLease
  BY DEF IndInv, LeaseBacked, LeaderRemembers, FreshLeaderHoldsLease, Backed
<1> QED
  BY <1>1, Invariance, PTL

\* Hence two fresh leaders are one and the same daemon.
THEOREM OneFreshLeader ==
    Spec => [](\A d, e \in Daemons :
                   /\ state[d] = "Leader" /\ Unreleased(d) /\ age[d] < TTL
                   /\ state[e] = "Leader" /\ Unreleased(e) /\ age[e] < TTL
                   => d = e)
<1>1. FreshLeaderHoldsLease =>
        \A d, e \in Daemons :
           /\ state[d] = "Leader" /\ Unreleased(d) /\ age[d] < TTL
           /\ state[e] = "Leader" /\ Unreleased(e) /\ age[e] < TTL
           => d = e
  BY DEF FreshLeaderHoldsLease
<1> QED
  BY <1>1, FreshLeaderHoldsLeaseHolds, PTL
=============================================================================
