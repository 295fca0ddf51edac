---------------------------- MODULE DaemonAgents ----------------------------
(***************************************************************************)
(* Agents at the daemon: advisory leases on sections                       *)
(* (crates/daemon/src/agent/lease.rs), the sessions that go with them      *)
(* (agent/session.rs) and the calls agent.claim, agent.status, agent.list  *)
(* and agent.conflicts (crates/daemon/src/rpc/methods.rs), which run under *)
(* the locks of the database and of the lease store, one at a time.        *)
(*                                                                         *)
(* Leases are kept twice, in memory and in SQLite; a statement may fail.   *)
(* A task sleeps for every lease that is granted and tells the commit      *)
(* triggers when the lease is over.  A lease is identified by its agent    *)
(* and its section; workspace and document are part of the section.        *)
(***************************************************************************)
EXTENDS Integers, FiniteSets, Maps

CONSTANTS
    Agents,
    LeaseSections,
    Ttls,           \* ttl_sec of the claims
    AgMaxCalls,     \* bound on the calls made
    AgMaxFailures,  \* bound on the statements that fail
    AgMaxTime       \* bound on the clock; leases end before

ASSUME TtlsAssumption == Ttls \subseteq Nat

VARIABLES
    memLeases,  \* LeaseStore.leases: <<agent, section>> -> [ttl, expires]
    dbLeases,   \* table agent_leases
    agSessions, \* table agent_sessions: agent -> last_seen_at of its active session
    tasks,      \* sleeping tasks of schedule_lease_expiry_trigger: [lease, at]
    acked,      \* history: the end of the lease each agent was last told
    told,       \* history: the conflicts each agent was last told
    owed,       \* history: leases granted whose end was not yet announced
    agTime,
    agCount

agVars == <<memLeases, dbLeases, agSessions, tasks, acked, told, owed, agTime, agCount>>

-----------------------------------------------------------------------------

\* Mutant: a lease lasts through the moment it ends.
ExpiresAfter(lease, now) == lease.expires < now

is_expired_at(lease, now) == lease.expires <= now

Unexpired(leases, now) ==
    [k \in {x \in DOMAIN leases : ~is_expired_at(leases[x], now)} |-> leases[k]]

\* Mutant: the row that is there stays.
InsertOrIgnoreLease(k, lease) ==
    IF k \in DOMAIN dbLeases THEN dbLeases ELSE Insert(dbLeases, k, lease)

upsert_lease(k, lease) == Insert(dbLeases, k, lease)

conflicts_for_section(leases, a, s, now) ==
    {b \in Agents \ {a} : <<b, s>> \in DOMAIN Unexpired(leases, now)}

active_leases_for_section(s, now) == {k \in DOMAIN Unexpired(memLeases, now) : k[2] = s}

active_leases(now) == DOMAIN Unexpired(memLeases, now)

count_active_sections_by_agent(a, now) == Cardinality({k \in active_leases(now) : k[1] = a})

\* What the other calls answer.  The token is a hash of the sessions and of
\* the documents, which are read afterwards under another lock.
agent_list(now) ==
    [a \in DOMAIN agSessions |->
        [seen |-> agSessions[a], sections |-> count_active_sections_by_agent(a, now)]]

agent_conflicts(now) ==
    {s \in LeaseSections : Cardinality(active_leases_for_section(s, now)) >= 2}

ensure_active_session(a, now) == Insert(agSessions, a, now)

Call == agCount.call < AgMaxCalls /\ agCount' = [agCount EXCEPT !.call = @ + 1]
Fails == agCount.call < AgMaxCalls /\ agCount.failure < AgMaxFailures
         /\ agCount' = [agCount EXCEPT !.call = @ + 1, !.failure = @ + 1]

-----------------------------------------------------------------------------
(* Calls *)

\* The expired leases go first, from memory and from SQLite.  A section that
\* others have a lease on is granted all the same; the caller is told.
agent_claim(a, s, ttl) ==
    LET k == <<a, s>>
        lease == [ttl |-> ttl, expires |-> agTime + ttl]
    IN  /\ agTime + ttl < AgMaxTime
        /\ Call
        /\ agSessions' = ensure_active_session(a, agTime)
        /\ IF ttl = 0 THEN UNCHANGED <<memLeases, dbLeases, tasks, acked, told, owed>>
           ELSE /\ memLeases' = Insert(Unexpired(memLeases, agTime), k, lease)
                /\ dbLeases' = Unexpired(upsert_lease(k, lease), agTime)
                /\ tasks' = tasks \cup {[lease |-> k, at |-> lease.expires]}
                /\ acked' = Insert(acked, k, lease.expires)
                /\ told' = Insert(told, k, conflicts_for_section(memLeases, a, s, agTime))
                /\ owed' = owed \cup {k}
        /\ UNCHANGED agTime

\* A statement fails: the first leaves nothing behind, the DELETE the session
\* and a store without the expired leases, the upsert those and no lease.
agent_claim_fails(a, s) ==
    /\ Fails
    /\ \/ UNCHANGED <<memLeases, dbLeases, agSessions>>
       \/ /\ agSessions' = ensure_active_session(a, agTime)
          /\ memLeases' = Unexpired(memLeases, agTime)
          /\ dbLeases' \in {dbLeases, Unexpired(dbLeases, agTime)}
    /\ UNCHANGED <<tasks, acked, told, owed, agTime>>

\* The lease is extended; there is no task for its new end.
record_activity(a, s) ==
    LET k == <<a, s>>
    IN  /\ k \in active_leases(agTime)
        /\ agTime + memLeases[k].ttl < AgMaxTime
        /\ Call
        /\ memLeases' = [Unexpired(memLeases, agTime) EXCEPT
                            ![k].expires = agTime + memLeases[k].ttl]
        /\ dbLeases' = Unexpired(upsert_lease(k, memLeases'[k]), agTime)
        /\ acked' = [acked EXCEPT ![k] = memLeases'[k].expires]
        /\ owed' = owed \ {k}
        /\ UNCHANGED <<agSessions, tasks, told, agTime>>

\* The upsert fails: memory has the new end, SQLite the old one.
record_activity_fails(a, s) ==
    LET k == <<a, s>>
    IN  /\ k \in active_leases(agTime)
        /\ agTime + memLeases[k].ttl < AgMaxTime
        /\ Fails
        /\ memLeases' = [Unexpired(memLeases, agTime) EXCEPT
                            ![k].expires = agTime + memLeases[k].ttl]
        /\ dbLeases' = Unexpired(dbLeases, agTime)
        /\ owed' = owed \ {k}
        /\ UNCHANGED <<agSessions, tasks, acked, told, agTime>>

\* agent.status, agent.list and agent.conflicts: they read, and prune.
prune_expired ==
    /\ Call
    /\ memLeases' = Unexpired(memLeases, agTime)
    /\ dbLeases' = Unexpired(dbLeases, agTime)
    /\ UNCHANGED <<agSessions, tasks, acked, told, owed, agTime>>

\* A task wakes up.  If its agent has the lease still, another claim was made
\* and another task sleeps.
lease_expiry_task(t) ==
    /\ t.at <= agTime
    /\ tasks' = tasks \ {t}
    /\ memLeases' = Unexpired(memLeases, agTime)
    /\ dbLeases' = Unexpired(dbLeases, agTime)
    /\ owed' = IF t.lease \in active_leases_for_section(t.lease[2], agTime) THEN owed
               ELSE owed \ {t.lease}
    /\ UNCHANGED <<agSessions, acked, told, agTime, agCount>>

\* The daemon starts again on the same database: leases are loaded, tasks are
\* not.
new_lease_store ==
    /\ Call
    /\ dbLeases' = Unexpired(dbLeases, agTime)
    /\ memLeases' = Unexpired(dbLeases, agTime)
    /\ tasks' = {}
    /\ owed' = {}
    /\ UNCHANGED <<agSessions, acked, told, agTime>>

\* The time before the first call makes no difference.
AgTick ==
    /\ agCount.call > 0
    /\ agTime < AgMaxTime
    /\ agTime' = agTime + 1
    /\ UNCHANGED <<memLeases, dbLeases, agSessions, tasks, acked, told, owed, agCount>>

-----------------------------------------------------------------------------

AgInit ==
    /\ memLeases = <<>>
    /\ dbLeases = <<>>
    /\ agSessions = <<>>
    /\ tasks = {}
    /\ acked = <<>>
    /\ told = <<>>
    /\ owed = {}
    /\ agTime = 0
    /\ agCount = [call |-> 0, failure |-> 0]

AgNext ==
    \/ \E a \in Agents, s \in LeaseSections :
          \/ \E ttl \in Ttls : agent_claim(a, s, ttl)
          \/ agent_claim_fails(a, s)
          \/ record_activity(a, s)
          \/ record_activity_fails(a, s)
    \/ prune_expired
    \/ \E t \in tasks : lease_expiry_task(t)
    \/ new_lease_store
    \/ AgTick

\* Time passes and a task whose sleep is over is run.
AgFairness == WF_agVars(AgTick) /\ WF_agVars(\E t \in tasks : lease_expiry_task(t))

AgSpec == AgInit /\ [][AgNext]_agVars /\ AgFairness

-----------------------------------------------------------------------------
(* Properties *)

\* agent_claim, record_activity and new_lease_store: a lease an agent was told
\* it has is there until it ends, in memory and in SQLite; no failed statement,
\* no other call and no restart ends it early, and agent.list shows the agent
\* with all of them.  Leases are advisory: two agents may have one on the same
\* section, which agent.conflicts then lists, and of any two one at least was
\* told of the other when it claimed.
AgHonest ==
    LET held == {k \in DOMAIN acked : acked[k] > agTime}
    IN  /\ \A k \in held :
             /\ k \in DOMAIN memLeases /\ memLeases[k].expires >= acked[k]
             /\ k \in DOMAIN dbLeases /\ dbLeases[k].expires >= acked[k]
        /\ \A a \in {k[1] : k \in held} :
             /\ a \in DOMAIN agent_list(agTime)
             /\ agent_list(agTime)[a].sections >= Cardinality({k \in held : k[1] = a})
        /\ \A s \in agent_conflicts(agTime) :
             \A k, l \in active_leases_for_section(s, agTime) :
                 k # l => k[1] \in told[l] \/ l[1] \in told[k]

\* lease_expiry_task: the end of a lease is announced to the commit triggers, though the lease may
\* be claimed again, longer or shorter, before the task of the first claim
\* wakes up.  (Not of one that activity extended or a restart loaded: those
\* have no task.)
AgEndAnnounced ==
    \A k \in Agents \X LeaseSections : k \in owed ~> k \notin owed

=============================================================================
