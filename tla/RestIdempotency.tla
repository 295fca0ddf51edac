-------------------------- MODULE RestIdempotency ---------------------------
(***************************************************************************)
(* Idempotency keys of POST requests (crates/relay/src/idempotency.rs):    *)
(* the middleware of the production router, with its answers in Postgres,  *)
(* and the one with its answers in a map.                                  *)
(*                                                                         *)
(* A handler below the middleware is external: a run of it gives an answer *)
(* of its own, which is the number of the run.  The statements of the      *)
(* middleware may fail; it then goes on without them.                      *)
(***************************************************************************)
EXTENDS Integers, Sequences, FiniteSets, Maps

CONSTANTS
    IdemClients,
    IdemScopes,     \* method and path
    IdemKeys,
    IdemBodies,     \* bodies; their hashes
    IdemTtl,
    IdemMaxCalls,   \* bound on the requests made
    IdemMaxTime     \* bound on the clock

ASSUME IdemTtlAssumption == IdemTtl \in Nat

VARIABLES
    idemStore,  \* "db" or "memory": the middleware in use
    idemRows,   \* [scope, key] -> [hash, answer, expires]
    idemReq,    \* the request of each client
    idemRuns,   \* history: the handler's runs, in order, as [scope, key, body]
    replays,    \* history: answers replayed, as [scope, key, body, answer, at]
    idemTime,
    idemCount

idemVars == <<idemStore, idemRows, idemReq, idemRuns, replays, idemTime, idemCount>>

-----------------------------------------------------------------------------

IdemIdle == [at |-> "idle", scope |-> 0, key |-> 0, body |-> 0, answer |-> 0, status |-> "none"]

\* The map in memory has one entry for a key, whatever the path.
request_scope(r) ==
    IF idemStore = "db" THEN <<idemReq[r].scope, idemReq[r].key>> ELSE <<0, idemReq[r].key>>

Live(row) == row.expires > idemTime

load_entry(k) == k \in DOMAIN idemRows /\ Live(idemRows[k])

NewRow(r) == [hash |-> idemReq[r].body, answer |-> idemReq[r].answer,
              expires |-> idemTime + IdemTtl]

\* Mutant: the later of two answers replaces the earlier.
UpsertDbEntry(k, row) == Insert(idemRows, k, row)

\* ON CONFLICT DO NOTHING.
insert_db_entry(k, row) == IF k \in DOMAIN idemRows THEN idemRows ELSE Insert(idemRows, k, row)

\* The map overwrites.
insert_memory(k, row) == Insert(idemRows, k, row)

Without(k) == [x \in DOMAIN idemRows \ {k} |-> idemRows[x]]

IdemTo(r, at) == [idemReq EXCEPT ![r].at = at]
IdemEnd(r, st) == [idemReq EXCEPT ![r].at = "done", ![r].status = st]

IdemBegin(r, s, k, b) ==
    /\ idemReq[r].at \in {"idle", "done"}
    /\ idemCount < IdemMaxCalls
    /\ idemReq' = [idemReq EXCEPT ![r] = [IdemIdle EXCEPT !.at = "lookup", !.scope = s,
                                                          !.key = k, !.body = b]]
    /\ idemCount' = idemCount + 1
    /\ UNCHANGED <<idemStore, idemRows, idemRuns, replays, idemTime>>

idem_lookup(r) ==
    LET k == request_scope(r)
        hit == load_entry(k)
    IN  /\ idemReq[r].at = "lookup"
        /\ IF hit /\ idemRows[k].hash = idemReq[r].body
           THEN /\ idemReq' = [IdemEnd(r, "replay") EXCEPT ![r].answer = idemRows[k].answer]
                /\ replays' = replays \cup {[scope |-> idemReq[r].scope, key |-> idemReq[r].key,
                                             body |-> idemReq[r].body, at |-> idemTime,
                                             answer |-> idemRows[k].answer,
                                             until |-> idemRows[k].expires]}
           ELSE /\ idemReq' = IF hit THEN IdemEnd(r, "conflict") ELSE IdemTo(r, "handler")
                /\ UNCHANGED replays
        /\ UNCHANGED <<idemStore, idemRows, idemRuns, idemTime, idemCount>>

\* "idempotency lookup failed; continuing without replay"
idem_lookup_fails(r) ==
    /\ idemStore = "db"
    /\ idemReq[r].at = "lookup"
    /\ idemReq' = IdemTo(r, "handler")
    /\ UNCHANGED <<idemStore, idemRows, idemRuns, replays, idemTime, idemCount>>

\* Next is run.
idem_handler(r) ==
    /\ idemReq[r].at = "handler"
    /\ idemRuns' = Append(idemRuns, [scope |-> idemReq[r].scope, key |-> idemReq[r].key,
                                     body |-> idemReq[r].body])
    /\ idemReq' = [IdemTo(r, "store") EXCEPT ![r].answer = Len(idemRuns')]
    /\ UNCHANGED <<idemStore, idemRows, replays, idemTime, idemCount>>

\* The first statement of insert_db_entry makes room.
idem_delete_expired(r) ==
    LET k == request_scope(r)
    IN  /\ idemStore = "db"
        /\ idemReq[r].at = "store"
        /\ idemRows' = IF k \in DOMAIN idemRows /\ ~Live(idemRows[k]) THEN Without(k) ELSE idemRows
        /\ idemReq' = IdemTo(r, "insert")
        /\ UNCHANGED <<idemStore, idemRuns, replays, idemTime, idemCount>>

idem_insert(r) ==
    LET k == request_scope(r)
    IN  /\ \/ idemStore = "db" /\ idemReq[r].at = "insert"
              /\ idemRows' = insert_db_entry(k, NewRow(r))
           \/ idemStore = "memory" /\ idemReq[r].at = "store"
              /\ idemRows' = insert_memory(k, NewRow(r))
        /\ idemReq' = IdemEnd(r, "ran")
        /\ UNCHANGED <<idemStore, idemRuns, replays, idemTime, idemCount>>

\* The answer is not JSON, or a statement failed: it is given and not kept.
idem_not_kept(r) ==
    /\ idemStore = "db"
    /\ idemReq[r].at \in {"store", "insert"}
    /\ idemReq' = IdemEnd(r, "ran")
    /\ UNCHANGED <<idemStore, idemRows, idemRuns, replays, idemTime, idemCount>>

evict_expired ==
    /\ idemStore = "memory"
    /\ \E k \in DOMAIN idemRows : ~Live(idemRows[k])
    /\ idemRows' = [k \in {x \in DOMAIN idemRows : Live(idemRows[x])} |-> idemRows[k]]
    /\ UNCHANGED <<idemStore, idemReq, idemRuns, replays, idemTime, idemCount>>

IdemTick ==
    /\ idemTime < IdemMaxTime
    /\ idemTime' = idemTime + 1
    /\ UNCHANGED <<idemStore, idemRows, idemReq, idemRuns, replays, idemCount>>

-----------------------------------------------------------------------------

IdemInit ==
    /\ idemStore \in {"db", "memory"}
    /\ idemRows = <<>>
    /\ idemReq = [r \in IdemClients |-> IdemIdle]
    /\ idemRuns = <<>>
    /\ replays = {}
    /\ idemTime = 0
    /\ idemCount = 0

IdemStep(r) ==
    \/ idem_lookup(r)
    \/ idem_lookup_fails(r)
    \/ idem_handler(r)
    \/ idem_delete_expired(r)
    \/ idem_insert(r)
    \/ idem_not_kept(r)

IdemNext ==
    \/ \E r \in IdemClients, s \in IdemScopes, k \in IdemKeys, b \in IdemBodies :
          IdemBegin(r, s, k, b)
    \/ \E r \in IdemClients : IdemStep(r)
    \/ evict_expired
    \/ IdemTick

IdemSpec == IdemInit /\ [][IdemNext]_idemVars

-----------------------------------------------------------------------------
(* Properties *)

\* With Postgres, a client that retries is told one thing: once an answer was
\* replayed it is the one every later replay gives until it expires, even when
\* a request that ran beside the first one stores its own answer in between.
IdemReplaysAgree ==
    idemStore = "db" =>
    \A x, y \in replays :
        x.scope = y.scope /\ x.key = y.key /\ x.at <= y.at /\ y.at < x.until
        => x.answer = y.answer

\* What is replayed is the answer of a run of the same route with the same
\* body, which the caller could have made: never the answer to something else
\* that went by the same key.  (The map has one entry for all routes.)
IdemReplayFits ==
    \A x \in replays :
        /\ x.answer \in DOMAIN idemRuns
        /\ idemRuns[x.answer].key = x.key
        /\ idemRuns[x.answer].body = x.body
        /\ idemStore = "db" => idemRuns[x.answer].scope = x.scope

=============================================================================
