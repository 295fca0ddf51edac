----------------------------- MODULE DaemonCli -----------------------------
(***************************************************************************)
(* The command line tool and the daemons it talks to: DaemonStartup with   *)
(* crates/cli/src/daemon_launcher.rs (start a daemon when none listens),   *)
(* client.rs (one call, tried twice) and serve_connection of the daemon's  *)
(* rpc/unix.rs.                                                            *)
(*                                                                         *)
(* A connection is in the backlog of a listener as soon as it is made, and *)
(* is served by a task of its own, which a shutdown does not wait for; the *)
(* end of the process ends it.  A client that gives up an attempt does not *)
(* end the task.                                                           *)
(***************************************************************************)
EXTENDS DaemonStartup, Sequences

CONSTANTS
    CliCalls,            \* invocations of the tool
    CONNECT_RETRIES,
    CliMaxTimeouts       \* attempts that take longer than the timeout

ASSUME CliRetriesNat == CONNECT_RETRIES \in Nat

VARIABLES
    cli,        \* call -> [pc, attempt, tries, result]
    requests,   \* {[call, attempt, to, state]}: queued, ran, read or lost
    ranTimes,   \* how often each call's request ran
    timeouts

cliVars == <<cli, requests, ranTimes, timeouts>>

RunningNow(d) == dpc[d] \in {"serve", "abort", "cleanup", "exit"}

CliInit ==
    /\ StInit
    /\ cli = [c \in CliCalls |-> [pc |-> "start", attempt |-> 0, tries |-> 0, result |-> "none"]]
    /\ requests = {}
    /\ ranTimes = [c \in CliCalls |-> 0]
    /\ timeouts = 0

CliTo(c, pc) == cli' = [cli EXCEPT ![c].pc = pc]

CliEnds(c, result) == cli' = [cli EXCEPT ![c].pc = "done", ![c].result = result]

\* The first connection is only to see whether a daemon listens.  Without one
\* the tool starts a process, if there is one it can start.
ensure_daemon_running(c) ==
    /\ cli[c].pc = "start"
    /\ \/ is_daemon_running /\ CliTo(c, "call") /\ UNCHANGED dpc
       \/ /\ ~is_daemon_running
          /\ \E d \in Standalone :
                /\ dpc[d] = "off"
                /\ dpc' = [dpc EXCEPT ![d] = "start"]
          /\ cli' = [cli EXCEPT ![c].pc = "wait", ![c].tries = CONNECT_RETRIES]
       \/ /\ ~is_daemon_running /\ \A d \in Standalone : dpc[d] # "off"
          /\ CliEnds(c, "error")
          /\ UNCHANGED dpc
    /\ UNCHANGED <<listening, socketOf, pidOf, portOf, asked, tries, requests, ranTimes, timeouts>>

wait_for_daemon_socket(c) ==
    /\ cli[c].pc = "wait"
    /\ IF is_daemon_running THEN CliTo(c, "call")
       ELSE IF cli[c].tries = 0 THEN CliEnds(c, "error")
       ELSE cli' = [cli EXCEPT ![c].tries = @ - 1]
    /\ UNCHANGED <<stVars, requests, ranTimes, timeouts>>

\* call: the first error, of any kind, is followed by a second attempt.
AttemptFails(c, error) ==
    IF cli[c].attempt = 1 THEN CliTo(c, "call") ELSE CliEnds(c, error)

call_once(c) ==
    /\ cli[c].pc = "call"
    /\ LET attempt == cli[c].attempt + 1
       IN IF is_daemon_running
          THEN /\ requests' = requests \union {[call |-> c, attempt |-> attempt, to |-> socketOf, state |-> "queued"]}
               /\ cli' = [cli EXCEPT ![c].pc = "sent", ![c].attempt = attempt]
          ELSE /\ cli' = IF attempt = 1 THEN [cli EXCEPT ![c].attempt = 1]
                         ELSE [cli EXCEPT ![c].attempt = 2, ![c].pc = "done", ![c].result = "unavailable"]
               /\ UNCHANGED requests
    /\ UNCHANGED <<stVars, ranTimes, timeouts>>

Becomes(r, state) == requests' = (requests \ {r}) \union {[r EXCEPT !.state = state]}

\* The daemon's task reads the line, runs the method and writes the answer.
serve_connection(r) ==
    /\ r.state = "queued" /\ RunningNow(r.to)
    /\ Becomes(r, "ran")
    /\ ranTimes' = [ranTimes EXCEPT ![r.call] = @ + 1]
    /\ UNCHANGED <<stVars, cli, timeouts>>

\* The answer of the attempt the tool waits for.
read_response(r) ==
    /\ r.state = "ran"
    /\ cli[r.call].pc = "sent" /\ cli[r.call].attempt = r.attempt
    /\ CliEnds(r.call, "ok")
    /\ Becomes(r, "read")
    /\ UNCHANGED <<stVars, ranTimes, timeouts>>

\* The process, or its listener with the backlog, is gone.
connection_reset(r) ==
    /\ r.state \in {"queued", "ran"}
    /\ dpc[r.to] \in {"stopped", "failed"}
    /\ Becomes(r, "lost")
    /\ IF cli[r.call].pc = "sent" /\ cli[r.call].attempt = r.attempt
       THEN AttemptFails(r.call, "error") ELSE UNCHANGED cli
    /\ UNCHANGED <<stVars, ranTimes, timeouts>>

call_times_out(c) ==
    /\ cli[c].pc = "sent" /\ timeouts < CliMaxTimeouts
    /\ timeouts' = timeouts + 1
    /\ AttemptFails(c, "error")
    /\ UNCHANGED <<stVars, requests, ranTimes>>

CliOwn(c) == ensure_daemon_running(c) \/ wait_for_daemon_socket(c) \/ call_once(c)

CliNext ==
    \/ StNext /\ UNCHANGED cliVars
    \/ \E c \in CliCalls : CliOwn(c) \/ call_times_out(c)
    \/ \E r \in requests : serve_connection(r) \/ read_response(r) \/ connection_reset(r)

CliSpec == CliInit /\ [][CliNext]_<<stVars, cliVars>>

-----------------------------------------------------------------------------
(* Properties *)

\* DaemonClient::call: a call that reports success ran, one that never reached
\* a daemon did not, and none runs more often than the two attempts; it runs
\* twice only if the first attempt was cut off or took too long (the retry is
\* the same request again and nothing in the daemon recognises it).
CliRunsAsTold ==
    \A c \in CliCalls :
       LET sent == {r \in requests : r.call = c}
       IN /\ cli[c].result = "ok" => ranTimes[c] >= 1
          /\ sent = {} => ranTimes[c] = 0
          /\ ranTimes[c] <= 2
          /\ ranTimes[c] = 2 => timeouts > 0 \/ \E r \in sent : r.attempt = 1 /\ r.state = "lost"

\* One daemon serves, and the tool is told the truth about its call, while
\* daemons are started by it and by others, replaced and killed.
CliServed == StOneServes /\ CliRunsAsTold
=============================================================================
