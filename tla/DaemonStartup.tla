---------------------------- MODULE DaemonStartup ---------------------------
(***************************************************************************)
(* Daemons that start, take over from one another and stop                 *)
(* (crates/daemon/src/runtime.rs, startup.rs and rpc/unix.rs).             *)
(*                                                                         *)
(* They share a directory: the socket's file, the file with the process id *)
(* and the store the documents are recovered from; and a TCP port.  The    *)
(* socket's file belongs to the daemon that bound it last; a daemon whose  *)
(* file was removed goes on listening and cannot be reached.  DaemonCli    *)
(* adds the clients.                                                       *)
(***************************************************************************)
EXTENDS Integers, FiniteSets

CONSTANTS
    Standalone,         \* daemons run by run_standalone
    Embedded,           \* daemons run by start_embedded
    TakeoverRetries     \* TAKEOVER_WAIT_RETRIES

\* 0 stands for no daemon.
ASSUME DaemonsNamed == 0 \notin Standalone \cup Embedded

VARIABLES
    dpc,        \* where each daemon is
    listening,  \* daemons whose listener is open
    socketOf,   \* the daemon that bound the socket's file; 0: no file
    pidOf,      \* the daemon whose id is in the file; 0: no file
    portOf,     \* the daemon that has the port; 0: none
    asked,      \* daemons that a shutdown was sent to
    tries       \* checks left in wait_for_daemon_shutdown

stVars == <<dpc, listening, socketOf, pidOf, portOf, asked, tries>>

StDaemons == Standalone \cup Embedded

-----------------------------------------------------------------------------

is_daemon_running == socketOf \in listening

StTo(d, at) == dpc' = [dpc EXCEPT ![d] = at]

\* A daemon fails while it starts: its listener is closed, no file is removed.
StFail(d) ==
    /\ StTo(d, "failed")
    /\ listening' = listening \ {d}
    /\ portOf' = IF portOf = d THEN 0 ELSE portOf

\* take_over_standalone_if_running: the shutdown is answered at once.
take_over_standalone(d) ==
    /\ d \in Embedded
    /\ dpc[d] = "start"
    /\ IF is_daemon_running
       THEN StTo(d, "wait") /\ asked' = asked \cup {socketOf}
       ELSE StTo(d, "bind") /\ UNCHANGED asked
    /\ UNCHANGED <<listening, socketOf, pidOf, portOf, tries>>

wait_for_daemon_shutdown(d) ==
    /\ dpc[d] = "wait"
    /\ IF ~is_daemon_running THEN StTo(d, "bind") /\ UNCHANGED tries
       ELSE IF tries[d] = 0 THEN StTo(d, "failed") /\ UNCHANGED tries
       ELSE UNCHANGED dpc /\ tries' = [tries EXCEPT ![d] = @ - 1]
    /\ UNCHANGED <<listening, socketOf, pidOf, portOf, asked>>

run_standalone(d) ==
    /\ d \in Standalone
    /\ dpc[d] = "start"
    /\ StTo(d, "bind")
    /\ UNCHANGED <<listening, socketOf, pidOf, portOf, asked, tries>>

\* The file that is there is removed, whoever listens.
bind_socket(d) ==
    /\ dpc[d] = "bind"
    /\ socketOf' = d
    /\ listening' = listening \cup {d}
    /\ StTo(d, "pid")
    /\ UNCHANGED <<pidOf, portOf, asked, tries>>

write_pid_file(d) ==
    /\ dpc[d] = "pid"
    /\ pidOf' = d
    /\ StTo(d, "port")
    /\ UNCHANGED <<listening, socketOf, portOf, asked, tries>>

\* Mutant: a daemon that cannot bind the port goes on without it.
StartsWithoutPort(d) ==
    /\ dpc[d] = "port"
    /\ StTo(d, "recover")
    /\ portOf' = IF portOf = 0 THEN d ELSE portOf
    /\ UNCHANGED <<listening, socketOf, pidOf, asked, tries>>

\* A port in use fails the start.
start_local_yjs_ws_server(d) ==
    /\ dpc[d] = "port"
    /\ IF portOf = 0
       THEN StTo(d, "recover") /\ portOf' = d /\ UNCHANGED listening
       ELSE StFail(d)
    /\ UNCHANGED <<socketOf, pidOf, asked, tries>>

recover_state_from_crdt_store(d) ==
    /\ dpc[d] = "recover"
    /\ StTo(d, "serve")
    /\ UNCHANGED <<listening, socketOf, pidOf, portOf, asked, tries>>

\* daemon.shutdown, or ctrl-c.
serve_unix_until_shutdown(d) ==
    /\ dpc[d] = "serve"
    /\ d \in asked
    /\ listening' = listening \ {d}
    /\ StTo(d, "abort")
    /\ UNCHANGED <<socketOf, pidOf, portOf, asked, tries>>

abort_yjs_ws(d) ==
    /\ dpc[d] = "abort"
    /\ portOf' = 0
    /\ StTo(d, "cleanup")
    /\ UNCHANGED <<listening, socketOf, pidOf, asked, tries>>

\* The files are removed, whoever wrote them.
cleanup_paths(d) ==
    /\ dpc[d] = "cleanup"
    /\ pidOf' = 0
    /\ socketOf' = 0
    /\ StTo(d, "exit")
    /\ UNCHANGED <<listening, portOf, asked, tries>>

\* The process ends, with the tasks of the requests it still served.
process_exit(d) ==
    /\ dpc[d] = "exit"
    /\ StTo(d, "stopped")
    /\ UNCHANGED <<listening, socketOf, pidOf, portOf, asked, tries>>

\* The user, a login item or the desktop application starts it.
process_starts(d) ==
    /\ dpc[d] = "off"
    /\ StTo(d, "start")
    /\ UNCHANGED <<listening, socketOf, pidOf, portOf, asked, tries>>

user_stops(d) ==
    /\ dpc[d] = "serve"
    /\ d \notin asked
    /\ asked' = asked \cup {d}
    /\ UNCHANGED <<dpc, listening, socketOf, pidOf, portOf, tries>>

\* The process is killed; its files stay.
process_killed(d) ==
    /\ dpc[d] = "serve"
    /\ listening' = listening \ {d}
    /\ portOf' = IF portOf = d THEN 0 ELSE portOf
    /\ StTo(d, "stopped")
    /\ UNCHANGED <<socketOf, pidOf, asked, tries>>

-----------------------------------------------------------------------------

StInit ==
    /\ dpc = [d \in StDaemons |-> "off"]
    /\ listening = {}
    /\ socketOf = 0
    /\ pidOf = 0
    /\ portOf = 0
    /\ asked = {}
    /\ tries = [d \in StDaemons |-> TakeoverRetries]

StOwn(d) ==
    \/ take_over_standalone(d)
    \/ wait_for_daemon_shutdown(d)
    \/ run_standalone(d)
    \/ bind_socket(d)
    \/ write_pid_file(d)
    \/ start_local_yjs_ws_server(d)
    \/ recover_state_from_crdt_store(d)
    \/ serve_unix_until_shutdown(d)
    \/ abort_yjs_ws(d)
    \/ cleanup_paths(d)
    \/ process_exit(d)

StNext ==
    \E d \in StDaemons :
        \/ StOwn(d)
        \/ process_starts(d)
        \/ user_stops(d)
        \/ process_killed(d)

StSpec == StInit /\ [][StNext]_stVars

-----------------------------------------------------------------------------
(* Properties *)

\* Two daemons never serve the same store, nor recover from it while another
\* serves, however they start, take over and are killed: what keeps them apart
\* is the port, which a daemon takes before it recovers and gives back after
\* its listener is closed.  (The tasks of its last requests may run on.)
StOneServes ==
    Cardinality({d \in StDaemons : dpc[d] \in {"recover", "serve"}}) <= 1
=============================================================================
