---------------------------- MODULE MCDaemonLive ----------------------------
(***************************************************************************)
(* What the daemon does in the background: commits, the queue for the      *)
(* relay, the watcher of files and the leases of agents.  They share no    *)
(* state, so a behaviour is one of `part` and the others stay as they      *)
(* were.  The files' part has no fairness; it is about safety only.        *)
(***************************************************************************)
EXTENDS DaemonGit, DaemonOutbox, DaemonFiles, DaemonAgents

VARIABLE part

LiveInit ==
    /\ part \in {"git", "outbox", "files", "agents"}
    /\ GitInit /\ ObInit /\ FilesInit /\ AgInit
    /\ part # "files" => storedHash = {}

LiveNext ==
    \/ part = "git"    /\ GitNext   /\ UNCHANGED <<part, obVars, filesVars, agVars>>
    \/ part = "outbox" /\ ObNext    /\ UNCHANGED <<part, gitVars, filesVars, agVars>>
    \/ part = "files"  /\ FilesNext /\ UNCHANGED <<part, gitVars, obVars, agVars>>
    \/ part = "agents" /\ AgNext    /\ UNCHANGED <<part, gitVars, obVars, filesVars>>

\* None of the fair actions is enabled in the first state of its part, so
\* that the fairness of a part that stays as it was asks for nothing.
LiveSpec ==
    /\ LiveInit
    /\ [][LiveNext]_<<part, gitVars, obVars, filesVars, agVars>>
    /\ GitFairness /\ ObFairness /\ AgFairness
=============================================================================
