---------------------------- MODULE MCDaemonWork ----------------------------
(***************************************************************************)
(* The daemon at the service of its callers: the documents of a workspace, *)
(* the command line tool and the daemons it starts, the workspaces a       *)
(* daemon knows, the key its logs are encrypted under, and the updater of  *)
(* the desktop application that carries it.  They share no state, so a     *)
(* behaviour is one of `part` and the others stay as they were.            *)
(***************************************************************************)
EXTENDS TLC, DaemonLibrary, DaemonCli, DaemonWorkspaces, DaemonSecrets, DesktopUpdater

VARIABLE part

MCLibLinks == {{}, {"a"}}

MCMarkdownFiles == ("r" :> {"x", "y"}) @@ ("s" :> {"x"}) @@ ("t" :> {"x", "x2"})

MCPathNorm == [x |-> "x", y |-> "y", x2 |-> "x"]

UpdaterConfig(ring) ==
    [enabled |-> TRUE, onStartup |-> TRUE, ring |-> ring, kill |-> FALSE, baseline |-> 1, current |-> 2,
     endpoints |-> TRUE, pubkey |-> TRUE]

\* The last one has a crash rate above twice the baseline.
MCUpConfigs ==
    {UpdaterConfig("ga"), [UpdaterConfig("beta") EXCEPT !.onStartup = FALSE],
     [UpdaterConfig("internal") EXCEPT !.current = 3]}

-----------------------------------------------------------------------------

cliAllVars == <<stVars, cliVars>>

WorkInit ==
    /\ part \in {"library", "cli", "workspaces", "secrets", "updater"}
    /\ LibInit /\ CliInit /\ WkInit /\ KeyInit /\ UpInit
    /\ part # "secrets" => walMode = "absent"
    /\ part # "updater" => upConfig = UpdaterConfig("ga")

WorkNext ==
    \/ part = "library"    /\ LibNext /\ UNCHANGED <<part, cliAllVars, wkVars, keyVars, upVars>>
    \/ part = "cli"        /\ CliNext /\ UNCHANGED <<part, libVars, wkVars, keyVars, upVars>>
    \/ part = "workspaces" /\ WkNext  /\ UNCHANGED <<part, libVars, cliAllVars, keyVars, upVars>>
    \/ part = "secrets"    /\ KeyNext /\ UNCHANGED <<part, libVars, cliAllVars, wkVars, upVars>>
    \/ part = "updater"    /\ UpNext  /\ UNCHANGED <<part, libVars, cliAllVars, wkVars, keyVars>>

WorkSpec == WorkInit /\ [][WorkNext]_<<part, libVars, cliAllVars, wkVars, keyVars, upVars>>
=============================================================================
