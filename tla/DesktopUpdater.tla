--------------------------- MODULE DesktopUpdater ---------------------------
(***************************************************************************)
(* The desktop application's updater                                       *)
(* (packages/desktop/src-tauri/src/updater.rs).  The check at start-up,    *)
(* checks the user asks for and installations run beside one another and   *)
(* share the configuration, the last result and the application on disk,   *)
(* while the publisher puts out and withdraws releases.                    *)
(*                                                                         *)
(* A version is a number and a prerelease tag.  Endpoints and public key   *)
(* are there or not; the crash rates are small numbers, -1 when unset.     *)
(***************************************************************************)
EXTENDS Integers

CONSTANTS
    UpTasks,          \* checks and installations at a time
    UpMaxPublished,
    UpMaxRestarts,
    UpMaxErrors,
    UpConfigs         \* what the environment may hold

VARIABLES
    running,     \* the version of the process
    disk,        \* the version a start would run
    published,   \* the version the endpoint offers
    upConfig,    \* UpdaterRuntimeConfig::from_env
    lastCheck,   \* UpdaterController.last_check
    upTask,      \* task -> what it does
    upCount      \* [published, restarts, errors]

upVars == <<running, disk, published, upConfig, lastCheck, upTask, upCount>>

-----------------------------------------------------------------------------
(* Versions and policy *)

Prereleases == {"beta", "internal", ""}

\* Order of semver: a release comes after its prereleases.
PreOrder(pre) == CASE pre = "beta" -> 0 [] pre = "internal" -> 1 [] pre = "" -> 2

Newer(v, w) == v.n > w.n \/ (v.n = w.n /\ PreOrder(v.pre) > PreOrder(w.pre))

ring_allows_version(ring, v) ==
    \/ v.pre = ""
    \/ ring = "internal"
    \/ ring = "beta" /\ v.pre # "internal"

is_crash_regression(baseline, current) ==
    baseline > 0 /\ current >= 0 /\ current > 2 * baseline

blocked_reason(c) ==
    \/ ~c.enabled
    \/ c.kill \/ is_crash_regression(c.baseline, c.current)
    \/ ~c.endpoints \/ ~c.pubkey

\* Mutant: any other version of the ring will do.
OtherVersionOfRing(v) == v # running /\ ring_allows_version(upConfig.ring, v)

\* The comparator check_for_updates and install_update give the plugin.
version_comparator(v) == Newer(v, running) /\ ring_allows_version(upConfig.ring, v)

-----------------------------------------------------------------------------

NoVersion == [n |-> 0, pre |-> ""]
NoCheck == [kind |-> "none", version |-> NoVersion]
NoTask == [pc |-> "idle", op |-> "none", version |-> NoVersion]

Starts(config) ==
    [t \in UpTasks |-> IF config.onStartup /\ t = (CHOOSE u \in UpTasks : TRUE)
                       THEN [NoTask EXCEPT !.pc = "start", !.op = "check"] ELSE NoTask]

UpInit ==
    /\ running = [n |-> 1, pre |-> ""] /\ disk = running /\ published = running
    /\ upConfig \in UpConfigs
    /\ lastCheck = NoCheck
    /\ upTask = Starts(upConfig)
    /\ upCount = [published |-> 0, restarts |-> 0, errors |-> 0]

UpTo(t, pc) == upTask' = [upTask EXCEPT ![t].pc = pc]
UpEnds(t) == upTask' = [upTask EXCEPT ![t] = NoTask]

UpFails ==
    /\ upCount.errors < UpMaxErrors
    /\ upCount' = [upCount EXCEPT !.errors = @ + 1]

user_asks(t, op) ==
    /\ upTask[t].pc = "idle"
    /\ upTask' = [upTask EXCEPT ![t] = [NoTask EXCEPT !.pc = "start", !.op = op]]
    /\ UNCHANGED <<running, disk, published, upConfig, lastCheck, upCount>>

\* A check records every outcome, an installation none.
update_last_check(t, kind, version) ==
    lastCheck' = IF upTask[t].op = "check" THEN [kind |-> kind, version |-> version] ELSE lastCheck

\* Up to the await: the policy, and a builder that may refuse the endpoints.
updater_build(t) ==
    /\ upTask[t].pc = "start"
    /\ \/ /\ blocked_reason(upConfig)
          /\ update_last_check(t, "blocked", NoVersion)
          /\ UpEnds(t) /\ UNCHANGED upCount
       \/ /\ ~blocked_reason(upConfig) /\ UpFails
          /\ update_last_check(t, "error", NoVersion)
          /\ UpEnds(t)
       \/ ~blocked_reason(upConfig) /\ UpTo(t, "asking") /\ UNCHANGED <<lastCheck, upCount>>
    /\ UNCHANGED <<running, disk, published, upConfig>>

\* The endpoint answers with what it offers at this moment.
endpoint_answers(t) ==
    /\ upTask[t].pc = "asking"
    /\ upTask' = [upTask EXCEPT ![t].pc = "answered", ![t].version = published]
    /\ UNCHANGED <<running, disk, published, upConfig, lastCheck, upCount>>

check_for_updates(t) ==
    /\ upTask[t].pc \in {"asking", "answered"} /\ upTask[t].op = "check"
    /\ \/ /\ upTask[t].pc = "answered"
          /\ IF version_comparator(upTask[t].version)
             THEN update_last_check(t, "available", upTask[t].version)
             ELSE update_last_check(t, "current", NoVersion)
          /\ UNCHANGED upCount
       \/ UpFails /\ update_last_check(t, "error", NoVersion)
    /\ UpEnds(t)
    /\ UNCHANGED <<running, disk, published, upConfig>>

install_check(t) ==
    /\ upTask[t].pc \in {"asking", "answered"} /\ upTask[t].op = "install"
    /\ \/ /\ upTask[t].pc = "answered"
          /\ IF version_comparator(upTask[t].version) THEN UpTo(t, "download") ELSE UpEnds(t)
          /\ UNCHANGED upCount
       \/ UpFails /\ UpEnds(t)
    /\ UNCHANGED <<running, disk, published, upConfig, lastCheck>>

\* download_and_install and request_restart; the process ends later.
install_update(t) ==
    /\ upTask[t].pc = "download"
    /\ \/ disk' = upTask[t].version /\ UNCHANGED upCount
       \/ UpFails /\ UNCHANGED disk
    /\ UpEnds(t)
    /\ UNCHANGED <<running, published, upConfig, lastCheck>>

\* init, in a process that may find another environment.
app_restarts(config) ==
    /\ upCount.restarts < UpMaxRestarts
    /\ upCount' = [upCount EXCEPT !.restarts = @ + 1]
    /\ running' = disk
    /\ upConfig' = config
    /\ upTask' = Starts(config)
    /\ lastCheck' = NoCheck
    /\ UNCHANGED <<disk, published>>

publish(v) ==
    /\ upCount.published < UpMaxPublished /\ v # published
    /\ upCount' = [upCount EXCEPT !.published = @ + 1]
    /\ published' = v
    /\ UNCHANGED <<running, disk, upConfig, lastCheck, upTask>>

UpNext ==
    \/ \E t \in UpTasks :
          \/ user_asks(t, "check") \/ user_asks(t, "install")
          \/ updater_build(t) \/ endpoint_answers(t) \/ check_for_updates(t)
          \/ install_check(t) \/ install_update(t)
    \/ \E config \in UpConfigs : app_restarts(config)
    \/ \E n \in 1..2, pre \in Prereleases : publish([n |-> n, pre |-> pre])

UpSpec == UpInit /\ [][UpNext]_upVars

-----------------------------------------------------------------------------
(* Properties *)

\* install_update and check_for_updates: whatever checks and installations
\* overlap and whichever releases are published or withdrawn meanwhile, the
\* application a restart would run, and the release the last check reports,
\* are newer than the running version and of its ring, and nothing replaces
\* the application while the policy blocks updates.  (Two installations may
\* still leave the older of two newer versions.)
UpForward ==
    /\ disk # running =>
          /\ Newer(disk, running) /\ ring_allows_version(upConfig.ring, disk)
          /\ ~blocked_reason(upConfig)
    /\ lastCheck.kind = "available" =>
          Newer(lastCheck.version, running) /\ ring_allows_version(upConfig.ring, lastCheck.version)
=============================================================================
