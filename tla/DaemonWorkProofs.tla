-------------------------- MODULE DaemonWorkProofs --------------------------
(***************************************************************************)
(* Proofs about parts of the daemon that serve its callers, for any number *)
(* of processes and tasks and whatever the bounds: a daemon that has a key *)
(* can read every frame (DaemonSecrets), the desktop application only      *)
(* moves forward within its ring (DesktopUpdater), a workspace that        *)
(* workspace.create answered for is known and imported (DaemonWorkspaces), *)
(* one daemon serves and the command line tool is told what became of its  *)
(* call (DaemonStartup, DaemonCli), and what the daemon says of documents  *)
(* is true: numbers, recorded texts, the index, links (DaemonLibrary).     *)
(***************************************************************************)
EXTENDS DaemonCli, DaemonSecrets, DesktopUpdater, DaemonWorkspaces, DaemonLibrary,
        FiniteSetTheorems, SequenceTheorems, WellFoundedInduction, TLAPS

-----------------------------------------------------------------------------
(* Encryption at rest.  The property speaks of frames and of daemons that  *)
(* are idle; the key passes through the steps of a process on the way from *)
(* one to the other, and the invariant follows it there.                   *)

KeyProcess ==
    [up : BOOLEAN, cache : Nat \union {KeyError}, pc : {"idle", "store", "secure", "write"}, key : Nat]

KeyTypeOK ==
    /\ keychain \in Nat
    /\ daemon \in [KeyDaemons -> KeyProcess]
    /\ walFrames \in Seq([key : Nat, mode : {"owner", "others"}])
    /\ walMode \in {"absent", "owner", "others"}
    /\ keysMade \in Nat
    /\ forked \in BOOLEAN

\* One process at most is about to store a key, and then there is none yet.
KeyOneMaker ==
    \A d \in KeyDaemons : daemon[d].pc = "store" =>
        /\ daemon[d].key > NoKey
        /\ ~forked => keychain = NoKey /\ \A e \in KeyDaemons : daemon[e].pc = "store" => e = d

\* Every key in use is the one in the keychain.
KeyInUse ==
    ~forked =>
      /\ \A d \in KeyDaemons :
            /\ daemon[d].cache > NoKey => daemon[d].cache = keychain
            /\ daemon[d].pc \in {"secure", "write"} => daemon[d].key = keychain
      /\ \A i \in DOMAIN walFrames : walFrames[i].key # NoKey => walFrames[i].key = keychain

\* A frame on its way has a key.
KeyPresent == \A d \in KeyDaemons : daemon[d].pc \in {"secure", "write"} => daemon[d].key > NoKey

\* No frame is written under a mode that lets others read it.
KeyPrivate ==
    /\ \A d \in KeyDaemons : daemon[d].pc = "write" => walMode = "owner"
    /\ \A i \in DOMAIN walFrames : walFrames[i].key # NoKey => walFrames[i].mode = "owner"

KeyInv == KeyTypeOK /\ KeyOneMaker /\ KeyInUse /\ KeyPresent /\ KeyPrivate

LEMMA KeyInitInv == KeyInit => KeyInv
<1> SUFFICES ASSUME KeyInit PROVE KeyInv
  OBVIOUS
<1>1. KeyTypeOK
  <2>1. /\ Stopped \in KeyProcess
        /\ <<[key |-> NoKey, mode |-> "others"]>> \in Seq([key : Nat, mode : {"owner", "others"}])
        /\ <<>> \in Seq([key : Nat, mode : {"owner", "others"}])
    BY DEF KeyProcess, Stopped, NoKey, KeyError
  <2>2. walFrames \in Seq([key : Nat, mode : {"owner", "others"}]) /\ walMode \in {"absent", "owner", "others"}
    BY <2>1 DEF KeyInit
  <2> QED
    BY <2>1, <2>2 DEF KeyInit, KeyTypeOK, NoKey
<1>2. KeyOneMaker /\ KeyInUse /\ KeyPresent /\ KeyPrivate
  BY DEF KeyInit, KeyOneMaker, KeyInUse, KeyPresent, KeyPrivate, Stopped, NoKey
<1> QED
  BY <1>1, <1>2 DEF KeyInv

\* A process that starts or stops remembers nothing.
LEMMA KeyStartsInv ==
    ASSUME KeyInv, NEW d \in KeyDaemons, daemon_starts(d) \/ daemon_stops(d)
    PROVE  KeyInv'
<1>1. /\ UNCHANGED <<keychain, walFrames, walMode, keysMade, forked>>
      /\ daemon' \in [KeyDaemons -> KeyProcess]
      /\ daemon'[d].cache = NoKey /\ daemon'[d].pc = "idle"
      /\ \A e \in KeyDaemons \ {d} : daemon'[e] = daemon[e]
  <2>1. Stopped \in KeyProcess /\ [Stopped EXCEPT !.up = TRUE] \in KeyProcess
    BY DEF Stopped, KeyProcess, NoKey
  <2>2. /\ Stopped.cache = NoKey /\ Stopped.pc = "idle"
        /\ [Stopped EXCEPT !.up = TRUE].cache = NoKey /\ [Stopped EXCEPT !.up = TRUE].pc = "idle"
    BY DEF Stopped
  <2>3. \/ daemon' = [daemon EXCEPT ![d] = Stopped]
        \/ daemon' = [daemon EXCEPT ![d] = [Stopped EXCEPT !.up = TRUE]]
    BY DEF daemon_starts, daemon_stops
  <2> HIDE DEF Stopped
  <2> QED
    BY <2>1, <2>2, <2>3 DEF KeyInv, KeyTypeOK, daemon_starts, daemon_stops
<1> QED
  BY <1>1 DEF KeyInv, KeyTypeOK, KeyOneMaker, KeyInUse, KeyPresent, KeyPrivate, NoKey

\* A process takes the key of the keychain, makes one up, or remembers that
\* it has none.
LEMMA KeyLoadInv ==
    ASSUME KeyInv, NEW d \in KeyDaemons, load_or_create_master_key(d)
    PROVE  KeyInv'
<1> USE DEF NoKey, KeyError
<1>1. /\ keychain \in Nat /\ keysMade \in Nat /\ daemon[d].pc = "idle" /\ daemon[d] \in KeyProcess
      /\ daemon \in [KeyDaemons -> KeyProcess] /\ forked \in BOOLEAN
      /\ UNCHANGED <<keychain, walFrames, walMode>>
  BY DEF KeyInv, KeyTypeOK, load_or_create_master_key
<1>2. CASE /\ daemon' = [daemon EXCEPT ![d].cache = keychain] /\ UNCHANGED <<keysMade, forked>>
  <2>1. [daemon[d] EXCEPT !.cache = keychain] \in KeyProcess
    BY <1>1 DEF KeyProcess
  <2>2. KeyTypeOK'
    BY <1>1, <1>2, <2>1 DEF KeyInv, KeyTypeOK
  <2> QED
    BY <1>1, <1>2, <2>2 DEF KeyInv, KeyTypeOK, KeyOneMaker, KeyInUse, KeyPresent, KeyPrivate, KeyProcess
<1>3. CASE /\ daemon' = [daemon EXCEPT ![d].cache = KeyError] /\ UNCHANGED <<keysMade, forked>>
  <2>1. [daemon[d] EXCEPT !.cache = KeyError] \in KeyProcess
    BY <1>1 DEF KeyProcess
  <2>2. KeyTypeOK'
    BY <1>1, <1>3, <2>1 DEF KeyInv, KeyTypeOK
  <2> QED
    BY <1>1, <1>3, <2>2 DEF KeyInv, KeyTypeOK, KeyOneMaker, KeyInUse, KeyPresent, KeyPrivate, KeyProcess
<1>4. CASE /\ keychain = NoKey
           /\ keysMade' = keysMade + 1
           /\ daemon' = [daemon EXCEPT ![d].pc = "store", ![d].key = keysMade + 1]
           /\ forked' = (forked \/ \E e \in KeyDaemons \ {d} : daemon[e].pc = "store")
  <2> DEFINE k == keysMade + 1
  <2>1. k \in Nat /\ k > NoKey
    BY <1>1
  <2>2. daemon' = [daemon EXCEPT ![d] = [daemon[d] EXCEPT !.pc = "store", !.key = k]]
    BY <1>1, <1>4
  <2> HIDE DEF k
  <2>3. /\ daemon' \in [KeyDaemons -> KeyProcess]
        /\ daemon'[d].pc = "store" /\ daemon'[d].key = k
        /\ daemon'[d].cache = daemon[d].cache
        /\ \A e \in KeyDaemons \ {d} : daemon'[e] = daemon[e]
    <3>1. LET p == [daemon[d] EXCEPT !.pc = "store", !.key = k]
          IN  p \in KeyProcess /\ p.pc = "store" /\ p.key = k /\ p.cache = daemon[d].cache
      BY <1>1, <2>1 DEF KeyProcess
    <3> QED
      BY <1>1, <2>2, <3>1
  <2>4. KeyTypeOK'
    BY <1>1, <1>4, <2>3 DEF KeyInv, KeyTypeOK
  <2>5. KeyOneMaker'
    BY <1>1, <1>4, <2>1, <2>3 DEF KeyInv, KeyOneMaker
  <2>6. KeyInUse' /\ KeyPresent' /\ KeyPrivate'
    BY <1>1, <1>4, <2>3 DEF KeyInv, KeyInUse, KeyPresent, KeyPrivate
  <2> QED
    BY <2>4, <2>5, <2>6 DEF KeyInv
<1> QED
  BY <1>2, <1>3, <1>4 DEF load_or_create_master_key

\* The one process that made a key up stores it, or gives it up.
LEMMA KeyPersistInv ==
    ASSUME KeyInv, NEW d \in KeyDaemons, persist_master_key(d)
    PROVE  KeyInv'
<1> USE DEF NoKey, KeyError
<1>1. /\ keychain \in Nat /\ daemon[d].pc = "store" /\ daemon[d] \in KeyProcess
      /\ daemon \in [KeyDaemons -> KeyProcess]
      /\ UNCHANGED <<walFrames, walMode, keysMade, forked>>
  BY DEF KeyInv, KeyTypeOK, persist_master_key
<1>2. PICK stored \in BOOLEAN : store_master_key(d, stored)
  BY DEF persist_master_key
<1> DEFINE k == daemon[d].key
           c == IF stored THEN k ELSE KeyError
<1>3. k \in Nat /\ c \in Nat \union {KeyError} /\ 0 \in Nat
  BY <1>1 DEF KeyProcess
<1>4. /\ keychain' = IF stored THEN k ELSE keychain
      /\ daemon' \in [KeyDaemons -> KeyProcess]
      /\ daemon'[d].pc = "idle" /\ daemon'[d].cache = c
      /\ \A e \in KeyDaemons \ {d} : daemon'[e] = daemon[e]
  <2>1. daemon' = [daemon EXCEPT ![d] = [daemon[d] EXCEPT !.pc = "idle", !.key = 0, !.cache = c]]
    BY <1>1, <1>2 DEF store_master_key
  <2> HIDE DEF c
  <2>2. LET p == [daemon[d] EXCEPT !.pc = "idle", !.key = 0, !.cache = c]
        IN  p \in KeyProcess /\ p.pc = "idle" /\ p.cache = c
    BY <1>1, <1>3 DEF KeyProcess
  <2> QED
    BY <1>1, <1>2, <2>1, <2>2 DEF store_master_key
<1>5. KeyTypeOK'
  BY <1>1, <1>3, <1>4 DEF KeyInv, KeyTypeOK
<1>6. KeyOneMaker'
  BY <1>1, <1>4 DEF KeyInv, KeyOneMaker
<1>7. KeyInUse'
  <2>1. k > NoKey /\ (~forked => keychain = NoKey)
    BY <1>1 DEF KeyInv, KeyOneMaker
  <2> HIDE DEF k
  <2>2. CASE stored
    <3>1. ASSUME ~forked, NEW e \in KeyDaemons \ {d}
          PROVE  ~(daemon[e].cache > NoKey) /\ daemon[e].pc \notin {"secure", "write"}
      <4>1. daemon[e].cache > NoKey => FALSE
        BY <2>1, <3>1 DEF KeyInv, KeyInUse
      <4>2. daemon[e].pc \in {"secure", "write"} => FALSE
        BY <2>1, <3>1 DEF KeyInv, KeyInUse, KeyPresent
      <4> QED
        BY <4>1, <4>2
    <3>2. ~forked => \A i \in DOMAIN walFrames : walFrames[i].key = NoKey
      BY <2>1 DEF KeyInv, KeyInUse
    <3> QED
      BY <1>1, <1>4, <2>2, <3>1, <3>2 DEF KeyInUse
  <2>3. CASE ~stored
    BY <1>1, <1>4, <2>3 DEF KeyInv, KeyInUse
  <2> QED
    BY <2>2, <2>3
<1>8. KeyPrivate' /\ KeyPresent'
  BY <1>1, <1>4 DEF KeyInv, KeyPrivate, KeyPresent
<1> QED
  BY <1>5, <1>6, <1>7, <1>8 DEF KeyInv

\* The key of a frame is the cached one, and the file is secured before the
\* frame is written.
LEMMA KeyFileInv ==
    ASSUME KeyInv, NEW d \in KeyDaemons, encrypt_at_rest(d) \/ ensure_owner_only_file(d)
    PROVE  KeyInv'
<1> USE DEF KeyInv, encrypt_at_rest, ensure_owner_only_file, NoKey
<1>1. KeyTypeOK'
  BY DEF KeyTypeOK, KeyProcess, KeyError
<1>2. KeyOneMaker'
  <2>1. UNCHANGED <<keychain, forked>> /\ \A e \in KeyDaemons \ {d} : daemon'[e] = daemon[e]
    BY DEF KeyTypeOK
  <2>2. daemon'[d].pc # "store"
    <3>1. daemon[d] \in KeyProcess
      BY DEF KeyTypeOK
    <3>2. CASE encrypt_at_rest(d)
      BY <3>1, <3>2 DEF KeyTypeOK, KeyProcess
    <3>3. CASE ensure_owner_only_file(d)
      BY <3>1, <3>3 DEF KeyTypeOK, KeyProcess
    <3> QED
      BY <3>2, <3>3
  <2> QED
    BY <2>1, <2>2 DEF KeyOneMaker
<1>3. KeyInUse'
  <2>1. CASE encrypt_at_rest(d)
    BY <2>1 DEF KeyInUse, KeyTypeOK, KeyProcess
  <2>2. CASE ensure_owner_only_file(d)
    BY <2>2 DEF KeyInUse, KeyTypeOK, KeyProcess
  <2> QED
    BY <2>1, <2>2
<1>4. KeyPrivate' /\ KeyPresent'
  <2>1. CASE encrypt_at_rest(d)
    BY <2>1 DEF KeyPrivate, KeyPresent, KeyTypeOK, KeyProcess
  <2>2. CASE ensure_owner_only_file(d)
    BY <2>2 DEF KeyPrivate, KeyPresent, KeyTypeOK, KeyProcess
  <2> QED
    BY <2>1, <2>2
<1> QED
  BY <1>1, <1>2, <1>3, <1>4

LEMMA KeyWriteInv ==
    ASSUME KeyInv, NEW d \in KeyDaemons, write_frame(d)
    PROVE  KeyInv'
<1> USE DEF KeyInv, write_frame, NoKey
<1>1. KeyTypeOK'
  <2>1. [key |-> daemon[d].key, mode |-> walMode] \in [key : Nat, mode : {"owner", "others"}]
    BY DEF KeyTypeOK, KeyProcess, KeyPrivate
  <2>2. walFrames' \in Seq([key : Nat, mode : {"owner", "others"}])
    BY <2>1 DEF KeyTypeOK
  <2>3. [daemon[d] EXCEPT !.pc = "idle", !.key = NoKey] \in KeyProcess
    BY DEF KeyTypeOK, KeyProcess
  <2> QED
    BY <2>2, <2>3 DEF KeyTypeOK
<1>2. KeyOneMaker'
  BY DEF KeyOneMaker, KeyTypeOK, KeyProcess
<1>3. KeyInUse'
  BY DEF KeyInUse, KeyTypeOK, KeyProcess
<1>4. KeyPrivate' /\ KeyPresent'
  BY DEF KeyPrivate, KeyPresent, KeyTypeOK, KeyProcess
<1> QED
  BY <1>1, <1>2, <1>3, <1>4

\* KeyInv is inductive.
LEMMA KeyStepInv == KeyInv /\ [KeyNext]_keyVars => KeyInv'
<1> SUFFICES ASSUME KeyInv, [KeyNext]_keyVars PROVE KeyInv'
  OBVIOUS
<1>1. CASE UNCHANGED keyVars
  BY <1>1 DEF keyVars, KeyInv, KeyTypeOK, KeyOneMaker, KeyInUse, KeyPresent, KeyPrivate
<1>2. CASE loosen_mode
  BY <1>2 DEF loosen_mode, KeyInv, KeyTypeOK, KeyOneMaker, KeyInUse, KeyPresent, KeyPrivate
<1>3. ASSUME NEW d \in KeyDaemons,
             \/ daemon_starts(d) \/ daemon_stops(d)
             \/ load_or_create_master_key(d) \/ persist_master_key(d)
             \/ encrypt_at_rest(d) \/ ensure_owner_only_file(d) \/ write_frame(d)
      PROVE  KeyInv'
  BY <1>3, KeyStartsInv, KeyLoadInv, KeyPersistInv, KeyFileInv, KeyWriteInv
<1> QED
  BY <1>1, <1>2, <1>3 DEF KeyNext

\* load_or_create_master_key, encrypt_at_rest and WalStore::append_update: a
\* daemon that has a key reads every frame, unless two daemons made the first
\* key at the same time, and no encrypted frame is written to a file others may
\* read; for any number of daemons, frames, restarts and keychain failures.
THEOREM KeysReadableHolds == KeySpec => []KeysReadable
<1>1. KeyInv => KeysReadable
  BY DEF KeyInv, KeyInUse, KeyPresent, KeyPrivate, KeysReadable, decrypt_at_rest
<1> QED
  BY <1>1, KeyInitInv, KeyStepInv, PTL DEF KeySpec

-----------------------------------------------------------------------------
(* The updater.  A version is looked at in one step and installed in a     *)
(* later one; between them the process and its configuration stay what     *)
(* they were, because a restart ends every task.                           *)

UpVersions == [n : Nat, pre : Prereleases]

UpTaskStates ==
    [pc : {"idle", "start", "asking", "answered", "download"}, op : {"none", "check", "install"}, version : UpVersions]

UpTypeOK ==
    /\ published \in UpVersions
    /\ upTask \in [UpTasks -> UpTaskStates]

\* A task past its first step was not blocked, and one that is about to
\* install has a version worth installing.
UpTasksAllowed ==
    \A t \in UpTasks :
        /\ upTask[t].pc \in {"asking", "answered", "download"} => ~blocked_reason(upConfig)
        /\ upTask[t].pc = "download" => version_comparator(upTask[t].version)

UpInv == UpTypeOK /\ UpTasksAllowed /\ UpForward

\* No task is past its first step when the application starts.
LEMMA UpStarts ==
    ASSUME NEW c
    PROVE  /\ Starts(c) \in [UpTasks -> UpTaskStates]
           /\ \A t \in UpTasks : Starts(c)[t].pc \in {"idle", "start"}
<1> DEFINE first == CHOOSE u \in UpTasks : TRUE
<1>1. /\ NoTask \in UpTaskStates /\ NoTask.pc = "idle"
      /\ [NoTask EXCEPT !.pc = "start", !.op = "check"] \in UpTaskStates
      /\ [NoTask EXCEPT !.pc = "start", !.op = "check"].pc = "start"
  BY DEF NoTask, NoVersion, UpTaskStates, UpVersions, Prereleases
<1>2. Starts(c) = [t \in UpTasks |-> IF c.onStartup /\ t = first
                                     THEN [NoTask EXCEPT !.pc = "start", !.op = "check"] ELSE NoTask]
  BY DEF Starts
<1> HIDE DEF first
<1> QED
  BY <1>1, <1>2

LEMMA UpInitInv == UpInit => UpInv
<1> SUFFICES ASSUME UpInit PROVE UpInv
  OBVIOUS
<1>1. UpTypeOK /\ UpTasksAllowed
  BY UpStarts DEF UpInit, UpTypeOK, UpTasksAllowed, UpVersions, Prereleases
<1>2. UpForward
  BY DEF UpInit, UpForward, NoCheck
<1> QED
  BY <1>1, <1>2 DEF UpInv

\* A step of one task that leaves the application alone.
LEMMA UpTaskStepInv ==
    ASSUME UpInv, NEW t \in UpTasks, NEW task \in UpTaskStates,
           upTask' = [upTask EXCEPT ![t] = task],
           task.pc \in {"asking", "answered", "download"} => ~blocked_reason(upConfig),
           task.pc = "download" => version_comparator(task.version),
           UNCHANGED <<running, disk, published, upConfig>>,
           \/ UNCHANGED lastCheck
           \/ lastCheck'.kind # "available"
           \/ version_comparator(lastCheck'.version)
    PROVE  UpInv'
<1>1. UpTypeOK'
  BY DEF UpInv, UpTypeOK
<1>2. UpTasksAllowed'
  BY DEF UpInv, UpTypeOK, UpTasksAllowed, version_comparator
<1>3. UpForward'
  BY DEF UpInv, UpForward, version_comparator
<1> QED
  BY <1>1, <1>2, <1>3 DEF UpInv

LEMMA UpStepInv == UpInv /\ [UpNext]_upVars => UpInv'
<1> SUFFICES ASSUME UpInv, [UpNext]_upVars PROVE UpInv'
  OBVIOUS
<1> USE DEF UpInv
<1>1. CASE UNCHANGED upVars
  BY <1>1 DEF upVars, UpTypeOK, UpTasksAllowed, UpForward, version_comparator
<1>2. ASSUME NEW t \in UpTasks, user_asks(t, "check") \/ user_asks(t, "install")
      PROVE  UpInv'
  <2>1. PICK op \in {"check", "install"} : user_asks(t, op)
    BY <1>2
  <2>2. LET task == [NoTask EXCEPT !.pc = "start", !.op = op]
        IN  task \in UpTaskStates /\ task.pc = "start"
    BY DEF NoTask, NoVersion, UpTaskStates, UpVersions, Prereleases
  <2> QED
    BY <2>1, <2>2, UpTaskStepInv DEF user_asks
<1>3. ASSUME NEW t \in UpTasks, UpEnds(t), UNCHANGED <<running, disk, published, upConfig>>,
             \/ UNCHANGED lastCheck
             \/ lastCheck'.kind # "available"
             \/ version_comparator(lastCheck'.version)
      PROVE  UpInv'
  <2>1. NoTask \in UpTaskStates /\ NoTask.pc = "idle"
    BY DEF NoTask, NoVersion, UpTaskStates, UpVersions, Prereleases
  <2> QED
    BY <1>3, <2>1, UpTaskStepInv DEF UpEnds
<1>4. ASSUME NEW t \in UpTasks, NEW pc \in {"asking", "download"}, UpTo(t, pc), ~blocked_reason(upConfig),
             pc = "download" => version_comparator(upTask[t].version),
             UNCHANGED <<running, disk, published, upConfig, lastCheck>>
      PROVE  UpInv'
  <2>1. upTask[t] \in UpTaskStates /\ upTask' = [upTask EXCEPT ![t] = [upTask[t] EXCEPT !.pc = pc]]
    BY <1>4 DEF UpTypeOK, UpTo
  <2>2. LET task == [upTask[t] EXCEPT !.pc = pc]
        IN  task \in UpTaskStates /\ task.pc = pc /\ task.version = upTask[t].version
    BY <2>1 DEF UpTaskStates
  <2> QED
    BY <1>4, <2>1, <2>2, UpTaskStepInv
<1>5. ASSUME NEW t \in UpTasks, NEW kind, NEW version, update_last_check(t, kind, version),
             kind = "available" => version_comparator(version)
      PROVE  \/ UNCHANGED lastCheck
             \/ lastCheck'.kind # "available"
             \/ version_comparator(lastCheck'.version)
  BY <1>5 DEF update_last_check
<1>6. ASSUME NEW t \in UpTasks, updater_build(t)
      PROVE  UpInv'
  <2>1. CASE update_last_check(t, "blocked", NoVersion) /\ UpEnds(t)
    BY <1>3, <1>5, <1>6, <2>1 DEF updater_build
  <2>2. CASE update_last_check(t, "error", NoVersion) /\ UpEnds(t)
    BY <1>3, <1>5, <1>6, <2>2 DEF updater_build
  <2>3. CASE ~blocked_reason(upConfig) /\ UpTo(t, "asking") /\ UNCHANGED lastCheck
    BY <1>4, <1>6, <2>3 DEF updater_build
  <2> QED
    BY <1>6, <2>1, <2>2, <2>3 DEF updater_build
<1>7. ASSUME NEW t \in UpTasks, endpoint_answers(t)
      PROVE  UpInv'
  <2>1. /\ upTask[t] \in UpTaskStates /\ published \in UpVersions /\ ~blocked_reason(upConfig)
        /\ upTask' = [upTask EXCEPT ![t] = [upTask[t] EXCEPT !.pc = "answered", !.version = published]]
    BY <1>7 DEF UpTypeOK, UpTasksAllowed, endpoint_answers
  <2>2. LET task == [upTask[t] EXCEPT !.pc = "answered", !.version = published]
        IN  task \in UpTaskStates /\ task.pc = "answered"
    BY <2>1 DEF UpTaskStates
  <2> QED
    BY <1>7, <2>1, <2>2, UpTaskStepInv DEF endpoint_answers
<1>8. ASSUME NEW t \in UpTasks, check_for_updates(t)
      PROVE  UpInv'
  <2>1. CASE version_comparator(upTask[t].version) /\ update_last_check(t, "available", upTask[t].version)
    BY <1>3, <1>5, <1>8, <2>1 DEF check_for_updates
  <2>2. CASE update_last_check(t, "current", NoVersion)
    BY <1>3, <1>5, <1>8, <2>2 DEF check_for_updates
  <2>3. CASE update_last_check(t, "error", NoVersion)
    BY <1>3, <1>5, <1>8, <2>3 DEF check_for_updates
  <2> QED
    BY <1>8, <2>1, <2>2, <2>3 DEF check_for_updates
<1>9. ASSUME NEW t \in UpTasks, install_check(t)
      PROVE  UpInv'
  <2>1. ~blocked_reason(upConfig)
    BY <1>9 DEF UpTasksAllowed, install_check
  <2>2. CASE UpEnds(t)
    BY <1>3, <1>9, <2>2 DEF install_check
  <2>3. CASE version_comparator(upTask[t].version) /\ UpTo(t, "download")
    BY <1>4, <1>9, <2>1, <2>3 DEF install_check
  <2> QED
    BY <1>9, <2>2, <2>3 DEF install_check
<1>10. ASSUME NEW t \in UpTasks, install_update(t)
       PROVE  UpInv'
  <2>1. CASE UNCHANGED disk
    BY <1>3, <1>10, <2>1 DEF install_update
  <2>2. CASE disk' = upTask[t].version
    <3>1. version_comparator(upTask[t].version) /\ ~blocked_reason(upConfig)
      BY <1>10 DEF UpTasksAllowed, install_update
    <3>2. NoTask \in UpTaskStates /\ NoTask.pc = "idle"
      BY DEF NoTask, NoVersion, UpTaskStates, UpVersions, Prereleases
    <3>3. UpTypeOK' /\ UpTasksAllowed'
      BY <1>10, <3>2 DEF install_update, UpEnds, UpTypeOK, UpTasksAllowed, version_comparator
    <3>4. UpForward'
      BY <1>10, <2>2, <3>1 DEF install_update, UpForward, version_comparator
    <3> QED
      BY <3>3, <3>4
  <2> QED
    BY <1>10, <2>1, <2>2 DEF install_update
<1>11. ASSUME NEW c \in UpConfigs, app_restarts(c)
       PROVE  UpInv'
  <2>1. UpTypeOK' /\ UpTasksAllowed'
    BY <1>11, UpStarts DEF app_restarts, UpTypeOK, UpTasksAllowed
  <2>2. UpForward'
    BY <1>11 DEF app_restarts, UpForward, NoCheck
  <2> QED
    BY <2>1, <2>2
<1>12. ASSUME NEW n \in 1..2, NEW pre \in Prereleases, publish([n |-> n, pre |-> pre])
       PROVE  UpInv'
  BY <1>12 DEF publish, UpTypeOK, UpVersions, UpTasksAllowed, UpForward, version_comparator
<1> QED
  BY <1>1, <1>2, <1>6, <1>7, <1>8, <1>9, <1>10, <1>11, <1>12 DEF UpNext

\* install_update and check_for_updates: the application on disk and the
\* release the last check reports are newer than the running version and of
\* its ring, and nothing is installed while the policy blocks updates, for any
\* number of overlapping tasks and any set of configurations.
THEOREM UpForwardHolds == UpSpec => []UpForward
<1>1. UpInv => UpForward
  BY DEF UpInv
<1> QED
  BY <1>1, UpInitInv, UpStepInv, PTL DEF UpSpec

-----------------------------------------------------------------------------
(* Workspaces.  Who an id belongs to is said in four places, the file, the *)
(* registry, the calls and the answers; they never disagree.  What a call  *)
(* has reached is kept by the others unless they share its root.           *)

Paths(r) == {PathNorm[p] : p \in MarkdownFiles[r]}

AllPaths == UNION {Paths(r) : r \in RootDirs}

WkPcs == {"idle", "toml", "fill", "scan", "import", "register", "persist", "truncate", "write", "info", "lookup"}

WkCalls ==
    [op : {"none", "create", "open"}, pc : WkPcs, root : RootDirs \cup {NoRoot}, id : Nat,
     paths : SUBSET RootDirs, answer : {"none", "ok", "error"}]

WkTypeOK ==
    /\ toml \in [RootDirs -> Nat \cup {Torn}]
    /\ config \in [readable : BOOLEAN, paths : SUBSET RootDirs]
    /\ DOMAIN registry \subseteq Nat /\ \A i \in DOMAIN registry : registry[i] \in RootDirs
    /\ wkDocs \subseteq Nat \X AllPaths /\ wkIndex \subseteq Nat \X AllPaths
    /\ wkCall \in [Callers -> WkCalls]
    /\ wkAcked \subseteq [id : Nat, root : RootDirs, life : Nat]
    /\ contested \subseteq RootDirs /\ disturbed \in BOOLEAN
    /\ wkCount \in [calls : Nat, restarts : Nat, spoils : Nat]

\* Somewhere it is said that workspace i is that of root r.
Named(i, r) ==
    \/ r \in RootDirs /\ toml[r] = i /\ i > 0
    \/ i \in DOMAIN registry /\ registry[i] = r
    \/ \E c \in Callers : wkCall[c].id = i /\ i # NoId /\ wkCall[c].root = r
    \/ \E a \in wkAcked : a.id = i /\ a.root = r

WkNames ==
    /\ \A i, r : Named(i, r) => i \in 1..wkCount.calls /\ r \in RootDirs
    /\ \A i, r, q : Named(i, r) /\ Named(i, q) => r = q

\* What was imported under an id are files of its root.
WkFits ==
    \A i, p : <<i, p>> \in wkDocs \cup wkIndex =>
       i <= wkCount.calls /\ \A r : Named(i, r) => p \in Paths(r)

Indexed(i, r) == ensure_unique_path_norm(MarkdownFiles[r]) /\ \A p \in Paths(r) : <<i, p>> \in wkIndex

Imported(i, r) == \A p \in Paths(r) : <<i, p>> \in wkDocs

InRegistry(i, r) == i \in DOMAIN registry /\ registry[i] = r

WkStage(c) ==
    LET call == wkCall[c]
        alone == call.root \notin contested
    IN /\ call.pc # "idle" => call.root \in RootDirs
       /\ Persisting(c) => call.root \in call.paths
       /\ call.op = "open" /\ call.pc = "register" /\ alone => toml[call.root] = call.id
       /\ call.op = "open" /\ call.pc = "register" => call.id # NoId
       /\ call.op = "create" =>
             /\ call.id # NoId
             /\ call.pc \in {"scan", "import", "register", "persist", "truncate", "write"} /\ alone => toml[call.root] = call.id
             /\ call.pc \in {"import", "register", "persist", "truncate", "write"} => Indexed(call.id, call.root)
             /\ call.pc \in {"register", "persist", "truncate", "write"} => Imported(call.id, call.root)
             /\ call.pc \in {"persist", "truncate", "write"} /\ alone => InRegistry(call.id, call.root)

WkStages == \A c \in Callers : WkStage(c)

WkAnswer(a) ==
    /\ a.life <= wkCount.restarts
    /\ a.root \notin contested => toml[a.root] = a.id
    /\ a.root \notin contested /\ (a.life = wkCount.restarts \/ ~disturbed) => InRegistry(a.id, a.root)
    /\ a.life = wkCount.restarts => Indexed(a.id, a.root) /\ Imported(a.id, a.root)

WkAnswers == \A a \in wkAcked : WkAnswer(a)

\* Calls that work on one root at once, or on one that is made already.
WkApart ==
    /\ \A c, d \in Callers : c # d /\ Busy(c) /\ Busy(d) /\ wkCall[c].root = wkCall[d].root =>
          wkCall[c].root \in contested
    /\ \A a \in wkAcked, c \in Callers : Busy(c) /\ wkCall[c].op = "create" /\ wkCall[c].root = a.root =>
          a.root \in contested

\* One call at a time has config.toml in its hands, with all that is in it.
WkConfig ==
    ~disturbed =>
       /\ config.readable
       /\ \A c, d \in Callers : Persisting(c) /\ Persisting(d) => c = d
       /\ \A c \in Callers : wkCall[c].pc = "truncate" => config.paths \subseteq wkCall[c].paths
       /\ \A a \in wkAcked : a.root \in config.paths \/ \E c \in Callers : wkCall[c].pc = "write"
       /\ \A a \in wkAcked, c \in Callers : wkCall[c].pc = "write" => a.root \in wkCall[c].paths

WkInv == WkTypeOK /\ WkNames /\ WkFits /\ WkStages /\ WkAnswers /\ WkApart /\ WkConfig

LEMMA NoCallType == NoWkCall \in WkCalls
  BY DEF NoWkCall, WkCalls, WkPcs, NoId

\* What a step of c does to the calls.
SameCall(c) ==
    /\ wkCall'[c].op = wkCall[c].op /\ wkCall'[c].root = wkCall[c].root
    /\ wkCall'[c].id = wkCall[c].id /\ wkCall'[c].paths = wkCall[c].paths

OtherCallsSame(c) == \A d \in Callers \ {c} : wkCall'[d] = wkCall[d]

LEMMA GotoFacts ==
    ASSUME WkTypeOK, NEW c \in Callers, NEW pc \in WkPcs, Goto(c, pc)
    PROVE  wkCall' \in [Callers -> WkCalls] /\ wkCall'[c].pc = pc /\ SameCall(c) /\ OtherCallsSame(c)
  BY DEF WkTypeOK, WkCalls, Goto, SameCall, OtherCallsSame

LEMMA EndFacts ==
    ASSUME WkTypeOK, NEW c \in Callers, NEW answer \in {"ok", "error"}, WkEnd(c, answer)
    PROVE  wkCall' \in [Callers -> WkCalls] /\ wkCall'[c].pc = "idle" /\ SameCall(c) /\ OtherCallsSame(c)
<1>1. wkCall' \in [Callers -> WkCalls] /\ wkCall'[c].pc = "idle"
  <2> DEFINE v == [wkCall[c] EXCEPT !.pc = "idle", !.answer = answer]
  <2>1. wkCall[c] \in WkCalls /\ wkCall' = [wkCall EXCEPT ![c] = v]
    BY DEF WkTypeOK, WkEnd
  <2>2. v \in WkCalls /\ v.pc = "idle"
    BY <2>1 DEF WkCalls, WkPcs
  <2> HIDE DEF v
  <2> QED
    BY <2>1, <2>2 DEF WkTypeOK
<1>2. SameCall(c)
  BY DEF WkTypeOK, WkCalls, WkEnd, SameCall
<1>3. OtherCallsSame(c)
  BY DEF WkTypeOK, WkCalls, WkEnd, OtherCallsSame
<1> QED
  BY <1>1, <1>2, <1>3

\* What a step of c leaves as it is for the others: the file of every root but
\* its own, the registrations the files agree with, and what is imported.
LeavesToOthers(c) ==
    /\ \A r \in RootDirs : toml'[r] # toml[r] => r = wkCall[c].root /\ Busy(c) /\ wkCall[c].op = "create"
    /\ \A i, r : InRegistry(i, r) /\ r \notin contested' /\ toml[r] = i => i \in DOMAIN registry' /\ registry'[i] = r
    /\ wkDocs \subseteq wkDocs' /\ wkIndex \subseteq wkIndex'
    /\ contested \subseteq contested'
    /\ wkCount'.restarts = wkCount.restarts
    /\ disturbed => disturbed'

LEMMA OthersKept ==
    ASSUME WkInv, NEW c \in Callers, OtherCallsSame(c), LeavesToOthers(c)
    PROVE  /\ \A d \in Callers \ {c} : WkStage(d)'
           /\ \A a \in wkAcked : WkAnswer(a)'
<1>1. ASSUME NEW d \in Callers \ {c} PROVE WkStage(d)'
  <2>1. wkCall'[d] = wkCall[d] /\ WkStage(d) /\ wkCall[d] \in WkCalls
    BY DEF OtherCallsSame, WkInv, WkStages, WkTypeOK
  <2>2. ASSUME wkCall[d].pc # "idle", wkCall[d].root \notin contested'
        PROVE  toml'[wkCall[d].root] = toml[wkCall[d].root]
    BY <2>1, <2>2 DEF LeavesToOthers, WkInv, WkApart, WkStage, Busy
  <2>3. ASSUME Indexed(wkCall[d].id, wkCall[d].root) PROVE Indexed(wkCall[d].id, wkCall[d].root)'
    BY <2>1, <2>3 DEF LeavesToOthers, Indexed
  <2>4. ASSUME Imported(wkCall[d].id, wkCall[d].root) PROVE Imported(wkCall[d].id, wkCall[d].root)'
    BY <2>1, <2>4 DEF LeavesToOthers, Imported
  <2>5. ASSUME InRegistry(wkCall[d].id, wkCall[d].root), wkCall[d].root \notin contested',
               toml[wkCall[d].root] = wkCall[d].id
        PROVE  InRegistry(wkCall[d].id, wkCall[d].root)'
    BY <2>1, <2>5 DEF LeavesToOthers, InRegistry
  <2>6. wkCall[d].root \notin contested' => wkCall[d].root \notin contested
    BY DEF LeavesToOthers
  <2> QED
    BY <2>1, <2>2, <2>3, <2>4, <2>5, <2>6 DEF WkStage, Persisting
<1>2. ASSUME NEW a \in wkAcked PROVE WkAnswer(a)'
  <2>1. WkAnswer(a) /\ a \in [id : Nat, root : RootDirs, life : Nat]
    BY DEF WkInv, WkAnswers, WkTypeOK
  <2>2. a.root \notin contested' => a.root \notin contested /\ toml'[a.root] = toml[a.root]
    BY <2>1 DEF LeavesToOthers, WkInv, WkApart
  <2>3. Indexed(a.id, a.root) => Indexed(a.id, a.root)'
    BY DEF LeavesToOthers, Indexed
  <2>4. Imported(a.id, a.root) => Imported(a.id, a.root)'
    BY DEF LeavesToOthers, Imported
  <2>5. InRegistry(a.id, a.root) /\ a.root \notin contested' /\ toml[a.root] = a.id => InRegistry(a.id, a.root)'
    BY DEF LeavesToOthers, InRegistry
  <2> QED
    BY <2>1, <2>2, <2>3, <2>4, <2>5 DEF WkAnswer, LeavesToOthers
<1> QED
  BY <1>1, <1>2

\* Names that were there, or that of a call that has just begun.
LEMMA NamesStep ==
    ASSUME WkInv, NEW n \in Nat, n = wkCount.calls, wkCount'.calls \in {n, n + 1}, NEW R \in RootDirs,
           \A i, r : Named(i, r)' => Named(i, r) \/ (i = n + 1 /\ r = R /\ wkCount'.calls = n + 1)
    PROVE  WkNames'
<1>1. \A i, r : Named(i, r) => i \in 1..n /\ r \in RootDirs
  BY DEF WkInv, WkNames
<1>2. \A i, r : Named(i, r)' => i \in 1..wkCount'.calls /\ r \in RootDirs
  BY <1>1
<1>3. \A i, r, q : Named(i, r)' /\ Named(i, q)' => r = q
  BY <1>1 DEF WkInv, WkNames
<1> QED
  BY <1>2, <1>3 DEF WkNames

LEMMA FitsStep ==
    ASSUME WkInv, NEW n \in Nat, n = wkCount.calls, wkCount'.calls \in {n, n + 1}, NEW R \in RootDirs,
           \A i, r : Named(i, r)' => Named(i, r) \/ (i = n + 1 /\ r = R /\ wkCount'.calls = n + 1),
           \A i, p : <<i, p>> \in wkDocs' \cup wkIndex' =>
              <<i, p>> \in wkDocs \cup wkIndex \/ \E r : Named(i, r) /\ p \in Paths(r)
    PROVE  WkFits'
<1> SUFFICES ASSUME NEW i, NEW p, <<i, p>> \in wkDocs' \cup wkIndex'
             PROVE  i <= wkCount'.calls /\ \A r : Named(i, r)' => p \in Paths(r)
  BY DEF WkFits
<1>1. \A j, r : Named(j, r) => j \in 1..n
  BY DEF WkInv, WkNames
<1>2. CASE <<i, p>> \in wkDocs \cup wkIndex
  <2>1. i \in Nat
    BY <1>2 DEF WkInv, WkTypeOK
  <2>2. i <= n /\ \A r : Named(i, r) => p \in Paths(r)
    BY <1>2 DEF WkInv, WkFits
  <2> QED
    BY <2>1, <2>2
<1>3. CASE \E r : Named(i, r) /\ p \in Paths(r)
  <2>1. PICK q : Named(i, q) /\ p \in Paths(q)
    BY <1>3
  <2>2. i \in 1..n
    BY <1>1, <2>1
  <2>3. \A r : Named(i, r)' => r = q
    BY <2>1, <2>2 DEF WkInv, WkNames
  <2> QED
    BY <2>1, <2>2, <2>3
<1> QED
  BY <1>2, <1>3

\* A step of a call under way: who works on which root is as it was.
LEMMA ApartStep ==
    ASSUME WkInv, NEW c \in Callers, OtherCallsSame(c), Busy(c), contested' = contested,
           wkCall'[c].op = wkCall[c].op, wkCall'[c].root = wkCall[c].root,
           \A a \in wkAcked' : a \in wkAcked \/ (a.root = wkCall[c].root /\ ~Busy(c)')
    PROVE  WkApart'
<1>1. \A d \in Callers : /\ Busy(d)' => Busy(d)
                         /\ wkCall'[d].root = wkCall[d].root /\ wkCall'[d].op = wkCall[d].op
  BY DEF OtherCallsSame, Busy
<1>2. \A d, e \in Callers : d # e /\ Busy(d)' /\ Busy(e)' /\ wkCall'[d].root = wkCall'[e].root =>
         wkCall'[d].root \in contested'
  BY <1>1 DEF WkInv, WkApart
<1>3. ASSUME NEW a \in wkAcked', NEW d \in Callers, Busy(d)', wkCall'[d].op = "create", wkCall'[d].root = a.root
      PROVE  a.root \in contested'
  <2>1. CASE a \in wkAcked
    BY <2>1, <1>1, <1>3 DEF WkInv, WkApart
  <2>2. CASE a.root = wkCall[c].root /\ ~Busy(c)'
    BY <2>2, <1>1, <1>3 DEF WkInv, WkApart
  <2> QED
    BY <2>1, <2>2, <1>3
<1> QED
  BY <1>2, <1>3 DEF WkApart

\* What c has just been answered.
NewAnswer(c, a) ==
    Named(a.id, a.root) /\ a.root = wkCall[c].root /\ wkCall'[c].pc = "idle" /\ WkAnswer(a)'

\* A step of a call under way keeps the invariant if it does so for the call
\* itself, names nothing anew, imports what belongs to a name, and answers
\* truly.
LEMMA CallerStepInv ==
    ASSUME WkInv, NEW c \in Callers, Busy(c), OtherCallsSame(c), LeavesToOthers(c),
           UNCHANGED <<wkCount, contested>>,
           wkCall'[c].op = wkCall[c].op, wkCall'[c].root = wkCall[c].root,
           wkCall'[c].id = wkCall[c].id \/ Named(wkCall'[c].id, wkCall[c].root),
           \A r \in RootDirs : toml'[r] > 0 => Named(toml'[r], r),
           \A i \in DOMAIN registry' : Named(i, registry'[i]),
           \A i, p : <<i, p>> \in wkDocs' \cup wkIndex' =>
              <<i, p>> \in wkDocs \cup wkIndex \/ \E r : Named(i, r) /\ p \in Paths(r),
           \A a \in wkAcked' : a \in wkAcked \/ NewAnswer(c, a),
           WkTypeOK', WkStage(c)', WkConfig'
    PROVE  WkInv'
<1>1. PICK n \in Nat : n = wkCount.calls
  BY DEF WkInv, WkTypeOK
<1>2. wkCount'.calls \in {n, n + 1}
  BY <1>1
<1>3. PICK R \in RootDirs : R = wkCall[c].root
  BY DEF WkInv, WkStages, WkStage, Busy
<1>4. ASSUME NEW i, NEW r, Named(i, r)' PROVE Named(i, r)
  <2>1. CASE r \in RootDirs /\ toml'[r] = i /\ i > 0
    BY <2>1
  <2>2. CASE i \in DOMAIN registry' /\ registry'[i] = r
    BY <2>2
  <2>3. ASSUME NEW d \in Callers, wkCall'[d].id = i, i # NoId, wkCall'[d].root = r PROVE Named(i, r)
    <3>1. CASE d = c
      BY <3>1, <2>3 DEF Named
    <3>2. CASE d # c
      BY <3>2, <2>3 DEF Named, OtherCallsSame
    <3> QED
      BY <3>1, <3>2
  <2>4. ASSUME NEW a \in wkAcked', a.id = i, a.root = r PROVE Named(i, r)
    BY <2>4 DEF Named, NewAnswer
  <2> QED
    BY <1>4, <2>1, <2>2, <2>3, <2>4 DEF Named
<1>5. WkNames'
  BY <1>1, <1>2, <1>3, <1>4, NamesStep
<1>6. WkFits'
  BY <1>1, <1>2, <1>3, <1>4, FitsStep
<1>7. WkStages'
  BY OthersKept DEF WkStages
<1>8. WkAnswers'
  BY OthersKept DEF WkAnswers, NewAnswer
<1>9. WkApart'
  BY ApartStep DEF NewAnswer, Busy
<1> QED
  BY <1>5, <1>6, <1>7, <1>8, <1>9 DEF WkInv

\* A step that has nothing to do with config.toml.
LEMMA ConfigSame ==
    ASSUME WkInv, NEW c \in Callers, OtherCallsSame(c), UNCHANGED <<config, wkAcked, disturbed>>,
           wkCall[c].pc \notin {"truncate", "write"}, wkCall'[c].pc \notin {"truncate", "write"}
    PROVE  WkConfig'
<1>1. \A d \in Callers : wkCall'[d] = wkCall[d] \/ (d = c /\ wkCall'[d].pc \notin {"truncate", "write"})
  BY DEF OtherCallsSame
<1>2. \A d \in Callers : (wkCall'[d].pc = "write" <=> wkCall[d].pc = "write")
  BY DEF OtherCallsSame
<1> QED
  BY <1>1, <1>2 DEF WkInv, WkConfig, Persisting

\* One that leaves the file, the registry and what is imported.
LEMMA LeavesAll ==
    ASSUME WkInv, NEW c \in Callers, UNCHANGED <<toml, registry, wkDocs, wkIndex, contested>>,
           wkCount'.restarts = wkCount.restarts, disturbed => disturbed'
    PROVE  /\ LeavesToOthers(c)
           /\ \A r \in RootDirs : toml'[r] > 0 => Named(toml'[r], r)
           /\ \A i \in DOMAIN registry' : Named(i, registry'[i])
  BY DEF LeavesToOthers, InRegistry, Named

\* A call's name.
LEMMA CallNamed ==
    ASSUME WkInv, NEW c \in Callers, wkCall[c].id # NoId
    PROVE  Named(wkCall[c].id, wkCall[c].root) /\ wkCall[c].id > 0 /\ wkCall[c].id \in Nat
<1>1. wkCall[c] \in WkCalls
  BY DEF WkInv, WkTypeOK
<1>2. wkCall[c].id \in Nat
  BY <1>1 DEF WkCalls
<1>3. wkCall[c].id > 0
  BY <1>2 DEF NoId
<1>4. Named(wkCall[c].id, wkCall[c].root)
  BY DEF Named
<1> QED
  BY <1>2, <1>3, <1>4

LEMMA TruncateTomlInv ==
    ASSUME WkInv, NEW c \in Callers, create_truncate_toml(c)
    PROVE  WkInv'
<1>1. /\ wkCall[c].op = "create" /\ wkCall[c].pc = "toml" /\ Busy(c)
      /\ UNCHANGED <<config, registry, wkDocs, wkIndex, wkAcked, contested, disturbed, wkCount>>
  BY DEF create_truncate_toml, At, Busy
<1>2. wkCall' \in [Callers -> WkCalls] /\ wkCall'[c].pc = "fill" /\ SameCall(c) /\ OtherCallsSame(c)
  BY GotoFacts DEF create_truncate_toml, WkInv, WkPcs
<1>3. WkStage(c) /\ wkCall[c].root \in RootDirs
  BY <1>1 DEF WkInv, WkStages, WkStage
<1>4. /\ toml' \in [RootDirs -> Nat \cup {Torn}]
      /\ \A r \in RootDirs : toml'[r] = IF r = wkCall[c].root THEN Torn ELSE toml[r]
  BY <1>3 DEF create_truncate_toml, WkInv, WkTypeOK, Torn
<1>5. WkTypeOK'
  BY <1>1, <1>2, <1>4 DEF WkInv, WkTypeOK
<1>6. LeavesToOthers(c)
  BY <1>1, <1>4 DEF LeavesToOthers, InRegistry
<1>7. WkStage(c)'
  BY <1>1, <1>2, <1>3 DEF WkStage, SameCall, Persisting
<1>8. WkConfig'
  BY <1>1, <1>2, ConfigSame
<1>9. \A r \in RootDirs : toml'[r] > 0 => Named(toml'[r], r)
  BY <1>4 DEF Named, Torn
<1>10. \A i \in DOMAIN registry' : Named(i, registry'[i])
  BY <1>1 DEF Named
<1> QED
  BY <1>1, <1>2, <1>5, <1>6, <1>7, <1>8, <1>9, <1>10, CallerStepInv DEF SameCall

LEMMA WriteTomlInv ==
    ASSUME WkInv, NEW c \in Callers, create_write_toml(c)
    PROVE  WkInv'
<1>1. /\ wkCall[c].op = "create" /\ wkCall[c].pc = "fill" /\ Busy(c)
      /\ UNCHANGED <<config, registry, wkDocs, wkIndex, wkAcked, contested, disturbed, wkCount>>
  BY DEF create_write_toml, At, Busy
<1>2. wkCall' \in [Callers -> WkCalls] /\ wkCall'[c].pc = "scan" /\ SameCall(c) /\ OtherCallsSame(c)
  BY GotoFacts DEF create_write_toml, WkInv, WkPcs
<1>3. WkStage(c) /\ wkCall[c].root \in RootDirs
  BY <1>1 DEF WkInv, WkStages, WkStage
<1>4. Named(wkCall[c].id, wkCall[c].root) /\ wkCall[c].id \in Nat
  BY <1>1, <1>3, CallNamed DEF WkStage
<1>5. /\ toml' \in [RootDirs -> Nat \cup {Torn}]
      /\ \A r \in RootDirs : toml'[r] = IF r = wkCall[c].root THEN wkCall[c].id ELSE toml[r]
  BY <1>3, <1>4 DEF create_write_toml, WkInv, WkTypeOK
<1>6. WkTypeOK'
  BY <1>1, <1>2, <1>5 DEF WkInv, WkTypeOK
<1>7. LeavesToOthers(c)
  BY <1>1, <1>5 DEF LeavesToOthers, InRegistry
<1>8. WkStage(c)'
  BY <1>1, <1>2, <1>3, <1>5 DEF WkStage, SameCall, Persisting
<1>9. WkConfig'
  BY <1>1, <1>2, ConfigSame
<1>10. \A r \in RootDirs : toml'[r] > 0 => Named(toml'[r], r)
  <2> SUFFICES ASSUME NEW r \in RootDirs, toml'[r] > 0 PROVE Named(toml'[r], r)
    OBVIOUS
  <2>1. CASE r = wkCall[c].root
    BY <2>1, <1>4, <1>5
  <2>2. CASE r # wkCall[c].root
    BY <2>2, <1>5 DEF Named
  <2> QED
    BY <2>1, <2>2
<1>11. \A i \in DOMAIN registry' : Named(i, registry'[i])
  BY <1>1 DEF Named
<1> QED
  BY <1>1, <1>2, <1>6, <1>7, <1>8, <1>9, <1>10, <1>11, CallerStepInv DEF SameCall

\* The step fails at the end of the call and changes nothing else, or the
\* entries of the call's own files go into the tables.
LEMMA CreateIndexInv ==
    ASSUME WkInv, NEW c \in Callers, create_index(c)
    PROVE  WkInv'
<1>1. /\ wkCall[c].op = "create" /\ wkCall[c].pc = "scan" /\ Busy(c)
      /\ UNCHANGED <<toml, config, registry, wkDocs, wkAcked, contested, disturbed, wkCount>>
  BY DEF create_index, At, Busy
<1>2. WkStage(c) /\ wkCall[c].root \in RootDirs
  BY <1>1 DEF WkInv, WkStages, WkStage
<1>3. Named(wkCall[c].id, wkCall[c].root) /\ wkCall[c].id \in Nat
  BY <1>1, <1>2, CallNamed DEF WkStage
<1> DEFINE unique == ensure_unique_path_norm(MarkdownFiles[wkCall[c].root])
<1>4. \/ /\ unique
         /\ wkIndex' = wkIndex \cup {<<wkCall[c].id, p>> : p \in Paths(wkCall[c].root)}
         /\ Goto(c, "import")
      \/ WkEnd(c, "error") /\ wkIndex' = wkIndex
  BY DEF create_index, scan_workspace_markdown_docs, Paths
<1> HIDE DEF unique
<1>5. \/ /\ unique /\ wkCall'[c].pc = "import"
         /\ \A p \in Paths(wkCall[c].root) : <<wkCall[c].id, p>> \in wkIndex'
      \/ wkCall'[c].pc = "idle"
  BY <1>4, GotoFacts, EndFacts DEF WkInv, WkPcs
<1>6. wkCall' \in [Callers -> WkCalls] /\ SameCall(c) /\ OtherCallsSame(c)
  BY <1>4, GotoFacts, EndFacts DEF WkInv, WkPcs
<1>7. wkIndex' \subseteq wkIndex \cup {<<wkCall[c].id, p>> : p \in Paths(wkCall[c].root)}
  BY <1>4
<1>8. wkIndex' \subseteq Nat \X AllPaths
  BY <1>2, <1>3, <1>7 DEF WkInv, WkTypeOK, AllPaths
<1>9. WkTypeOK'
  BY <1>1, <1>6, <1>8 DEF WkInv, WkTypeOK
<1>10. LeavesToOthers(c)
  BY <1>1, <1>4 DEF LeavesToOthers, InRegistry
<1>11. WkStage(c)'
  BY <1>1, <1>2, <1>5, <1>6 DEF WkStage, SameCall, Persisting, Indexed, unique
<1>12. WkConfig'
  BY <1>1, <1>5, <1>6, ConfigSame
<1>13. /\ \A r \in RootDirs : toml'[r] > 0 => Named(toml'[r], r)
       /\ \A i \in DOMAIN registry' : Named(i, registry'[i])
  BY <1>1 DEF Named
<1>14. \A i, p : <<i, p>> \in wkDocs' \cup wkIndex' =>
          <<i, p>> \in wkDocs \cup wkIndex \/ \E r : Named(i, r) /\ p \in Paths(r)
  BY <1>1, <1>3, <1>7
<1> QED
  BY <1>1, <1>6, <1>9, <1>10, <1>11, <1>12, <1>13, <1>14, CallerStepInv DEF SameCall

LEMMA CreateImportInv ==
    ASSUME WkInv, NEW c \in Callers, create_import(c)
    PROVE  WkInv'
<1>1. /\ wkCall[c].op = "create" /\ wkCall[c].pc = "import" /\ Busy(c)
      /\ UNCHANGED <<toml, config, registry, wkIndex, wkAcked, contested, disturbed, wkCount>>
  BY DEF create_import, At, Busy
<1>2. WkStage(c) /\ wkCall[c].root \in RootDirs
  BY <1>1 DEF WkInv, WkStages, WkStage
<1>3. Named(wkCall[c].id, wkCall[c].root) /\ wkCall[c].id \in Nat
  BY <1>1, <1>2, CallNamed DEF WkStage
<1>4. wkDocs' = wkDocs \cup {<<wkCall[c].id, p>> : p \in Paths(wkCall[c].root)}
  BY DEF create_import, scan_workspace_markdown_docs, Paths
<1>5. wkCall' \in [Callers -> WkCalls] /\ wkCall'[c].pc = "register" /\ SameCall(c) /\ OtherCallsSame(c)
  BY GotoFacts DEF create_import, WkInv, WkPcs
<1>6. wkDocs' \subseteq Nat \X AllPaths
  BY <1>2, <1>3, <1>4 DEF WkInv, WkTypeOK, AllPaths
<1>7. WkTypeOK'
  BY <1>1, <1>5, <1>6 DEF WkInv, WkTypeOK
<1>8. LeavesToOthers(c)
  BY <1>1, <1>4 DEF LeavesToOthers, InRegistry
<1>9. Imported(wkCall[c].id, wkCall[c].root)' /\ Indexed(wkCall[c].id, wkCall[c].root)'
  BY <1>1, <1>2, <1>4, <1>5 DEF Imported, Indexed, WkStage, SameCall
<1>10. WkStage(c)'
  BY <1>1, <1>2, <1>5, <1>9 DEF WkStage, SameCall, Persisting
<1>11. WkConfig'
  BY <1>1, <1>5, ConfigSame
<1>12. /\ \A r \in RootDirs : toml'[r] > 0 => Named(toml'[r], r)
       /\ \A i \in DOMAIN registry' : Named(i, registry'[i])
  BY <1>1 DEF Named
<1>13. \A i, p : <<i, p>> \in wkDocs' \cup wkIndex' =>
          <<i, p>> \in wkDocs \cup wkIndex \/ \E r : Named(i, r) /\ p \in Paths(r)
  BY <1>1, <1>3, <1>4
<1> QED
  BY <1>1, <1>5, <1>7, <1>8, <1>10, <1>11, <1>12, <1>13, CallerStepInv DEF SameCall

LEMMA CreateRegisterInv ==
    ASSUME WkInv, NEW c \in Callers, create_register(c)
    PROVE  WkInv'
<1>1. /\ wkCall[c].op = "create" /\ wkCall[c].pc = "register" /\ Busy(c)
      /\ UNCHANGED <<toml, config, wkDocs, wkIndex, wkAcked, contested, disturbed, wkCount>>
  BY DEF create_register, At, Busy
<1>2. WkStage(c) /\ wkCall[c].root \in RootDirs
  BY <1>1 DEF WkInv, WkStages, WkStage
<1>3. Named(wkCall[c].id, wkCall[c].root) /\ wkCall[c].id \in Nat
  BY <1>1, <1>2, CallNamed DEF WkStage
<1>4. wkCall' \in [Callers -> WkCalls] /\ wkCall'[c].pc = "persist" /\ SameCall(c) /\ OtherCallsSame(c)
  BY GotoFacts DEF create_register, WkInv, WkPcs
<1>5. /\ DOMAIN registry' = DOMAIN registry \cup {wkCall[c].id}
      /\ registry'[wkCall[c].id] = wkCall[c].root
      /\ \A i \in DOMAIN registry : i # wkCall[c].id => registry'[i] = registry[i]
  BY DEF create_register, Insert
<1>6. \A i \in DOMAIN registry' : Named(i, registry'[i])
  BY <1>3, <1>5 DEF Named
<1>7. \A i \in DOMAIN registry : registry'[i] = registry[i]
  <2> SUFFICES ASSUME NEW i \in DOMAIN registry PROVE registry'[i] = registry[i]
    OBVIOUS
  <2>1. Named(i, registry[i])
    BY DEF Named
  <2> QED
    BY <2>1, <1>3, <1>5 DEF WkInv, WkNames
<1>8. WkTypeOK'
  BY <1>1, <1>2, <1>3, <1>4, <1>5 DEF WkInv, WkTypeOK
<1>9. LeavesToOthers(c)
  BY <1>1, <1>5, <1>7 DEF LeavesToOthers, InRegistry
<1>10. /\ Imported(wkCall[c].id, wkCall[c].root)' /\ Indexed(wkCall[c].id, wkCall[c].root)'
       /\ InRegistry(wkCall[c].id, wkCall[c].root)'
  BY <1>1, <1>2, <1>4, <1>5 DEF Imported, Indexed, InRegistry, WkStage, SameCall
<1>11. WkStage(c)'
  BY <1>1, <1>2, <1>4, <1>10 DEF WkStage, SameCall, Persisting
<1>12. WkConfig'
  BY <1>1, <1>4, ConfigSame
<1>13. \A r \in RootDirs : toml'[r] > 0 => Named(toml'[r], r)
  BY <1>1 DEF Named
<1> QED
  BY <1>1, <1>4, <1>6, <1>8, <1>9, <1>11, <1>12, <1>13, CallerStepInv DEF SameCall

LEMMA TomlRange ==
    ASSUME WkInv, NEW r \in RootDirs, toml[r] \notin {NoId, Torn}
    PROVE  toml[r] > 0 /\ toml[r] \in Nat
  BY DEF WkInv, WkTypeOK, NoId, Torn

LEMMA WorkspaceInfoInv ==
    ASSUME WkInv, NEW c \in Callers, workspace_info_from_root(c)
    PROVE  WkInv'
<1>1. /\ wkCall[c].op = "open" /\ wkCall[c].pc = "info" /\ Busy(c)
      /\ UNCHANGED <<toml, config, registry, wkDocs, wkIndex, wkAcked, contested, disturbed, wkCount>>
  BY DEF workspace_info_from_root, At, Busy
<1>2. wkCall[c].root \in RootDirs /\ wkCall[c] \in WkCalls
  BY <1>1 DEF WkInv, WkStages, WkStage, WkTypeOK
<1>3. \/ WkEnd(c, "error")
      \/ /\ toml[wkCall[c].root] \notin {NoId, Torn}
         /\ wkCall' = [wkCall EXCEPT ![c].id = toml[wkCall[c].root], ![c].pc = "register"]
  BY DEF workspace_info_from_root
<1>4. LeavesToOthers(c) /\ \A r \in RootDirs : toml'[r] > 0 => Named(toml'[r], r)
  BY <1>1, LeavesAll
<1>5. \A i \in DOMAIN registry' : Named(i, registry'[i])
  BY <1>1, LeavesAll
<1>6. CASE WkEnd(c, "error")
  <2>1. wkCall' \in [Callers -> WkCalls] /\ wkCall'[c].pc = "idle" /\ SameCall(c) /\ OtherCallsSame(c)
    BY <1>6, EndFacts DEF WkInv
  <2>2. WkTypeOK'
    BY <1>1, <2>1 DEF WkInv, WkTypeOK
  <2>3. WkStage(c)'
    BY <1>1, <2>1 DEF WkStage, SameCall, Persisting
  <2>4. WkConfig'
    BY <1>1, <2>1, ConfigSame
  <2> QED
    BY <1>1, <1>4, <1>5, <2>1, <2>2, <2>3, <2>4, CallerStepInv DEF SameCall
<1>7. CASE /\ toml[wkCall[c].root] \notin {NoId, Torn}
           /\ wkCall' = [wkCall EXCEPT ![c].id = toml[wkCall[c].root], ![c].pc = "register"]
  <2>1. toml[wkCall[c].root] > 0 /\ toml[wkCall[c].root] \in Nat
    BY <1>2, <1>7, TomlRange
  <2>2. Named(toml[wkCall[c].root], wkCall[c].root)
    BY <1>2, <2>1 DEF Named
  <2>3. /\ wkCall' \in [Callers -> WkCalls] /\ OtherCallsSame(c)
        /\ wkCall'[c].pc = "register" /\ wkCall'[c].id = toml[wkCall[c].root]
        /\ wkCall'[c].op = wkCall[c].op /\ wkCall'[c].root = wkCall[c].root
    <3>1. PICK i \in Nat : i = toml[wkCall[c].root]
      BY <2>1
    <3>2. wkCall' = [wkCall EXCEPT ![c].id = i, ![c].pc = "register"]
      BY <1>7, <3>1
    <3>3. /\ wkCall' \in [Callers -> WkCalls] /\ wkCall'[c].pc = "register" /\ wkCall'[c].id = i
          /\ wkCall'[c].op = wkCall[c].op /\ wkCall'[c].root = wkCall[c].root
      <4>1. PICK k : k = [wkCall[c] EXCEPT !.id = i, !.pc = "register"]
        OBVIOUS
      <4>2. k \in WkCalls /\ k.pc = "register" /\ k.id = i /\ k.op = wkCall[c].op /\ k.root = wkCall[c].root
        BY <1>2, <4>1 DEF WkCalls, WkPcs
      <4>3. wkCall' = [wkCall EXCEPT ![c] = k]
        BY <3>2, <4>1 DEF WkInv, WkTypeOK
      <4> QED
        BY <4>2, <4>3 DEF WkInv, WkTypeOK
    <3>4. OtherCallsSame(c)
      BY <3>2 DEF WkInv, WkTypeOK, OtherCallsSame
    <3> QED
      BY <3>1, <3>3, <3>4
  <2>4. WkTypeOK'
    BY <1>1, <2>3 DEF WkInv, WkTypeOK
  <2>5. WkStage(c)'
    BY <1>1, <1>2, <2>1, <2>3 DEF WkStage, Persisting, NoId
  <2>6. WkConfig'
    BY <1>1, <2>3, ConfigSame
  <2> QED
    BY <1>1, <1>4, <1>5, <2>2, <2>3, <2>4, <2>5, <2>6, CallerStepInv
<1> QED
  BY <1>3, <1>6, <1>7

LEMMA RegisterFromRootInv ==
    ASSUME WkInv, NEW c \in Callers, register_workspace_from_root_path(c)
    PROVE  WkInv'
<1>1. /\ wkCall[c].op = "open" /\ wkCall[c].pc = "register" /\ Busy(c)
      /\ UNCHANGED <<toml, config, wkDocs, wkIndex, wkAcked, contested, disturbed, wkCount>>
  BY DEF register_workspace_from_root_path, At, Busy
<1>2. WkStage(c) /\ wkCall[c].root \in RootDirs
  BY <1>1 DEF WkInv, WkStages, WkStage
<1>3. Named(wkCall[c].id, wkCall[c].root) /\ wkCall[c].id \in Nat
  BY <1>1, <1>2, CallNamed DEF WkStage
<1>4. wkCall' \in [Callers -> WkCalls] /\ wkCall'[c].pc = "persist" /\ SameCall(c) /\ OtherCallsSame(c)
  BY GotoFacts DEF register_workspace_from_root_path, WkInv, WkPcs
<1>5. PICK gone \in SUBSET Duplicates(registry, wkCall[c].id, wkCall[c].root) :
         registry' = Registered(registry, wkCall[c].id, wkCall[c].root, gone)
  BY DEF register_workspace_from_root_path
<1>6. \A d \in gone : registry[d] = wkCall[c].root /\ d # wkCall[c].id
  BY <1>5 DEF Duplicates
<1>7. /\ DOMAIN registry' = (DOMAIN registry \ gone) \cup {wkCall[c].id}
      /\ registry'[wkCall[c].id] = wkCall[c].root
      /\ \A i \in DOMAIN registry \ gone : i # wkCall[c].id => registry'[i] = registry[i]
  BY <1>5 DEF Registered, Insert
<1>8. \A i \in DOMAIN registry' : Named(i, registry'[i])
  BY <1>3, <1>7 DEF Named
<1>9. ASSUME NEW i, NEW r, InRegistry(i, r), r \notin contested', toml[r] = i
      PROVE  i \in DOMAIN registry' /\ registry'[i] = r
  <2>1. i \notin gone
    BY <1>1, <1>2, <1>6, <1>9 DEF InRegistry, WkStage
  <2>2. CASE i = wkCall[c].id
    <3>1. Named(i, r)
      BY <1>9 DEF Named, InRegistry
    <3>2. r = wkCall[c].root
      BY <2>2, <3>1, <1>3 DEF WkInv, WkNames
    <3> QED
      BY <2>2, <3>2, <1>7
  <2>3. CASE i # wkCall[c].id
    BY <2>1, <2>3, <1>7, <1>9 DEF InRegistry
  <2> QED
    BY <2>2, <2>3
<1>10. LeavesToOthers(c)
  BY <1>1, <1>9 DEF LeavesToOthers
<1>11. WkTypeOK'
  <2>1. DOMAIN registry' \subseteq Nat
    BY <1>3, <1>7 DEF WkInv, WkTypeOK
  <2>2. \A i \in DOMAIN registry' : registry'[i] \in RootDirs
    BY <1>2, <1>7 DEF WkInv, WkTypeOK
  <2> QED
    BY <1>1, <1>4, <2>1, <2>2 DEF WkInv, WkTypeOK
<1>12. WkStage(c)'
  BY <1>1, <1>2, <1>4 DEF WkStage, SameCall, Persisting
<1>13. WkConfig'
  BY <1>1, <1>4, ConfigSame
<1>14. \A r \in RootDirs : toml'[r] > 0 => Named(toml'[r], r)
  BY <1>1 DEF Named
<1> QED
  BY <1>1, <1>4, <1>8, <1>10, <1>11, <1>12, <1>13, <1>14, CallerStepInv DEF SameCall

LEMMA OpenByIdInv ==
    ASSUME WkInv, NEW c \in Callers, workspace_open_by_id(c)
    PROVE  WkInv'
<1>1. /\ wkCall[c].op = "open" /\ wkCall[c].pc = "lookup" /\ Busy(c)
      /\ UNCHANGED <<toml, config, registry, wkDocs, wkIndex, wkAcked, contested, disturbed, wkCount>>
  BY DEF workspace_open_by_id, At, Busy
<1>2. wkCall' \in [Callers -> WkCalls] /\ wkCall'[c].pc = "idle" /\ SameCall(c) /\ OtherCallsSame(c)
  <2>1. WkEnd(c, "ok") \/ WkEnd(c, "error")
    BY DEF workspace_open_by_id
  <2> QED
    BY <2>1, EndFacts DEF WkInv
<1>3. WkTypeOK'
  BY <1>1, <1>2 DEF WkInv, WkTypeOK
<1>4. WkStage(c)'
  BY <1>1, <1>2 DEF WkStage, SameCall, Persisting
<1>5. WkConfig'
  BY <1>1, <1>2, ConfigSame
<1>6. LeavesToOthers(c) /\ \A r \in RootDirs : toml'[r] > 0 => Named(toml'[r], r)
  BY <1>1, LeavesAll
<1>7. \A i \in DOMAIN registry' : Named(i, registry'[i])
  BY <1>1, LeavesAll
<1> QED
  BY <1>1, <1>2, <1>3, <1>4, <1>5, <1>6, <1>7, CallerStepInv DEF SameCall

\* The end of a create call, and what follows in an open call, once the path
\* is in config.toml.
Saved(c) ==
    \/ wkCall[c].op = "create" /\ create_answer(c)
    \/ wkCall[c].op = "open" /\ open_look_up(c)

LEMMA SavedFacts ==
    ASSUME WkInv, NEW c \in Callers, Saved(c), wkCall[c].pc \in {"persist", "write"},
           UNCHANGED <<toml, registry, wkDocs, wkIndex, contested, wkCount>>
    PROVE  /\ wkCall' \in [Callers -> WkCalls] /\ SameCall(c) /\ OtherCallsSame(c)
           /\ wkCall'[c].pc \in {"idle", "lookup"}
           /\ wkAcked' \subseteq [id : Nat, root : RootDirs, life : Nat]
           /\ WkStage(c)'
           /\ \A a \in wkAcked' : a \in wkAcked \/ NewAnswer(c, a)
<1>1. WkStage(c) /\ wkCall[c].root \in RootDirs
  BY DEF WkInv, WkStages, WkStage
<1>2. CASE wkCall[c].op = "create" /\ create_answer(c)
  <2>1. wkCall' \in [Callers -> WkCalls] /\ wkCall'[c].pc = "idle" /\ SameCall(c) /\ OtherCallsSame(c)
    BY <1>2, EndFacts DEF create_answer, WkInv
  <2>2. Named(wkCall[c].id, wkCall[c].root) /\ wkCall[c].id \in Nat
    BY <1>1, <1>2, CallNamed DEF WkStage
  <2>3. PICK a : a = [id |-> wkCall[c].id, root |-> wkCall[c].root, life |-> wkCount.restarts]
    OBVIOUS
  <2>4. wkAcked' = wkAcked \cup {a}
    BY <1>2, <2>3 DEF create_answer
  <2>5. a.id = wkCall[c].id /\ a.root = wkCall[c].root /\ a.life = wkCount.restarts /\ wkCount.restarts \in Nat
    BY <2>3 DEF WkInv, WkTypeOK
  <2>6. a \in [id : Nat, root : RootDirs, life : Nat]
    BY <1>1, <2>2, <2>3, <2>5
  <2>7. wkAcked' \subseteq [id : Nat, root : RootDirs, life : Nat]
    BY <2>4, <2>6 DEF WkInv, WkTypeOK
  <2>8. WkAnswer(a)'
    BY <1>1, <1>2, <2>5 DEF WkAnswer, WkStage, Indexed, Imported, InRegistry
  <2>9. WkStage(c)'
    BY <1>1, <1>2, <2>1 DEF WkStage, SameCall, Persisting
  <2>10. ASSUME NEW b \in wkAcked'
         PROVE  b \in wkAcked \/ NewAnswer(c, b)
    <3>1. CASE b \in wkAcked
      BY <3>1
    <3>2. CASE b = a
      <4>1. Named(b.id, b.root) /\ b.root = wkCall[c].root
        BY <3>2, <2>2, <2>5
      <4> QED
        BY <4>1, <3>2, <2>1, <2>8 DEF NewAnswer
    <3> QED
      BY <3>1, <3>2, <2>4
  <2> QED
    BY <2>1, <2>7, <2>9, <2>10
<1>3. CASE wkCall[c].op = "open" /\ open_look_up(c)
  <2>1. wkCall' \in [Callers -> WkCalls] /\ wkCall'[c].pc = "lookup" /\ SameCall(c) /\ OtherCallsSame(c)
    BY <1>3, GotoFacts DEF open_look_up, WkInv, WkPcs
  <2>2. wkAcked' = wkAcked
    BY <1>3 DEF open_look_up
  <2>3. WkStage(c)'
    BY <1>1, <1>3, <2>1 DEF WkStage, SameCall, Persisting
  <2>4. wkAcked' \subseteq [id : Nat, root : RootDirs, life : Nat]
    BY <2>2 DEF WkInv, WkTypeOK
  <2> QED
    BY <2>1, <2>2, <2>3, <2>4
<1> QED
  BY <1>2, <1>3 DEF Saved

LEMMA TypeStep ==
    ASSUME WkInv, UNCHANGED <<toml, config, registry, wkDocs, wkIndex, contested, wkCount>>,
           disturbed' \in BOOLEAN, wkCall' \in [Callers -> WkCalls],
           wkAcked' \subseteq [id : Nat, root : RootDirs, life : Nat]
    PROVE  WkTypeOK'
<1>1. /\ (toml \in [RootDirs -> Nat \cup {Torn}])' /\ (config \in [readable : BOOLEAN, paths : SUBSET RootDirs])'
      /\ (DOMAIN registry \subseteq Nat /\ \A i \in DOMAIN registry : registry[i] \in RootDirs)'
      /\ (wkDocs \subseteq Nat \X AllPaths /\ wkIndex \subseteq Nat \X AllPaths)'
      /\ (contested \subseteq RootDirs /\ wkCount \in [calls : Nat, restarts : Nat, spoils : Nat])'
  BY DEF WkInv, WkTypeOK
<1> QED
  BY <1>1 DEF WkTypeOK

LEMMA PersistLoadInv ==
    ASSUME WkInv, NEW c \in Callers, persist_load(c, Saved(c))
    PROVE  WkInv'
<1>1. /\ wkCall[c].pc = "persist" /\ Busy(c)
      /\ UNCHANGED <<toml, config, registry, wkDocs, wkIndex, contested, wkCount>>
  BY DEF persist_load, Busy
<1> disturbed' \in BOOLEAN
  BY DEF persist_load, WkInv, WkTypeOK
<1>2. /\ disturbed => disturbed'
      /\ ~disturbed' => ~disturbed /\ config.readable /\ \A d \in Callers \ {c} : ~Persisting(d)
  BY DEF persist_load, WkInv, WkTypeOK
<1>3. LeavesToOthers(c) /\ \A r \in RootDirs : toml'[r] > 0 => Named(toml'[r], r)
  BY <1>1, <1>2, LeavesAll
<1>4. \A i \in DOMAIN registry' : Named(i, registry'[i])
  BY <1>1, <1>2, LeavesAll
<1>5. ~disturbed' => \A a \in wkAcked : a.root \in config.paths
  BY <1>1, <1>2 DEF WkInv, WkConfig, Persisting
<1>6. CASE wkCall[c].root \in load_config /\ Saved(c)
  <2>1. /\ wkCall' \in [Callers -> WkCalls] /\ SameCall(c) /\ OtherCallsSame(c)
        /\ wkCall'[c].pc \in {"idle", "lookup"}
        /\ wkAcked' \subseteq [id : Nat, root : RootDirs, life : Nat]
        /\ WkStage(c)'
    BY <1>1, <1>6, SavedFacts
  <2>2. \A a \in wkAcked' : a \in wkAcked \/ NewAnswer(c, a)
    BY <1>1, <1>6, SavedFacts
  <2>3. WkTypeOK'
    BY <1>1, <2>1, TypeStep
  <2>4. WkConfig'
    <3> SUFFICES ASSUME ~disturbed' PROVE WkConfig'
      BY DEF WkConfig
    <3>1. \A d \in Callers : ~Persisting(d)'
      BY <1>2, <2>1 DEF Persisting, OtherCallsSame
    <3>2. \A a \in wkAcked' : a.root \in config.paths
      BY <1>2, <1>5, <1>6, <2>2 DEF load_config, NewAnswer
    <3> QED
      BY <1>1, <1>2, <3>1, <3>2 DEF WkConfig, Persisting
  <2> QED
    BY <1>1, <1>3, <1>4, <2>1, <2>2, <2>3, <2>4, CallerStepInv DEF SameCall
<1>7. CASE /\ wkCall' = [wkCall EXCEPT ![c].pc = "truncate", ![c].paths = load_config \union {wkCall[c].root}]
           /\ UNCHANGED wkAcked
  <2>1. WkStage(c) /\ wkCall[c].root \in RootDirs
    BY <1>1 DEF WkInv, WkStages, WkStage
  <2>2. PICK P \in SUBSET RootDirs : P = load_config \union {wkCall[c].root}
    BY <2>1 DEF load_config, WkInv, WkTypeOK
  <2>3. wkCall' = [wkCall EXCEPT ![c].pc = "truncate", ![c].paths = P]
    BY <1>7, <2>2
  <2>4. /\ wkCall' \in [Callers -> WkCalls] /\ wkCall'[c].pc = "truncate" /\ wkCall'[c].paths = P
        /\ wkCall'[c].op = wkCall[c].op /\ wkCall'[c].root = wkCall[c].root /\ wkCall'[c].id = wkCall[c].id
    <3>1. PICK k : k = [wkCall[c] EXCEPT !.pc = "truncate", !.paths = P]
      OBVIOUS
    <3>2. wkCall[c] \in WkCalls
      BY DEF WkInv, WkTypeOK
    <3>3. /\ k \in WkCalls /\ k.pc = "truncate" /\ k.paths = P
          /\ k.op = wkCall[c].op /\ k.root = wkCall[c].root /\ k.id = wkCall[c].id
      BY <3>1, <3>2 DEF WkCalls, WkPcs
    <3>4. wkCall' = [wkCall EXCEPT ![c] = k]
      BY <2>3, <3>1 DEF WkInv, WkTypeOK
    <3> QED
      BY <3>3, <3>4 DEF WkInv, WkTypeOK
  <2>5. OtherCallsSame(c)
    BY <2>3 DEF WkInv, WkTypeOK, OtherCallsSame
  <2>6. wkAcked' \subseteq [id : Nat, root : RootDirs, life : Nat]
    BY <1>7 DEF WkInv, WkTypeOK
  <2>9. WkTypeOK'
    BY <1>1, <2>4, <2>6, TypeStep
  <2>7. WkStage(c)'
    <3>1. Indexed(wkCall[c].id, wkCall[c].root) => Indexed(wkCall[c].id, wkCall[c].root)'
      BY <1>1, <2>4 DEF Indexed
    <3>2. Imported(wkCall[c].id, wkCall[c].root) => Imported(wkCall[c].id, wkCall[c].root)'
      BY <1>1, <2>4 DEF Imported
    <3>3. InRegistry(wkCall[c].id, wkCall[c].root) => InRegistry(wkCall[c].id, wkCall[c].root)'
      BY <1>1, <2>4 DEF InRegistry
    <3> QED
      BY <1>1, <2>1, <2>2, <2>4, <3>1, <3>2, <3>3 DEF WkStage, Persisting
  <2>8. WkConfig'
    <3> SUFFICES ASSUME ~disturbed' PROVE WkConfig'
      BY DEF WkConfig
    <3>1. \A d \in Callers \ {c} : ~Persisting(d)'
      BY <1>2, <2>5 DEF Persisting, OtherCallsSame
    <3>2. \A d \in Callers : wkCall'[d].pc # "write"
      BY <2>4, <3>1 DEF Persisting
    <3>3. config.paths \subseteq P
      BY <1>2, <2>2 DEF load_config
    <3>4. \A d \in Callers : wkCall'[d].pc = "truncate" => config'.paths \subseteq wkCall'[d].paths
      BY <1>1, <2>4, <3>1, <3>3 DEF Persisting
    <3> QED
      BY <1>1, <1>2, <1>5, <1>7, <3>1, <3>2, <3>4 DEF WkConfig
  <2> QED
    BY <1>1, <1>3, <1>4, <1>7, <2>4, <2>5, <2>7, <2>8, <2>9, CallerStepInv
<1> QED
  BY <1>6, <1>7 DEF persist_load

LEMMA SaveTruncateInv ==
    ASSUME WkInv, NEW c \in Callers, save_truncate(c)
    PROVE  WkInv'
<1>1. /\ wkCall[c].pc = "truncate" /\ Busy(c) /\ config' = Empty
      /\ UNCHANGED <<toml, registry, wkDocs, wkIndex, wkAcked, contested, disturbed, wkCount>>
  BY DEF save_truncate, Busy
<1>2. wkCall' \in [Callers -> WkCalls] /\ wkCall'[c].pc = "write" /\ SameCall(c) /\ OtherCallsSame(c)
  BY GotoFacts DEF save_truncate, WkInv, WkPcs
<1>3. WkStage(c) /\ wkCall[c].root \in RootDirs
  BY <1>1 DEF WkInv, WkStages, WkStage
<1>4. LeavesToOthers(c) /\ \A r \in RootDirs : toml'[r] > 0 => Named(toml'[r], r)
  BY <1>1, LeavesAll
<1>5. \A i \in DOMAIN registry' : Named(i, registry'[i])
  BY <1>1, LeavesAll
<1>6. WkTypeOK'
  BY <1>1, <1>2 DEF WkInv, WkTypeOK, Empty
<1>7. WkStage(c)'
  <2>1. Indexed(wkCall[c].id, wkCall[c].root) => Indexed(wkCall[c].id, wkCall[c].root)'
    BY <1>1, <1>2 DEF Indexed, SameCall
  <2>2. Imported(wkCall[c].id, wkCall[c].root) => Imported(wkCall[c].id, wkCall[c].root)'
    BY <1>1, <1>2 DEF Imported, SameCall
  <2>3. InRegistry(wkCall[c].id, wkCall[c].root) => InRegistry(wkCall[c].id, wkCall[c].root)'
    BY <1>1, <1>2 DEF InRegistry, SameCall
  <2> QED
    BY <1>1, <1>2, <1>3, <2>1, <2>2, <2>3 DEF WkStage, Persisting, SameCall
<1>8. WkConfig'
  <2> SUFFICES ASSUME ~disturbed PROVE WkConfig'
    BY <1>1 DEF WkConfig
  <2>1. \A d \in Callers \ {c} : ~Persisting(d)
    BY <1>1 DEF WkInv, WkConfig, Persisting
  <2>2. \A d \in Callers \ {c} : ~Persisting(d)'
    BY <1>2, <2>1 DEF Persisting, OtherCallsSame
  <2>3. \A d \in Callers : wkCall[d].pc # "write"
    BY <1>1, <2>1 DEF Persisting
  <2>4. \A a \in wkAcked : a.root \in wkCall[c].paths
    BY <1>1, <2>3 DEF WkInv, WkConfig
  <2>5. \A d \in Callers : wkCall'[d].pc # "truncate" /\ (wkCall'[d].pc = "write" => d = c)
    BY <1>2, <2>2 DEF Persisting
  <2>6. config'.readable
    BY <1>1 DEF Empty
  <2> QED
    BY <1>1, <1>2, <2>2, <2>4, <2>5, <2>6 DEF WkConfig, SameCall
<1> QED
  BY <1>1, <1>2, <1>4, <1>5, <1>6, <1>7, <1>8, CallerStepInv DEF SameCall

LEMMA SaveWriteInv ==
    ASSUME WkInv, NEW c \in Callers, save_write(c, Saved(c))
    PROVE  WkInv'
<1>1. /\ wkCall[c].pc = "write" /\ Busy(c) /\ config' = [readable |-> TRUE, paths |-> wkCall[c].paths]
      /\ Saved(c)
      /\ UNCHANGED <<toml, registry, wkDocs, wkIndex, contested, disturbed, wkCount>>
  BY DEF save_write, Busy
<1>2. WkStage(c) /\ wkCall[c].root \in wkCall[c].paths /\ wkCall[c] \in WkCalls
  BY <1>1 DEF WkInv, WkStages, WkStage, Persisting, WkTypeOK
<1>3. /\ wkCall' \in [Callers -> WkCalls] /\ SameCall(c) /\ OtherCallsSame(c)
      /\ wkCall'[c].pc \in {"idle", "lookup"}
      /\ wkAcked' \subseteq [id : Nat, root : RootDirs, life : Nat]
      /\ WkStage(c)'
  BY <1>1, SavedFacts
<1>4. \A a \in wkAcked' : a \in wkAcked \/ NewAnswer(c, a)
  BY <1>1, SavedFacts
<1>5. config' \in [readable : BOOLEAN, paths : SUBSET RootDirs] /\ config'.readable /\ config'.paths = wkCall[c].paths
  BY <1>1, <1>2 DEF WkCalls
<1>6. WkTypeOK'
  BY <1>1, <1>3, <1>5 DEF WkInv, WkTypeOK
<1>7. LeavesToOthers(c) /\ \A r \in RootDirs : toml'[r] > 0 => Named(toml'[r], r)
  BY <1>1, LeavesAll
<1>8. \A i \in DOMAIN registry' : Named(i, registry'[i])
  BY <1>1, LeavesAll
<1>9. WkConfig'
  <2> SUFFICES ASSUME ~disturbed PROVE WkConfig'
    BY <1>1 DEF WkConfig
  <2>1. \A d \in Callers \ {c} : ~Persisting(d)
    BY <1>1 DEF WkInv, WkConfig, Persisting
  <2>2. \A d \in Callers : ~Persisting(d)'
    BY <1>3, <2>1 DEF Persisting, OtherCallsSame
  <2>3. \A a \in wkAcked' : a.root \in config'.paths
    BY <1>1, <1>2, <1>4, <1>5 DEF WkInv, WkConfig, NewAnswer
  <2> QED
    BY <1>5, <2>2, <2>3 DEF WkConfig, Persisting
<1> QED
  BY <1>1, <1>3, <1>4, <1>6, <1>7, <1>8, <1>9, CallerStepInv DEF SameCall

LEMMA PersistInv ==
    ASSUME WkInv, NEW c \in Callers, create_persist(c) \/ open_persist(c)
    PROVE  WkInv'
<1>1. persist_load(c, Saved(c)) \/ save_write(c, Saved(c))
  <2>1. CASE create_persist(c)
    BY <2>1 DEF create_persist, persist_load, save_write, Saved
  <2>2. CASE open_persist(c)
    BY <2>2 DEF open_persist, persist_load, save_write, Saved
  <2> QED
    BY <2>1, <2>2
<1> QED
  BY <1>1, PersistLoadInv, SaveWriteInv

\* The first step of a call.  A create call has an id nobody has; its root is
\* contested when somebody works on it, or has made it.
LEMMA WkBeginInv ==
    ASSUME WkInv, NEW c \in Callers, NEW op \in {"create", "open"}, NEW root \in RootDirs, NEW id \in Nat,
           NEW pc \in WkPcs, WkBegin(c, op, root, id, pc),
           \/ op = "create" /\ id = NextId /\ pc = "toml"
           \/ op = "open" /\ id = NoId /\ pc = "info"
           \/ op = "open" /\ Named(id, root) /\ pc = "lookup"
    PROVE  WkInv'
<1>1. UNCHANGED <<toml, config, registry, wkDocs, wkIndex, wkAcked, disturbed>>
  BY DEF WkBegin
<1>2. PICK n \in Nat : n = wkCount.calls
  BY DEF WkInv, WkTypeOK
<1>3. /\ wkCount' \in [calls : Nat, restarts : Nat, spoils : Nat]
      /\ wkCount'.calls = n + 1 /\ wkCount'.restarts = wkCount.restarts
  <2>1. wkCount' = [wkCount EXCEPT !.calls = @ + 1]
    BY DEF WkBegin
  <2>2. wkCount' = [wkCount EXCEPT !.calls = n + 1]
    BY <1>2, <2>1
  <2>3. n + 1 \in Nat
    OBVIOUS
  <2> QED
    BY <2>2, <2>3 DEF WkInv, WkTypeOK
<1>4. PICK k : k = [NoWkCall EXCEPT !.op = op, !.root = root, !.id = id, !.pc = pc]
  OBVIOUS
<1>5. k \in WkCalls /\ k.op = op /\ k.root = root /\ k.id = id /\ k.pc = pc
  <2>1. NoWkCall \in WkCalls
    BY NoCallType
  <2> QED
    BY <1>4, <2>1 DEF WkCalls
<1>6. wkCall' \in [Callers -> WkCalls] /\ wkCall'[c] = k /\ OtherCallsSame(c)
  <2>1. wkCall' = [wkCall EXCEPT ![c] = k]
    BY <1>4 DEF WkBegin
  <2> QED
    BY <1>5, <2>1 DEF WkInv, WkTypeOK, OtherCallsSame
<1>7. contested \subseteq contested' /\ contested' \subseteq contested \cup {root} /\ contested' \subseteq RootDirs
  BY DEF WkBegin, WkInv, WkTypeOK
<1>8. WkTypeOK'
  BY <1>1, <1>3, <1>6, <1>7 DEF WkInv, WkTypeOK
<1>9. ASSUME NEW i, NEW r, Named(i, r)' PROVE Named(i, r) \/ (i = n + 1 /\ r = root)
  <2>1. ASSUME NEW d \in Callers, wkCall'[d].id = i, i # NoId, wkCall'[d].root = r
        PROVE  Named(i, r) \/ (i = n + 1 /\ r = root)
    <3>1. CASE d = c
      <4>1. i = id /\ r = root
        BY <3>1, <2>1, <1>5, <1>6
      <4> QED
        BY <4>1, <2>1, <1>2 DEF NextId
    <3>2. CASE d # c
      BY <3>2, <2>1, <1>6 DEF Named, OtherCallsSame
    <3> QED
      BY <3>1, <3>2
  <2> QED
    BY <1>1, <1>9, <2>1 DEF Named
<1>10. wkCount'.calls \in {n, n + 1}
  BY <1>3
<1>11. WkNames'
  BY <1>2, <1>3, <1>9, <1>10, NamesStep
<1>12. WkFits'
  <2>1. \A i, p : <<i, p>> \in wkDocs' \cup wkIndex' => <<i, p>> \in wkDocs \cup wkIndex
    BY <1>1
  <2> QED
    BY <1>2, <1>3, <1>9, <1>10, <2>1, FitsStep
<1>13. LeavesToOthers(c)
  BY <1>1, <1>3, <1>7 DEF LeavesToOthers, InRegistry
<1>14. WkStage(c)'
  <2>1. id # NoId \/ op # "create"
    BY <1>2 DEF NextId, NoId
  <2> QED
    BY <2>1, <1>5, <1>6 DEF WkStage, Persisting
<1>15. WkStages' /\ WkAnswers'
  BY <1>1, <1>6, <1>13, <1>14, OthersKept DEF WkStages, WkAnswers
<1>16. WkApart'
  <2>1. ASSUME NEW d \in Callers \ {c}, Busy(d), wkCall[d].root = root PROVE root \in contested'
    BY <2>1 DEF WkBegin
  <2>2. ASSUME NEW a \in wkAcked, op = "create", a.root = root PROVE root \in contested'
    <3>1. CASE root \in contested
      BY <3>1, <1>7
    <3>2. CASE root \notin contested
      <4>1. toml[root] = a.id
        BY <3>2, <2>2 DEF WkInv, WkAnswers, WkAnswer
      <4>2. Named(a.id, root)
        BY <2>2 DEF Named
      <4>3. a.id # NoId
        BY <4>2 DEF WkInv, WkNames, NoId
      <4> QED
        BY <4>1, <4>3, <2>2 DEF WkBegin
    <3> QED
      BY <3>1, <3>2
  <2>3. \A d \in Callers \ {c} : wkCall'[d] = wkCall[d]
    BY <1>6 DEF OtherCallsSame
  <2>4. \A d, e \in Callers : d # e /\ Busy(d)' /\ Busy(e)' /\ wkCall'[d].root = wkCall'[e].root =>
           wkCall'[d].root \in contested'
    BY <2>1, <2>3, <1>5, <1>6, <1>7 DEF WkInv, WkApart, Busy
  <2>5. \A a \in wkAcked, d \in Callers : Busy(d)' /\ wkCall'[d].op = "create" /\ wkCall'[d].root = a.root =>
           a.root \in contested'
    BY <2>2, <2>3, <1>5, <1>6, <1>7 DEF WkInv, WkApart, Busy
  <2> QED
    BY <1>1, <2>4, <2>5 DEF WkApart
<1>17. WkConfig'
  <2>1. wkCall[c].pc = "idle"
    BY DEF WkBegin, Busy
  <2>2. pc \notin {"truncate", "write"}
    OBVIOUS
  <2> QED
    BY <1>1, <1>5, <1>6, <2>1, <2>2, ConfigSame
<1> QED
  BY <1>8, <1>11, <1>12, <1>15, <1>16, <1>17 DEF WkInv

LEMMA BeginsInv ==
    ASSUME WkInv, NEW c \in Callers, workspace_create(c) \/ workspace_open(c) \/ open_by_id(c)
    PROVE  WkInv'
<1>1. CASE workspace_create(c)
  <2>1. PICK r \in RootDirs : WkBegin(c, "create", r, NextId, "toml")
    BY <1>1 DEF workspace_create
  <2>2. PICK i \in Nat : i = NextId
    BY DEF NextId, WkInv, WkTypeOK
  <2>3. WkBegin(c, "create", r, i, "toml")
    BY <2>1, <2>2
  <2> QED
    BY <2>2, <2>3, WkBeginInv DEF WkPcs
<1>2. CASE workspace_open(c)
  <2>1. PICK r \in RootDirs : WkBegin(c, "open", r, NoId, "info")
    BY <1>2 DEF workspace_open
  <2> QED
    BY <2>1, WkBeginInv DEF WkPcs, NoId
<1>3. CASE open_by_id(c)
  <2>1. PICK i \in DOMAIN registry : WkBegin(c, "open", registry[i], i, "lookup")
    BY <1>3 DEF open_by_id
  <2>2. PICK r \in RootDirs : r = registry[i]
    BY DEF WkInv, WkTypeOK
  <2>3. WkBegin(c, "open", r, i, "lookup") /\ Named(i, r) /\ i \in Nat
    BY <2>1, <2>2 DEF Named, WkInv, WkTypeOK
  <2> QED
    BY <2>3, WkBeginInv DEF WkPcs
<1> QED
  BY <1>1, <1>2, <1>3

\* What is registered at start-up are the names in the files.
LEMMA RecoverFacts ==
    ASSUME WkInv, NEW reg, reg = recover_workspaces_at_startup
    PROVE  /\ \A i \in DOMAIN reg : i \in Nat /\ reg[i] \in RootDirs /\ Named(i, reg[i])
           /\ \A r \in load_config : toml[r] > 0 => toml[r] \in DOMAIN reg /\ reg[toml[r]] = r
<1> DEFINE roots == {r \in load_config : toml[r] \notin {NoId, Torn}}
           ids == {toml[r] : r \in roots}
<1>1. DOMAIN reg = ids /\ \A i \in ids : reg[i] = CHOOSE r \in roots : toml[r] = i
  BY DEF recover_workspaces_at_startup
<1>2. \A r \in roots : r \in RootDirs /\ toml[r] \in Nat /\ toml[r] > 0
  BY TomlRange DEF load_config, WkInv, WkTypeOK
<1>3. ASSUME NEW i \in ids PROVE reg[i] \in roots /\ toml[reg[i]] = i
  BY <1>1
<1>4. \A r \in load_config : toml[r] > 0 => r \in roots
  BY DEF NoId, Torn
<1>5. \A r \in roots : toml[r] \in ids
  OBVIOUS
<1> HIDE DEF roots, ids
<1>6. \A r \in roots : Named(toml[r], r)
  BY <1>2 DEF Named
<1>7. \A i \in ids : i \in Nat /\ reg[i] \in RootDirs /\ Named(i, reg[i])
  BY <1>2, <1>3, <1>6
<1>8. ASSUME NEW r \in roots PROVE reg[toml[r]] = r
  BY <1>3, <1>5, <1>6 DEF WkInv, WkNames
<1> QED
  BY <1>1, <1>4, <1>5, <1>7, <1>8

LEMMA WkRestartInv == ASSUME WkInv, WkRestart PROVE WkInv'
<1>1. /\ wkDocs' = {} /\ wkIndex' = {} /\ wkCall' = [c \in Callers |-> NoWkCall]
      /\ UNCHANGED <<toml, config, wkAcked, contested>>
  BY DEF WkRestart
<1>2. registry' = recover_workspaces_at_startup
  BY DEF WkRestart
<1>3. /\ \A i \in DOMAIN registry' : i \in Nat /\ registry'[i] \in RootDirs /\ Named(i, registry'[i])
      /\ \A r \in load_config : toml[r] > 0 => toml[r] \in DOMAIN registry' /\ registry'[toml[r]] = r
  BY <1>2, RecoverFacts
<1>4. PICK n \in Nat : n = wkCount.restarts
  BY DEF WkInv, WkTypeOK
<1>5. /\ wkCount' \in [calls : Nat, restarts : Nat, spoils : Nat]
      /\ wkCount'.restarts = n + 1 /\ wkCount'.calls = wkCount.calls
  <2>1. wkCount' = [wkCount EXCEPT !.restarts = n + 1]
    BY <1>4 DEF WkRestart
  <2>2. n + 1 \in Nat
    OBVIOUS
  <2> QED
    BY <2>1, <2>2 DEF WkInv, WkTypeOK
<1> disturbed' \in BOOLEAN
  BY DEF WkRestart, WkInv, WkTypeOK
<1>6. ~disturbed' => ~disturbed /\ \A c \in Callers : wkCall[c].pc # "write"
  BY DEF WkRestart, WkInv, WkTypeOK
<1>7. wkCall' \in [Callers -> WkCalls] /\ \A c \in Callers : wkCall'[c] = NoWkCall
  BY <1>1, NoCallType
<1>8. NoWkCall.pc = "idle" /\ NoWkCall.op = "none" /\ NoWkCall.id = NoId
  BY DEF NoWkCall
<1>9. WkTypeOK'
  BY <1>1, <1>3, <1>5, <1>7 DEF WkInv, WkTypeOK
<1>10. \A i, r : Named(i, r)' => Named(i, r)
  BY <1>1, <1>3, <1>7, <1>8 DEF Named
<1>11. WkNames'
  BY <1>5, <1>10 DEF WkInv, WkNames
<1>12. WkFits'
  BY <1>1 DEF WkFits
<1>13. WkStages'
  BY <1>7, <1>8 DEF WkStages, WkStage, Persisting
<1>14. ASSUME NEW a \in wkAcked PROVE WkAnswer(a)'
  <2>1. WkAnswer(a) /\ a.life \in Nat /\ a.root \in RootDirs
    BY DEF WkInv, WkAnswers, WkTypeOK
  <2>2. a.life <= n + 1 /\ a.life # n + 1
    BY <2>1, <1>4 DEF WkAnswer
  <2>3. a.root \notin contested => toml[a.root] = a.id
    BY <2>1 DEF WkAnswer
  <2>4. Named(a.id, a.root)
    BY DEF Named
  <2>5. a.id > 0
    BY <2>4 DEF WkInv, WkNames
  <2>6. ASSUME ~disturbed', a.root \notin contested PROVE InRegistry(a.id, a.root)'
    <3>1. a.root \in load_config
      BY <1>6, <2>6 DEF load_config, WkInv, WkConfig
    <3> QED
      BY <3>1, <1>3, <2>3, <2>5, <2>6 DEF InRegistry
  <2> QED
    BY <1>1, <1>5, <2>2, <2>3, <2>6 DEF WkAnswer
<1>15. WkAnswers'
  BY <1>1, <1>14 DEF WkAnswers
<1>16. WkApart'
  BY <1>7, <1>8 DEF WkApart, Busy
<1>17. WkConfig'
  BY <1>1, <1>6, <1>7, <1>8 DEF WkInv, WkConfig, Persisting
<1> QED
  BY <1>9, <1>11, <1>12, <1>13, <1>15, <1>16, <1>17 DEF WkInv

LEMMA SpoilConfigInv == ASSUME WkInv, spoil_config PROVE WkInv'
<1>1. /\ config' = [readable |-> FALSE, paths |-> {}] /\ disturbed' = TRUE
      /\ UNCHANGED <<toml, registry, wkDocs, wkIndex, wkCall, wkAcked, contested>>
  BY DEF spoil_config
<1>2. /\ wkCount' \in [calls : Nat, restarts : Nat, spoils : Nat]
      /\ wkCount'.restarts = wkCount.restarts /\ wkCount'.calls = wkCount.calls
  BY DEF spoil_config, WkInv, WkTypeOK
<1>3. WkTypeOK'
  BY <1>1, <1>2 DEF WkInv, WkTypeOK
<1>4. \A i, r : Named(i, r)' <=> Named(i, r)
  BY <1>1 DEF Named
<1>5. WkNames' /\ WkFits'
  BY <1>1, <1>2, <1>4 DEF WkInv, WkNames, WkFits
<1>6. WkStages' /\ WkApart'
  BY <1>1 DEF WkInv, WkStages, WkStage, Persisting, Indexed, Imported, InRegistry, WkApart, Busy
<1>7. WkAnswers'
  BY <1>1, <1>2 DEF WkInv, WkAnswers, WkAnswer, Indexed, Imported, InRegistry
<1>8. WkConfig'
  BY <1>1 DEF WkConfig
<1> QED
  BY <1>3, <1>5, <1>6, <1>7, <1>8 DEF WkInv

LEMMA WkInitInv == WkInit => WkInv
<1> SUFFICES ASSUME WkInit PROVE WkInv
  OBVIOUS
<1>1. DOMAIN registry = {} /\ \A c \in Callers : wkCall[c] = NoWkCall
  BY DEF WkInit
<1>2. NoWkCall.pc = "idle" /\ NoWkCall.op = "none" /\ NoWkCall.id = NoId
  BY DEF NoWkCall
<1>3. WkTypeOK
  BY <1>1, NoCallType DEF WkInit, WkTypeOK, Empty, NoId
<1>4. \A i, r : ~Named(i, r)
  BY <1>1, <1>2 DEF Named, WkInit, NoId
<1>5. WkNames /\ WkFits /\ WkAnswers
  BY <1>4 DEF WkInit, WkNames, WkFits, WkAnswers
<1>6. WkStages /\ WkApart
  BY <1>1, <1>2 DEF WkInit, WkStages, WkStage, Persisting, WkApart, Busy
<1>7. WkConfig
  BY <1>1, <1>2 DEF WkInit, WkConfig, Persisting, Empty
<1> QED
  BY <1>3, <1>5, <1>6, <1>7 DEF WkInv

LEMMA WkNextInv == WkInv /\ [WkNext]_wkVars => WkInv'
<1>1. ASSUME WkInv, UNCHANGED wkVars PROVE WkInv'
  <2>1. \A i, r : Named(i, r)' <=> Named(i, r)
    BY <1>1 DEF wkVars, Named
  <2>2. WkTypeOK' /\ WkNames' /\ WkFits'
    BY <1>1, <2>1 DEF wkVars, WkInv, WkTypeOK, WkNames, WkFits
  <2>3. WkStages' /\ WkAnswers'
    BY <1>1 DEF wkVars, WkInv, WkStages, WkStage, Persisting, WkAnswers, WkAnswer, Indexed, Imported, InRegistry
  <2>4. WkApart' /\ WkConfig'
    BY <1>1 DEF wkVars, WkInv, WkApart, Busy, WkConfig, Persisting
  <2> QED
    BY <2>2, <2>3, <2>4 DEF WkInv
<1> QED
  BY <1>1, BeginsInv, TruncateTomlInv, WriteTomlInv, CreateIndexInv, CreateImportInv, CreateRegisterInv, PersistInv,
     WorkspaceInfoInv, RegisterFromRootInv, OpenByIdInv, SaveTruncateInv, WkRestartInv, SpoilConfigInv DEF WkNext

\* The order workspace.list gives the registry in, and its entry there.
ListOrder ==
    CHOOSE s \in [1..Cardinality(DOMAIN registry) -> DOMAIN registry] : \A i, j \in DOMAIN s : i # j => s[i] # s[j]

ListItem(i) == [id |-> ListOrder[i], doc_count |-> Cardinality({d \in wkDocs : d[1] = ListOrder[i]})]

LEMMA RegistryFinite ==
  ASSUME WkInv
  PROVE  IsFiniteSet(DOMAIN registry) /\ Cardinality(DOMAIN registry) \in Nat
<1>1. wkCount.calls \in Nat
  BY DEF WkInv, WkTypeOK
<1>2. DOMAIN registry \in SUBSET (1..wkCount.calls)
  BY DEF WkInv, WkNames, Named
<1>3. IsFiniteSet(1..wkCount.calls)
  BY <1>1, FS_Interval
<1>4. IsFiniteSet(DOMAIN registry)
  BY <1>2, <1>3, FS_Subset
<1> QED
  BY <1>4, FS_CardinalityType

\* Every entry of the registry has one place in the order.
LEMMA ListOrderFacts ==
  ASSUME WkInv
  PROVE  /\ ListOrder \in [1..Cardinality(DOMAIN registry) -> DOMAIN registry]
         /\ \A id \in DOMAIN registry : \E i \in 1..Cardinality(DOMAIN registry) : ListOrder[i] = id
<1> DEFINE N == Cardinality(DOMAIN registry)
           Good(s) == \A i, j \in DOMAIN s : i # j => s[i] # s[j]
<1>1. IsFiniteSet(DOMAIN registry) /\ N \in Nat
  BY RegistryFinite
<1>2. PICK f : f \in Bijection(1..N, DOMAIN registry)
  BY <1>1, FS_CardinalityType DEF ExistsBijection
<1>3. f \in [1..N -> DOMAIN registry] /\ Good(f)
  BY <1>2 DEF Bijection, Injection, IsInjective
<1>4. ListOrder \in [1..N -> DOMAIN registry] /\ Good(ListOrder)
  BY <1>3 DEF ListOrder
<1>5. ListOrder \in Injection(1..N, DOMAIN registry)
  BY <1>4 DEF Injection, IsInjective
<1>6. Cardinality(1..N) = N
  BY <1>1, FS_Interval
<1>7. ListOrder \in Surjection(1..N, DOMAIN registry)
  BY <1>1, <1>5, <1>6, FS_Injection
<1> QED
  BY <1>4, <1>7 DEF Surjection

\* A page of one and the rest of them are the whole list.
LEMMA PagesFacts ==
  ASSUME WkInv, DOMAIN registry # {}
  PROVE  LET pages == workspace_list(0, 1).items \o workspace_list(1, Cardinality(DOMAIN registry)).items
         IN  /\ Len(pages) = Cardinality(DOMAIN registry)
             /\ DOMAIN pages = 1..Cardinality(DOMAIN registry)
             /\ \A i \in DOMAIN pages : pages[i] = ListItem(i)
<1> DEFINE N == Cardinality(DOMAIN registry)
           I == {ListItem(i) : i \in 1..N}
           first == [i \in 1..1 |-> ListItem(i)]
           rest == [i \in 1..N - 1 |-> ListItem(1 + i)]
<1>1. N \in Nat /\ N # 0
  BY RegistryFinite, FS_EmptySet
<1>2. Len(ListOrder) = N
  BY <1>1, ListOrderFacts
<1>3. workspace_list(0, 1).items = first
  <2>1. workspace_list(0, 1).items =
           [i \in 1..(IF 0 + 1 < Len(ListOrder) THEN 0 + 1 ELSE Len(ListOrder)) - 0 |->
               [id |-> ListOrder[0 + i], doc_count |-> Cardinality({d \in wkDocs : d[1] = ListOrder[0 + i]})]]
    BY DEF workspace_list, ListOrder
  <2>2. (IF 0 + 1 < Len(ListOrder) THEN 0 + 1 ELSE Len(ListOrder)) - 0 = 1
    BY <1>1, <1>2
  <2>3. \A i \in 1..1 : 0 + i = i
    OBVIOUS
  <2> QED
    BY <2>1, <2>2, <2>3 DEF ListItem
<1>4. workspace_list(1, N).items = rest
  <2>1. workspace_list(1, N).items =
           [i \in 1..(IF 1 + N < Len(ListOrder) THEN 1 + N ELSE Len(ListOrder)) - 1 |->
               [id |-> ListOrder[1 + i], doc_count |-> Cardinality({d \in wkDocs : d[1] = ListOrder[1 + i]})]]
    BY DEF workspace_list, ListOrder
  <2>2. (IF 1 + N < Len(ListOrder) THEN 1 + N ELSE Len(ListOrder)) - 1 = N - 1
    BY <1>1, <1>2
  <2> QED
    BY <2>1, <2>2 DEF ListItem
<1> HIDE DEF N, I
<1>5. first \in Seq(I) /\ Len(first) = 1 /\ rest \in Seq(I) /\ Len(rest) = N - 1
  BY <1>1 DEF I
<1>6. \A i \in 1..1 : first[i] = ListItem(i)
  OBVIOUS
<1>7. \A i \in 1..N - 1 : rest[i] = ListItem(1 + i)
  OBVIOUS
<1> HIDE DEF first, rest
<1> DEFINE both == first \o rest
<1>8. /\ both \in Seq(I) /\ Len(both) = Len(first) + Len(rest)
      /\ \A i \in 1..Len(first) + Len(rest) : both[i] = IF i <= Len(first) THEN first[i] ELSE rest[i - Len(first)]
  BY <1>5, ConcatProperties
<1> HIDE DEF both
<1>9. Len(both) = N /\ DOMAIN both = 1..N
  BY <1>1, <1>5, <1>8
<1>10. ASSUME NEW i \in 1..N PROVE both[i] = ListItem(i)
  <2>1. CASE i = 1
    BY <2>1, <1>1, <1>5, <1>6, <1>8
  <2>2. CASE i # 1
    <3>1. i - 1 \in 1..N - 1 /\ 1 + (i - 1) = i
      BY <2>2, <1>1
    <3>2. both[i] = rest[i - 1]
      BY <2>2, <1>1, <1>5, <1>8
    <3> QED
      BY <3>1, <3>2, <1>7
  <2> QED
    BY <2>1, <2>2
<1> QED
  BY <1>3, <1>4, <1>9, <1>10 DEF N, both

\* workspace_create counts a root's files one by one.
LEMMA ImportedCount ==
  ASSUME WkInv, NEW i, NEW r \in RootDirs, Named(i, r), Indexed(i, r), Imported(i, r)
  PROVE  /\ {d[2] : d \in {e \in wkDocs : e[1] = i}} = Paths(r)
         /\ {d[2] : d \in {e \in wkIndex : e[1] = i}} = Paths(r)
         /\ Cardinality({d \in wkDocs : d[1] = i}) = Cardinality(MarkdownFiles[r])
<1> DEFINE docs == {d \in wkDocs : d[1] = i}
           f == [p \in MarkdownFiles[r] |-> <<i, PathNorm[p]>>]
<1>1. \A d \in wkDocs \cup wkIndex : d = <<d[1], d[2]>>
  BY DEF WkInv, WkTypeOK
<1>2. \A d \in wkDocs \cup wkIndex : d[1] = i => d = <<i, d[2]>> /\ d[2] \in Paths(r)
  BY <1>1 DEF WkInv, WkFits
<1>3. docs = {<<i, p>> : p \in Paths(r)}
  BY <1>2 DEF Imported
<1>4. f \in Injection(MarkdownFiles[r], docs)
  BY <1>3 DEF Injection, IsInjective, Indexed, ensure_unique_path_norm, Paths
<1>5. f \in Surjection(MarkdownFiles[r], docs)
  BY <1>3 DEF Surjection, Paths
<1>6. Cardinality(docs) = Cardinality(MarkdownFiles[r])
  BY <1>4, <1>5, FS_Bijection, WorkspacesAssumption DEF ExistsBijection, Bijection
<1>7. {d[2] : d \in {e \in wkDocs : e[1] = i}} = Paths(r)
  <2>1. \A p \in Paths(r) : <<i, p>> \in docs /\ <<i, p>>[2] = p
    BY <1>3
  <2> QED
    BY <1>2, <2>1
<1>8. {d[2] : d \in {e \in wkIndex : e[1] = i}} = Paths(r)
  <2>1. \A p \in Paths(r) : <<i, p>> \in {e \in wkIndex : e[1] = i} /\ <<i, p>>[2] = p
    BY DEF Indexed
  <2> QED
    BY <1>2, <2>1
<1> QED
  BY <1>6, <1>7, <1>8

LEMMA WkInvSound == WkInv => WkSound
<1> SUFFICES ASSUME WkInv PROVE WkRemembered /\ WkImported
  BY DEF WkSound
<1>1. WkRemembered
  BY DEF WkRemembered, WkInv, WkConfig, WkAnswers, WkAnswer, InRegistry
<1>2. ASSUME NEW a \in wkAcked, a.life = wkCount.restarts, a.root \notin contested
      PROVE  LET paths == {PathNorm[p] : p \in MarkdownFiles[a.root]}
                 pages == workspace_list(0, 1).items \o workspace_list(1, Cardinality(DOMAIN registry)).items
             IN /\ {d[2] : d \in {e \in wkDocs : e[1] = a.id}} = paths
                /\ {d[2] : d \in {e \in wkIndex : e[1] = a.id}} = paths
                /\ {i \in DOMAIN pages : pages[i] = [id |-> a.id, doc_count |-> Cardinality(MarkdownFiles[a.root])]} # {}
                /\ Len(pages) = Cardinality(DOMAIN registry)
  <2> DEFINE N == Cardinality(DOMAIN registry)
             pages == workspace_list(0, 1).items \o workspace_list(1, N).items
             item == [id |-> a.id, doc_count |-> Cardinality(MarkdownFiles[a.root])]
  <2>1. InRegistry(a.id, a.root) /\ Indexed(a.id, a.root) /\ Imported(a.id, a.root)
    BY <1>2 DEF WkInv, WkAnswers, WkAnswer
  <2>2. a.root \in RootDirs /\ Named(a.id, a.root)
    BY <1>2 DEF WkInv, WkTypeOK, Named
  <2>3. /\ {d[2] : d \in {e \in wkDocs : e[1] = a.id}} = Paths(a.root)
        /\ {d[2] : d \in {e \in wkIndex : e[1] = a.id}} = Paths(a.root)
        /\ Cardinality({d \in wkDocs : d[1] = a.id}) = Cardinality(MarkdownFiles[a.root])
    BY <2>1, <2>2, ImportedCount
  <2>4. PICK i \in 1..N : ListOrder[i] = a.id
    BY <2>1, ListOrderFacts DEF InRegistry
  <2>5. Len(pages) = N /\ i \in DOMAIN pages /\ pages[i] = ListItem(i)
    <3>1. DOMAIN registry # {}
      BY <2>1 DEF InRegistry
    <3> QED
      BY <3>1, PagesFacts
  <2>6. ListItem(i) = item
    BY <2>3, <2>4 DEF ListItem
  <2> HIDE DEF pages, item
  <2>7. {k \in DOMAIN pages : pages[k] = item} # {}
    BY <2>5, <2>6
  <2> QED
    BY <2>3, <2>5, <2>7 DEF Paths, pages, item
<1> QED
  BY <1>1, <1>2 DEF WkImported

\* workspace_create, recover_workspaces_at_startup and workspace_list, for
\* any number of callers and roots: what an answered call made is remembered
\* through restarts, imported whole and listed once with its count.
THEOREM WkSoundHolds == WkSpec => []WkSound
<1> QED
  BY WkInitInv, WkNextInv, WkInvSound, PTL DEF WkSpec

-----------------------------------------------------------------------------
(* Daemons that share a directory, and the tool that calls them.  What     *)
(* keeps two daemons from serving is who has the port; what is told of a   *)
(* call rests on one request per attempt.                                  *)

StPoints == {"off", "start", "wait", "bind", "pid", "port", "recover", "serve", "abort",
             "cleanup", "exit", "stopped", "failed"}

StTypeOK ==
    /\ dpc \in [StDaemons -> StPoints]
    /\ listening \subseteq StDaemons

\* A daemon that recovers or serves has the port until it has stopped serving.
StPortHeld == \A d \in StDaemons : dpc[d] \in {"recover", "serve", "abort"} => portOf = d

StInv == StTypeOK /\ StPortHeld

\* No daemon runs and nobody has the port at first.
LEMMA StInitInv == StInit => StInv
BY DEF StInit, StInv, StTypeOK, StPortHeld, StPoints

\* A step of one daemon that takes the port only when it is free and gives it
\* back only when it is its own.
LEMMA StStepInv ==
    ASSUME StInv, NEW d \in StDaemons, NEW at \in StPoints, StTo(d, at),
           listening' \subseteq listening \cup {d},
           \/ /\ UNCHANGED portOf
              /\ at \in {"recover", "serve", "abort"} => dpc[d] \in {"recover", "serve", "abort"}
           \/ portOf = 0 /\ portOf' = d
           \/ portOf \in {0, d} /\ portOf' = 0 /\ at \notin {"recover", "serve", "abort"}
           \/ portOf # d /\ UNCHANGED portOf /\ at \notin {"recover", "serve", "abort"}
    PROVE  StInv'
<1>1. dpc' = [dpc EXCEPT ![d] = at] /\ d # 0
  BY DaemonsNamed DEF StTo, StDaemons
<1>2. StTypeOK'
  BY <1>1 DEF StInv, StTypeOK
<1>3. ASSUME NEW e \in StDaemons, dpc'[e] \in {"recover", "serve", "abort"} PROVE portOf' = e
  <2>1. e # 0
    BY DaemonsNamed DEF StDaemons
  <2>2. CASE e = d
    BY <1>1, <1>3, <2>2 DEF StInv, StTypeOK, StPortHeld
  <2>3. CASE e # d
    <3>1. dpc'[e] = dpc[e]
      BY <1>1, <2>3 DEF StInv, StTypeOK
    <3>2. portOf = e
      BY <1>3, <3>1 DEF StInv, StPortHeld
    <3> QED
      BY <2>1, <2>3, <3>2
  <2> QED
    BY <2>2, <2>3
<1> QED
  BY <1>2, <1>3 DEF StInv, StPortHeld

\* Every step of a daemon is such a step.
LEMMA StNextInv == StInv /\ StNext => StInv'
<1> SUFFICES ASSUME StInv, NEW d \in StDaemons,
                    StOwn(d) \/ process_starts(d) \/ user_stops(d) \/ process_killed(d)
             PROVE  StInv'
  BY DEF StNext
<1> USE DEF StPoints
<1>0. dpc[d] \in {"recover", "serve", "abort"} => portOf = d
  BY DEF StInv, StPortHeld
<1>1. CASE take_over_standalone(d)
  <2>1. PICK at \in {"wait", "bind"} : StTo(d, at)
    BY <1>1 DEF take_over_standalone
  <2> QED
    BY <1>1, <2>1, StStepInv DEF take_over_standalone
<1>2. CASE wait_for_daemon_shutdown(d)
  <2>1. CASE StTo(d, "bind")
    BY <1>2, <2>1, StStepInv DEF wait_for_daemon_shutdown
  <2>2. CASE StTo(d, "failed")
    BY <1>2, <2>2, StStepInv DEF wait_for_daemon_shutdown
  <2>3. CASE UNCHANGED dpc
    BY <1>2, <2>3 DEF wait_for_daemon_shutdown, StInv, StTypeOK, StPortHeld
  <2> QED
    BY <1>2, <2>1, <2>2, <2>3 DEF wait_for_daemon_shutdown
<1>3. CASE run_standalone(d)
  BY <1>3, StStepInv DEF run_standalone
<1>4. CASE bind_socket(d)
  BY <1>4, StStepInv DEF bind_socket
<1>5. CASE write_pid_file(d)
  BY <1>5, StStepInv DEF write_pid_file
<1>6. CASE start_local_yjs_ws_server(d)
  <2>1. CASE portOf = 0
    BY <1>6, <2>1, StStepInv DEF start_local_yjs_ws_server
  <2>2. CASE portOf # 0
    <3>1. StFail(d)
      BY <1>6, <2>2 DEF start_local_yjs_ws_server
    <3>2. CASE portOf = d
      BY <3>1, <3>2, StStepInv DEF StFail
    <3>3. CASE portOf # d
      BY <3>1, <3>3, StStepInv DEF StFail
    <3> QED
      BY <3>2, <3>3
  <2> QED
    BY <2>1, <2>2
<1>7. CASE recover_state_from_crdt_store(d)
  BY <1>7, StStepInv DEF recover_state_from_crdt_store
<1>8. CASE serve_unix_until_shutdown(d)
  BY <1>8, StStepInv DEF serve_unix_until_shutdown
<1>9. CASE abort_yjs_ws(d)
  BY <1>0, <1>9, StStepInv DEF abort_yjs_ws
<1>10. CASE cleanup_paths(d)
  BY <1>10, StStepInv DEF cleanup_paths
<1>11. CASE process_exit(d)
  BY <1>11, StStepInv DEF process_exit
<1>12. CASE process_starts(d)
  BY <1>12, StStepInv DEF process_starts
<1>13. CASE user_stops(d)
  BY <1>13 DEF user_stops, StInv, StTypeOK, StPortHeld
<1>14. CASE process_killed(d)
  <2>1. portOf = d
    BY <1>0, <1>14 DEF process_killed
  <2> QED
    BY <1>14, <2>1, StStepInv DEF process_killed
<1> QED
  BY <1>1, <1>2, <1>3, <1>4, <1>5, <1>6, <1>7, <1>8, <1>9, <1>10, <1>11, <1>12, <1>13, <1>14
     DEF StOwn

\* One daemon has the port, so one at most recovers or serves.
LEMMA StInvOne == StInv => StOneServes
<1> SUFFICES ASSUME StInv PROVE StOneServes
  OBVIOUS
<1> DEFINE S == {d \in StDaemons : dpc[d] \in {"recover", "serve"}}
<1>1. S \subseteq {portOf}
  BY DEF StInv, StPortHeld
<1>2. IsFiniteSet({portOf}) /\ Cardinality({portOf}) = 1
  BY FS_Singleton
<1>3. Cardinality(S) <= 1
  <2> HIDE DEF S
  <2>1. IsFiniteSet(S) /\ Cardinality(S) <= Cardinality({portOf})
    BY <1>1, <1>2, FS_Subset
  <2> QED
    BY <1>2, <2>1
<1> QED
  BY <1>3 DEF StOneServes

-----------------------------------------------------------------------------
CliCall == [pc : {"start", "wait", "call", "sent", "done"}, attempt : 0..2, tries : Int,
            result : {"none", "ok", "error", "unavailable"}]
CliRequest == [call : CliCalls, attempt : 1..2, to : StDaemons,
               state : {"queued", "ran", "read", "lost"}]

CliTypeOK ==
    /\ cli \in [CliCalls -> CliCall]
    /\ requests \subseteq CliRequest
    /\ ranTimes \in [CliCalls -> Nat]
    /\ timeouts \in Nat

\* The attempts of a call, in order.
CliAttempts ==
    \A c \in CliCalls :
        /\ cli[c].pc \in {"start", "wait"} => cli[c].attempt = 0
        /\ cli[c].pc = "call" => cli[c].attempt < 2

\* Every request is of an attempt that was made, and no two are of the same.
CliOneRequest ==
    /\ \A r \in requests : r.attempt <= cli[r.call].attempt
    /\ \A r, q \in requests : r.call = q.call /\ r.attempt = q.attempt => r = q

\* 1 when the request of the attempt has left the backlog.
Taken(reqs, c, a) ==
    IF \E r \in reqs : r.call = c /\ r.attempt = a /\ r.state # "queued" THEN 1 ELSE 0

\* A request runs once, and one that has an answer has run.
CliCounted ==
    /\ \A c \in CliCalls : ranTimes[c] <= Taken(requests, c, 1) + Taken(requests, c, 2)
    /\ \A r \in requests : r.state \in {"ran", "read"} => ranTimes[r.call] >= 1
    /\ \A c \in CliCalls : cli[c].result = "ok" => ranTimes[c] >= 1

\* The first attempt is given up only when it was cut off or took too long.
CliRetried ==
    \A r \in requests :
        r.attempt = 1 /\ (cli[r.call].attempt = 2 \/ cli[r.call].pc = "call")
            => timeouts > 0 \/ r.state = "lost"

CliInv == StInv /\ CliTypeOK /\ CliAttempts /\ CliOneRequest /\ CliCounted /\ CliRetried

\* The tool has sent nothing at first.
LEMMA CliInitInv == CliInit => CliInv
<1> SUFFICES ASSUME CliInit PROVE CliInv
  OBVIOUS
<1>1. StInv
  BY StInitInv DEF CliInit
<1>2. CliTypeOK
  BY DEF CliInit, CliTypeOK, CliCall
<1>3. CliAttempts /\ CliOneRequest /\ CliCounted /\ CliRetried
  BY DEF CliInit, CliAttempts, CliOneRequest, CliCounted, CliRetried, Taken
<1> QED
  BY <1>1, <1>2, <1>3 DEF CliInv

\* What a call is told follows.
LEMMA CliInvTold == CliInv => CliRunsAsTold
<1> SUFFICES ASSUME CliInv, NEW c \in CliCalls
             PROVE  LET sent == {r \in requests : r.call = c}
                    IN /\ cli[c].result = "ok" => ranTimes[c] >= 1
                       /\ sent = {} => ranTimes[c] = 0
                       /\ ranTimes[c] <= 2
                       /\ ranTimes[c] = 2 => timeouts > 0 \/ \E r \in sent : r.attempt = 1 /\ r.state = "lost"
  BY DEF CliRunsAsTold
<1> DEFINE sent == {r \in requests : r.call = c}
           One == \E r \in requests : r.call = c /\ r.attempt = 1 /\ r.state # "queued"
           Two == \E r \in requests : r.call = c /\ r.attempt = 2 /\ r.state # "queued"
<1>1. ranTimes[c] \in Nat /\ timeouts \in Nat /\ cli[c].attempt \in 0..2
  BY DEF CliInv, CliTypeOK, CliCall
<1>2. ranTimes[c] <= (IF One THEN 1 ELSE 0) + (IF Two THEN 1 ELSE 0)
  BY DEF CliInv, CliCounted, Taken
<1>3. cli[c].result = "ok" => ranTimes[c] >= 1
  BY DEF CliInv, CliCounted
<1>4. sent = {} => ~One /\ ~Two
  OBVIOUS
<1>5. ASSUME One, Two PROVE timeouts > 0 \/ \E r \in sent : r.attempt = 1 /\ r.state = "lost"
  <2>1. PICK r \in requests : r.call = c /\ r.attempt = 1
    BY <1>5
  <2>2. cli[c].attempt = 2
    <3>1. PICK q \in requests : q.call = c /\ q.attempt = 2
      BY <1>5
    <3>2. q.attempt <= cli[q.call].attempt
      BY DEF CliInv, CliOneRequest
    <3> QED
      BY <1>1, <3>1, <3>2
  <2> QED
    BY <2>1, <2>2 DEF CliInv, CliRetried
<1> HIDE DEF One, Two, sent
<1>6. /\ sent = {} => ranTimes[c] = 0
      /\ ranTimes[c] <= 2
      /\ ranTimes[c] = 2 => One /\ Two
  BY <1>1, <1>2, <1>4
<1> QED
  BY <1>3, <1>5, <1>6 DEF sent

\* A step of one call that sends nothing: the attempts go up, success is not
\* reported, and the first attempt is only given up for a reason.
LEMMA CliMoves ==
    ASSUME CliInv, StInv', NEW c \in CliCalls, NEW v \in CliCall,
           cli' = [cli EXCEPT ![c] = v], UNCHANGED <<requests, ranTimes>>,
           timeouts' \in Nat, timeouts <= timeouts',
           cli[c].attempt <= v.attempt,
           v.pc \in {"start", "wait"} => v.attempt = 0,
           v.pc = "call" => v.attempt < 2,
           v.result = "ok" => cli[c].result = "ok",
           \A r \in requests : r.call = c /\ r.attempt = 1 /\ (v.attempt = 2 \/ v.pc = "call")
               => timeouts' > 0 \/ r.state = "lost"
    PROVE  CliInv'
<1>0. CliTypeOK /\ timeouts \in Nat
  BY DEF CliInv, CliTypeOK
<1>1. /\ cli'[c] = v
      /\ \A e \in CliCalls \ {c} : cli'[e] = cli[e]
  BY <1>0 DEF CliTypeOK
<1>2. CliTypeOK'
  BY <1>0 DEF CliTypeOK
<1>3. CliAttempts'
  BY <1>1 DEF CliInv, CliAttempts
<1>4. CliOneRequest'
  <2>1. ASSUME NEW r \in requests PROVE r.attempt <= cli'[r.call].attempt
    <3>1. /\ r.call \in CliCalls /\ r.attempt \in 1..2 /\ r.attempt <= cli[r.call].attempt
          /\ cli[c].attempt \in 0..2 /\ v.attempt \in 0..2
      BY <1>0 DEF CliInv, CliOneRequest, CliTypeOK, CliRequest, CliCall
    <3> QED
      BY <1>1, <3>1
  <2> QED
    BY <2>1 DEF CliInv, CliOneRequest
<1>5. CliCounted'
  BY <1>1 DEF CliInv, CliCounted
<1>6. CliRetried'
  <2> SUFFICES ASSUME NEW r \in requests, r.attempt = 1,
                      cli'[r.call].attempt = 2 \/ cli'[r.call].pc = "call"
               PROVE  timeouts' > 0 \/ r.state = "lost"
    BY DEF CliRetried
  <2>1. CASE r.call = c
    BY <1>1, <2>1
  <2>2. CASE r.call # c
    <3>1. r.call \in CliCalls
      BY <1>0 DEF CliTypeOK, CliRequest
    <3>2. timeouts > 0 \/ r.state = "lost"
      BY <1>1, <2>2, <3>1 DEF CliInv, CliRetried
    <3> QED
      BY <1>0, <3>2
  <2> QED
    BY <2>1, <2>2
<1> QED
  BY <1>2, <1>3, <1>4, <1>5, <1>6 DEF CliInv

\* A step of one request, and of its call: it leaves the backlog or is answered
\* or lost.
LEMMA RequestMoves ==
    ASSUME CliInv, UNCHANGED <<stVars, timeouts>>,
           NEW r \in requests, NEW s \in {"ran", "read", "lost"}, r.state # "lost", Becomes(r, s),
           NEW v \in CliCall, cli' = [cli EXCEPT ![r.call] = v],
           NEW n \in Nat, ranTimes' = [ranTimes EXCEPT ![r.call] = n],
           ranTimes[r.call] <= n,
           n <= ranTimes[r.call] + (IF r.state = "queued" THEN 1 ELSE 0),
           s \in {"ran", "read"} \/ v.result = "ok" => n >= 1,
           v.attempt = cli[r.call].attempt,
           v.pc \in {"start", "wait"} => v.attempt = 0,
           v.pc = "call" => v.attempt < 2,
           \A q \in requests : q.call = r.call /\ q.attempt = 1 /\ (v.attempt = 2 \/ v.pc = "call")
               => timeouts > 0 \/ q.state = "lost" \/ (q = r /\ s = "lost")
    PROVE  CliInv'
<1> DEFINE c == r.call
           p == [r EXCEPT !.state = s]
<1>0. CliTypeOK /\ c \in CliCalls /\ r \in CliRequest /\ ranTimes[c] \in Nat
  BY DEF CliInv, CliTypeOK, CliRequest
<1>1. /\ p \in CliRequest /\ p.call = c /\ p.attempt = r.attempt /\ p.state = s /\ s # "queued"
      /\ requests' = (requests \ {r}) \cup {p}
  BY <1>0 DEF CliRequest, Becomes
<1> HIDE DEF p
<1>2. /\ cli'[c] = v /\ ranTimes'[c] = n
      /\ \A e \in CliCalls \ {c} : cli'[e] = cli[e] /\ ranTimes'[e] = ranTimes[e]
  BY <1>0 DEF CliTypeOK
<1>3. StInv'
  BY DEF CliInv, StInv, StTypeOK, StPortHeld, stVars
<1>4. CliTypeOK'
  BY <1>0, <1>1 DEF CliTypeOK
<1>5. CliAttempts'
  BY <1>2 DEF CliInv, CliAttempts
<1>6. \A q \in requests : q.call \in CliCalls /\ q.attempt \in 1..2
  BY <1>0 DEF CliTypeOK, CliRequest
<1>7. CliOneRequest'
  <2>1. ASSUME NEW q \in requests' PROVE q.attempt <= cli'[q.call].attempt
    <3>1. cli'[q.call].attempt = cli[q.call].attempt
      BY <1>1, <1>2, <1>6
    <3>2. PICK o \in requests : q.call = o.call /\ q.attempt = o.attempt
      BY <1>1
    <3> QED
      BY <3>1, <3>2 DEF CliInv, CliOneRequest
  <2>2. ASSUME NEW q \in requests', NEW o \in requests', q.call = o.call, q.attempt = o.attempt
        PROVE  q = o
    <3>1. \A x, y \in requests : x.call = y.call /\ x.attempt = y.attempt => x = y
      BY DEF CliInv, CliOneRequest
    <3> QED
      BY <1>1, <2>2, <3>1
  <2> QED
    BY <2>1, <2>2 DEF CliOneRequest
<1>8. CliCounted'
  <2>1. ASSUME NEW e \in CliCalls
        PROVE  ranTimes'[e] <= Taken(requests', e, 1) + Taken(requests', e, 2)
    <3> DEFINE T(a) == Taken(requests, e, a)
               U(a) == Taken(requests', e, a)
    <3>1. \A a \in 1..2 : T(a) \in 0..1 /\ U(a) \in 0..1 /\ T(a) <= U(a)
      <4>1. \A a \in 1..2 : T(a) \in 0..1 /\ U(a) \in 0..1
        BY DEF Taken
      <4>2. ASSUME NEW a \in 1..2, NEW q \in requests, q.call = e, q.attempt = a, q.state # "queued"
            PROVE  \E o \in requests' : o.call = e /\ o.attempt = a /\ o.state # "queued"
        <5>1. CASE q = r
          BY <1>1, <4>2, <5>1
        <5>2. CASE q # r
          BY <1>1, <4>2, <5>2
        <5> QED
          BY <5>1, <5>2
      <4>3. \A a \in 1..2 : T(a) = 1 => U(a) = 1
        BY <4>2 DEF Taken
      <4> HIDE DEF T, U
      <4> QED
        BY <4>1, <4>3
    <3>2. ranTimes[e] <= T(1) + T(2) /\ ranTimes[e] \in Nat
      BY <1>0 DEF CliInv, CliCounted, CliTypeOK
    <3>3. CASE e # c \/ r.state # "queued"
      <4>1. ranTimes'[e] <= ranTimes[e] /\ ranTimes'[e] \in Nat
        BY <1>0, <1>2, <3>2, <3>3
      <4> HIDE DEF T, U
      <4>2. ranTimes'[e] <= U(1) + U(2)
        BY <3>1, <3>2, <4>1
      <4> QED
        BY <4>2 DEF U
    <3>4. CASE e = c /\ r.state = "queued"
      <4>1. T(r.attempt) = 0
        BY <3>4 DEF CliInv, CliOneRequest, Taken
      <4>2. U(r.attempt) = 1
        BY <1>1, <3>4 DEF Taken
      <4>3. ranTimes'[e] <= ranTimes[e] + 1 /\ ranTimes'[e] \in Nat /\ r.attempt \in 1..2
        BY <1>0, <1>2, <1>6, <3>4
      <4> HIDE DEF T, U
      <4>4. ranTimes'[e] <= U(1) + U(2)
        BY <3>1, <3>2, <4>1, <4>2, <4>3
      <4> QED
        BY <4>4 DEF U
    <3> QED
      BY <3>3, <3>4
  <2>2. ASSUME NEW q \in requests', q.state \in {"ran", "read"} PROVE ranTimes'[q.call] >= 1
    <3>1. CASE q = p
      BY <1>1, <1>2, <2>2, <3>1
    <3>2. CASE q \in requests
      <4>1. ranTimes[q.call] >= 1 /\ q.call \in CliCalls /\ ranTimes[q.call] \in Nat
        BY <1>0, <1>6, <2>2, <3>2 DEF CliInv, CliCounted, CliTypeOK
      <4> QED
        BY <1>2, <4>1
    <3> QED
      BY <1>1, <3>1, <3>2
  <2>3. ASSUME NEW e \in CliCalls, cli'[e].result = "ok" PROVE ranTimes'[e] >= 1
    BY <1>2, <2>3 DEF CliInv, CliCounted
  <2> QED
    BY <2>1, <2>2, <2>3 DEF CliCounted
<1>9. CliRetried'
  <2> SUFFICES ASSUME NEW q \in requests', q.attempt = 1,
                      cli'[q.call].attempt = 2 \/ cli'[q.call].pc = "call"
               PROVE  timeouts > 0 \/ q.state = "lost"
    BY DEF CliRetried
  <2>1. CASE q = p
    <3>1. timeouts > 0 \/ r.state = "lost" \/ s = "lost"
      BY <1>1, <1>2, <2>1
    <3> QED
      BY <1>1, <2>1, <3>1
  <2>2. CASE q \in requests /\ q # r /\ q.call = c
    BY <1>2, <2>2
  <2>3. CASE q \in requests /\ q.call # c
    BY <1>2, <1>6, <2>3 DEF CliInv, CliRetried
  <2> QED
    BY <1>1, <2>1, <2>2, <2>3
<1> QED
  BY <1>3, <1>4, <1>5, <1>7, <1>8, <1>9 DEF CliInv

\* The values the steps of a call give it.
LEMMA CliSets ==
    ASSUME CliTypeOK, NEW c \in CliCalls
    PROVE  /\ \A p : CliTo(c, p) => cli' = [cli EXCEPT ![c] = [cli[c] EXCEPT !.pc = p]]
           /\ \A z : CliEnds(c, z) =>
                  cli' = [cli EXCEPT ![c] = [cli[c] EXCEPT !.pc = "done", !.result = z]]
BY DEF CliTo, CliEnds, CliTypeOK, CliCall

\* The tool starts a daemon, or finds one, or gives up.
LEMMA EnsureInv ==
    ASSUME CliInv, NEW c \in CliCalls, ensure_daemon_running(c)
    PROVE  CliInv'
<1>0. /\ CliTypeOK /\ cli[c] \in CliCall /\ cli[c].pc = "start" /\ cli[c].attempt = 0
      /\ timeouts \in Nat /\ UNCHANGED <<requests, ranTimes, timeouts>>
  BY DEF CliInv, CliTypeOK, CliAttempts, ensure_daemon_running
<1>1. StInv'
  <2>1. CASE UNCHANGED dpc
    BY <2>1 DEF ensure_daemon_running, CliInv, StInv, StTypeOK, StPortHeld
  <2>2. ASSUME NEW d \in Standalone, dpc[d] = "off", dpc' = [dpc EXCEPT ![d] = "start"] PROVE StInv'
    <3>1. UNCHANGED <<listening, portOf>> /\ d \in StDaemons
      BY DEF ensure_daemon_running, StDaemons
    <3> QED
      BY <2>2, <3>1, StStepInv DEF CliInv, StTo, StPoints
  <2> QED
    BY <2>1, <2>2 DEF ensure_daemon_running
<1>2. \A r \in requests : r.call # c
  BY <1>0 DEF CliInv, CliOneRequest, CliTypeOK, CliRequest
<1>3. ASSUME NEW v \in CliCall, v.attempt = 0, v.result \in {cli[c].result, "error"},
             cli' = [cli EXCEPT ![c] = v]
      PROVE  CliInv'
  <2>1. /\ timeouts' \in Nat /\ timeouts <= timeouts' /\ cli[c].attempt <= v.attempt
        /\ v.pc = "call" => v.attempt < 2
        /\ v.result = "ok" => cli[c].result = "ok"
    BY <1>0, <1>3
  <2> QED
    BY <1>0, <1>1, <1>2, <1>3, <2>1, CliMoves
<1>4. CASE CliTo(c, "call")
  <2> DEFINE v == [cli[c] EXCEPT !.pc = "call"]
  <2>1. v \in CliCall /\ v.attempt = 0 /\ v.result = cli[c].result /\ cli' = [cli EXCEPT ![c] = v]
    BY <1>0, <1>4, CliSets DEF CliCall
  <2> QED
    BY <1>3, <2>1
<1>5. CASE CliEnds(c, "error")
  <2> DEFINE v == [cli[c] EXCEPT !.pc = "done", !.result = "error"]
  <2>1. v \in CliCall /\ v.attempt = 0 /\ v.result = "error" /\ cli' = [cli EXCEPT ![c] = v]
    BY <1>0, <1>5, CliSets DEF CliCall
  <2> QED
    BY <1>3, <2>1
<1>6. CASE cli' = [cli EXCEPT ![c].pc = "wait", ![c].tries = CONNECT_RETRIES]
  <2> DEFINE v == [cli[c] EXCEPT !.pc = "wait", !.tries = CONNECT_RETRIES]
  <2>1. v \in CliCall /\ v.attempt = 0 /\ v.result = cli[c].result
    <3>1. v = [pc |-> "wait", attempt |-> 0, tries |-> CONNECT_RETRIES, result |-> cli[c].result]
      <4> DEFINE y == [cli[c] EXCEPT !.pc = "wait"]
      <4>1. y = [pc |-> "wait", attempt |-> 0, tries |-> cli[c].tries, result |-> cli[c].result]
        BY <1>0 DEF CliCall
      <4>2. v = [y EXCEPT !.tries = CONNECT_RETRIES]
        OBVIOUS
      <4> HIDE DEF y, v
      <4>3. [y EXCEPT !.tries = CONNECT_RETRIES] = [pc |-> "wait", attempt |-> 0, tries |-> CONNECT_RETRIES,
                                              result |-> cli[c].result]
        BY <4>1
      <4> QED
        BY <4>2, <4>3
    <3> HIDE DEF v
    <3> QED
      BY <1>0, <3>1, CliRetriesNat DEF CliCall
  <2>2. cli' = [cli EXCEPT ![c] = v]
    BY <1>0, <1>6 DEF CliTypeOK, CliCall
  <2> QED
    BY <1>3, <2>1, <2>2
<1> QED
  BY <1>4, <1>5, <1>6 DEF ensure_daemon_running

\* The tool waits for the socket of the daemon it started.
LEMMA WaitSocketInv ==
    ASSUME CliInv, NEW c \in CliCalls, wait_for_daemon_socket(c)
    PROVE  CliInv'
<1>0. /\ CliTypeOK /\ cli[c] \in CliCall /\ cli[c].pc = "wait" /\ cli[c].attempt = 0
      /\ timeouts \in Nat /\ UNCHANGED <<stVars, requests, ranTimes, timeouts>>
  BY DEF CliInv, CliTypeOK, CliAttempts, wait_for_daemon_socket
<1>1. StInv'
  BY <1>0 DEF CliInv, StInv, StTypeOK, StPortHeld, stVars
<1>2. \A r \in requests : r.call # c
  BY <1>0 DEF CliInv, CliOneRequest, CliTypeOK, CliRequest
<1>3. ASSUME NEW v \in CliCall, v.attempt = 0, v.result \in {cli[c].result, "error"},
             cli' = [cli EXCEPT ![c] = v]
      PROVE  CliInv'
  <2>1. /\ timeouts' \in Nat /\ timeouts <= timeouts' /\ cli[c].attempt <= v.attempt
        /\ v.pc = "call" => v.attempt < 2
        /\ v.result = "ok" => cli[c].result = "ok"
    BY <1>0, <1>3
  <2> QED
    BY <1>0, <1>1, <1>2, <1>3, <2>1, CliMoves
<1>4. CASE CliTo(c, "call")
  <2> DEFINE v == [cli[c] EXCEPT !.pc = "call"]
  <2>1. v \in CliCall /\ v.attempt = 0 /\ v.result = cli[c].result /\ cli' = [cli EXCEPT ![c] = v]
    BY <1>0, <1>4, CliSets DEF CliCall
  <2> QED
    BY <1>3, <2>1
<1>5. CASE CliEnds(c, "error")
  <2> DEFINE v == [cli[c] EXCEPT !.pc = "done", !.result = "error"]
  <2>1. v \in CliCall /\ v.attempt = 0 /\ v.result = "error" /\ cli' = [cli EXCEPT ![c] = v]
    BY <1>0, <1>5, CliSets DEF CliCall
  <2> QED
    BY <1>3, <2>1
<1>6. CASE cli' = [cli EXCEPT ![c].tries = @ - 1]
  <2> DEFINE v == [cli[c] EXCEPT !.tries = @ - 1]
  <2>1. v \in CliCall /\ v.attempt = 0 /\ v.result = cli[c].result
    BY <1>0 DEF CliCall
  <2>2. cli' = [cli EXCEPT ![c] = v]
    BY <1>0, <1>6 DEF CliTypeOK, CliCall
  <2> QED
    BY <1>3, <2>1, <2>2
<1> QED
  BY <1>4, <1>5, <1>6 DEF wait_for_daemon_socket

\* An attempt: the request is the only one of its attempt, for no earlier
\* request of the call is of so late an attempt.
LEMMA CallOnceInv ==
    ASSUME CliInv, NEW c \in CliCalls, call_once(c)
    PROVE  CliInv'
<1> DEFINE a == cli[c].attempt + 1
<1>0. /\ CliTypeOK /\ cli[c] \in CliCall /\ cli[c].pc = "call" /\ cli[c].attempt \in 0..1 /\ a \in 1..2
      /\ timeouts \in Nat /\ UNCHANGED <<stVars, ranTimes, timeouts>>
  <2>1. cli[c].attempt \in 0..2 /\ cli[c].attempt < 2
    BY DEF CliInv, CliTypeOK, CliCall, CliAttempts, call_once
  <2> QED
    BY <2>1 DEF CliInv, CliTypeOK, call_once
<1>1. StInv'
  BY <1>0 DEF CliInv, StInv, StTypeOK, StPortHeld, stVars
<1>2. \A r \in requests : r.call \in CliCalls /\ r.attempt \in 1..2
  BY <1>0 DEF CliTypeOK, CliRequest
<1>3. \A r \in requests : r.call = c => r.attempt < a
  BY <1>0, <1>2 DEF CliInv, CliOneRequest
<1>4. \A r \in requests : r.call = c /\ r.attempt = 1 => timeouts > 0 \/ r.state = "lost"
  BY <1>0 DEF CliInv, CliRetried
<1>5. CASE ~is_daemon_running
  <2>0. UNCHANGED requests
    BY <1>5 DEF call_once
  <2>1. ASSUME NEW v \in CliCall, v.attempt = a, v.result \in {cli[c].result, "unavailable"},
               v.pc \in {"call", "done"}, v.pc = "call" => a = 1, cli' = [cli EXCEPT ![c] = v]
        PROVE  CliInv'
    <3>1. /\ timeouts' \in Nat /\ timeouts <= timeouts' /\ cli[c].attempt <= v.attempt
          /\ v.pc = "call" => v.attempt < 2
          /\ v.result = "ok" => cli[c].result = "ok"
      BY <1>0, <2>1
    <3>2. timeouts' = timeouts
      BY <1>0
    <3> QED
      BY <1>0, <1>1, <1>4, <2>0, <2>1, <3>1, <3>2, CliMoves
  <2>2. CASE a = 1
    <3> DEFINE v == [cli[c] EXCEPT !.attempt = 1]
    <3>1. v \in CliCall /\ v.attempt = a /\ v.result = cli[c].result /\ v.pc = "call"
      BY <1>0, <2>2 DEF CliCall
    <3>2. cli' = [cli EXCEPT ![c] = v]
      BY <1>0, <1>5, <2>2 DEF call_once, CliTypeOK, CliCall
    <3> HIDE DEF v
    <3> QED
      BY <2>1, <2>2, <3>1, <3>2
  <2>3. CASE a = 2
    <3> DEFINE v == [cli[c] EXCEPT !.attempt = 2, !.pc = "done", !.result = "unavailable"]
    <3>1. v \in CliCall /\ v.attempt = a /\ v.result = "unavailable" /\ v.pc = "done"
      <4>1. v = [pc |-> "done", attempt |-> 2, tries |-> cli[c].tries, result |-> "unavailable"]
        <5> DEFINE y == [cli[c] EXCEPT !.attempt = 2]
                   w == [y EXCEPT !.pc = "done"]
        <5>1. y = [pc |-> "call", attempt |-> 2, tries |-> cli[c].tries, result |-> cli[c].result]
          BY <1>0 DEF CliCall
        <5>2. v = [w EXCEPT !.result = "unavailable"]
          OBVIOUS
        <5> HIDE DEF y, v
        <5>3. w = [pc |-> "done", attempt |-> 2, tries |-> cli[c].tries, result |-> cli[c].result]
          BY <5>1
        <5> HIDE DEF w
        <5> QED
          BY <5>2, <5>3
      <4> HIDE DEF v
      <4> QED
        BY <1>0, <2>3, <4>1 DEF CliCall
    <3>2. cli' = [cli EXCEPT ![c] = v]
      BY <1>0, <1>5, <2>3 DEF call_once, CliTypeOK, CliCall
    <3> HIDE DEF v
    <3> QED
      BY <2>1, <2>3, <3>1, <3>2
  <2> QED
    BY <1>0, <2>2, <2>3
<1>6. CASE is_daemon_running
  <2> DEFINE p == [call |-> c, attempt |-> a, to |-> socketOf, state |-> "queued"]
             v == [cli[c] EXCEPT !.pc = "sent", !.attempt = a]
  <2>1. requests' = requests \cup {p}
    BY <1>6 DEF call_once
  <2>2. cli' = [cli EXCEPT ![c] = v]
    BY <1>0, <1>6 DEF call_once, CliTypeOK, CliCall
  <2>3. v \in CliCall /\ v.attempt = a /\ v.result = cli[c].result /\ v.pc = "sent"
    <3>1. v = [pc |-> "sent", attempt |-> a, tries |-> cli[c].tries, result |-> cli[c].result]
      <4> DEFINE y == [cli[c] EXCEPT !.pc = "sent"]
      <4>1. y = [pc |-> "sent", attempt |-> cli[c].attempt, tries |-> cli[c].tries,
                result |-> cli[c].result]
        BY <1>0 DEF CliCall
      <4>2. v = [y EXCEPT !.attempt = a]
        OBVIOUS
      <4> HIDE DEF y, v
      <4>3. [y EXCEPT !.attempt = a] = [pc |-> "sent", attempt |-> a, tries |-> cli[c].tries,
                                          result |-> cli[c].result]
        BY <4>1
      <4> QED
        BY <4>2, <4>3
    <3> HIDE DEF v, a
    <3> QED
      BY <1>0, <3>1 DEF CliCall
  <2>4. p \in CliRequest /\ p.call = c /\ p.attempt = a /\ p.state = "queued"
    <3>1. socketOf \in StDaemons
      BY <1>6 DEF is_daemon_running, CliInv, StInv, StTypeOK
    <3> QED
      BY <1>0, <3>1 DEF CliRequest
  <2> HIDE DEF p, v, a
  <2>5. cli'[c] = v /\ \A e \in CliCalls \ {c} : cli'[e] = cli[e]
    BY <1>0, <2>2 DEF CliTypeOK
  <2>6. CliTypeOK'
    BY <1>0, <2>1, <2>2, <2>3, <2>4 DEF CliTypeOK
  <2>7. CliAttempts'
    BY <2>3, <2>5 DEF CliInv, CliAttempts
  <2>8. CliOneRequest'
    <3>1. \A r, q \in requests' : r.call = q.call /\ r.attempt = q.attempt => r = q
      <4>1. \A r \in requests : ~(r.call = c /\ r.attempt = a)
        BY <1>0, <1>2, <1>3
      <4> QED
        BY <2>1, <2>4, <4>1 DEF CliInv, CliOneRequest
    <3>2. ASSUME NEW r \in requests' PROVE r.attempt <= cli'[r.call].attempt
      <4>1. CASE r = p
        BY <1>0, <2>3, <2>4, <2>5, <4>1
      <4>2. CASE r \in requests /\ r.call = c
        BY <1>0, <1>2, <1>3, <2>3, <2>5, <4>2
      <4>3. CASE r \in requests /\ r.call # c
        BY <1>2, <2>5, <4>3 DEF CliInv, CliOneRequest
      <4> QED
        BY <2>1, <4>1, <4>2, <4>3
    <3> QED
      BY <3>1, <3>2 DEF CliOneRequest
  <2>9. CliCounted'
    <3>1. \A e \in CliCalls, n \in 1..2 : Taken(requests', e, n) = Taken(requests, e, n)
      BY <2>1, <2>4 DEF Taken
    <3>2. \A r \in requests' : r.state \in {"ran", "read"} => ranTimes'[r.call] >= 1
      BY <1>0, <2>1, <2>4 DEF CliInv, CliCounted
    <3>3. \A e \in CliCalls : cli'[e].result = "ok" => ranTimes'[e] >= 1
      BY <1>0, <2>3, <2>5 DEF CliInv, CliCounted
    <3> QED
      BY <1>0, <3>1, <3>2, <3>3 DEF CliInv, CliCounted
  <2>10. CliRetried'
    <3> SUFFICES ASSUME NEW r \in requests', r.attempt = 1,
                        cli'[r.call].attempt = 2 \/ cli'[r.call].pc = "call"
                 PROVE  timeouts > 0 \/ r.state = "lost"
      BY <1>0 DEF CliRetried
    <3>1. CASE r = p
      BY <2>3, <2>4, <2>5, <3>1
    <3>2. CASE r \in requests /\ r.call = c
      BY <1>4, <3>2
    <3>3. CASE r \in requests /\ r.call # c
      BY <1>2, <2>5, <3>3 DEF CliInv, CliRetried
    <3> QED
      BY <2>1, <3>1, <3>2, <3>3
  <2> QED
    BY <1>1, <2>6, <2>7, <2>8, <2>9, <2>10 DEF CliInv
<1> QED
  BY <1>5, <1>6

\* What a failed attempt leads to.
LEMMA AttemptFailsSets ==
    ASSUME CliTypeOK, NEW c \in CliCalls, cli[c].pc = "sent", AttemptFails(c, "error")
    PROVE  \E v \in CliCall :
              /\ cli' = [cli EXCEPT ![c] = v] /\ v.attempt = cli[c].attempt
              /\ v.result \in {cli[c].result, "error"} /\ v.pc \in {"call", "done"}
              /\ v.pc = "call" => v.attempt = 1
<1>0. cli[c] \in CliCall
  BY DEF CliTypeOK
<1>1. CASE cli[c].attempt = 1
  <2> DEFINE v == [cli[c] EXCEPT !.pc = "call"]
  <2>1. v \in CliCall /\ v.attempt = 1 /\ v.result = cli[c].result /\ v.pc = "call"
    BY <1>0, <1>1 DEF CliCall
  <2>2. cli' = [cli EXCEPT ![c] = v]
    BY <1>1, CliSets DEF AttemptFails
  <2> HIDE DEF v
  <2> QED
    BY <1>1, <2>1, <2>2
<1>2. CASE cli[c].attempt # 1
  <2> DEFINE v == [cli[c] EXCEPT !.pc = "done", !.result = "error"]
  <2>1. v \in CliCall /\ v.attempt = cli[c].attempt /\ v.result = "error" /\ v.pc = "done"
    BY <1>0 DEF CliCall
  <2>2. cli' = [cli EXCEPT ![c] = v]
    BY <1>2, CliSets DEF AttemptFails
  <2> HIDE DEF v
  <2> QED
    BY <2>1, <2>2
<1> QED
  BY <1>1, <1>2

\* An attempt takes too long.
LEMMA TimesOutInv ==
    ASSUME CliInv, NEW c \in CliCalls, call_times_out(c)
    PROVE  CliInv'
<1>0. /\ CliTypeOK /\ cli[c] \in CliCall /\ cli[c].attempt \in 0..2
      /\ timeouts \in Nat /\ timeouts' = timeouts + 1
      /\ UNCHANGED <<stVars, requests, ranTimes>>
  BY DEF CliInv, CliTypeOK, CliCall, call_times_out
<1>1. StInv'
  BY <1>0 DEF CliInv, StInv, StTypeOK, StPortHeld, stVars
<1>2. PICK v \in CliCall :
              /\ cli' = [cli EXCEPT ![c] = v] /\ v.attempt = cli[c].attempt
              /\ v.result \in {cli[c].result, "error"} /\ v.pc \in {"call", "done"}
              /\ v.pc = "call" => v.attempt = 1
  BY <1>0, AttemptFailsSets DEF call_times_out
<1>3. /\ timeouts' \in Nat /\ timeouts <= timeouts' /\ timeouts' > 0
      /\ cli[c].attempt <= v.attempt
      /\ v.pc = "call" => v.attempt < 2
      /\ v.result = "ok" => cli[c].result = "ok"
  BY <1>0, <1>2
<1> QED
  BY <1>0, <1>1, <1>2, <1>3, CliMoves

\* A daemon runs a request and answers.
LEMMA ServeConnectionInv ==
    ASSUME CliInv, NEW r \in requests, serve_connection(r)
    PROVE  CliInv'
<1> DEFINE c == r.call
           v == cli[c]
           n == ranTimes[c] + 1
<1>0. /\ c \in CliCalls /\ v \in CliCall /\ ranTimes[c] \in Nat /\ CliTypeOK
      /\ v.attempt \in 0..2
  BY DEF CliInv, CliTypeOK, CliRequest, CliCall
<1>1. /\ UNCHANGED <<stVars, timeouts>> /\ r.state = "queued" /\ Becomes(r, "ran")
      /\ ranTimes' = [ranTimes EXCEPT ![r.call] = n] /\ cli' = cli
  BY DEF serve_connection
<1>2. cli' = [cli EXCEPT ![c] = v]
  BY <1>0, <1>1 DEF CliTypeOK
<1>3. /\ v.pc \in {"start", "wait"} => v.attempt = 0
      /\ v.pc = "call" => v.attempt < 2
  BY <1>0 DEF CliInv, CliAttempts
<1>4. /\ n \in Nat /\ ranTimes[c] <= n /\ n >= 1
      /\ n <= ranTimes[c] + (IF r.state = "queued" THEN 1 ELSE 0)
  BY <1>0, <1>1
<1>5. \A q \in requests : q.call = c /\ q.attempt = 1 /\ (v.attempt = 2 \/ v.pc = "call")
               => timeouts > 0 \/ q.state = "lost"
  BY DEF CliInv, CliRetried
<1> HIDE DEF n, v
<1>6. v.attempt = cli[c].attempt
  BY DEF v
<1> QED
  BY <1>0, <1>1, <1>2, <1>3, <1>4, <1>5, <1>6, RequestMoves

\* The tool reads the answer of the attempt it waits for.
LEMMA ReadResponseInv ==
    ASSUME CliInv, NEW r \in requests, read_response(r)
    PROVE  CliInv'
<1> DEFINE c == r.call
           v == [cli[c] EXCEPT !.pc = "done", !.result = "ok"]
           n == ranTimes[c]
<1>0. /\ c \in CliCalls /\ cli[c] \in CliCall /\ n \in Nat /\ CliTypeOK
  BY DEF CliInv, CliTypeOK, CliRequest
<1>1. /\ UNCHANGED <<stVars, timeouts>> /\ r.state = "ran" /\ Becomes(r, "read")
      /\ ranTimes' = ranTimes
  BY DEF read_response
<1>2. cli' = [cli EXCEPT ![c] = v] /\ ranTimes' = [ranTimes EXCEPT ![c] = n]
  <2>1. CliEnds(c, "ok")
    BY DEF read_response
  <2> QED
    BY <1>0, <1>1, <2>1, CliSets DEF CliTypeOK
<1>3. v \in CliCall /\ v.pc = "done" /\ v.attempt = cli[c].attempt
  BY <1>0 DEF CliCall
<1>4. n >= 1
  BY <1>1 DEF CliInv, CliCounted
<1> HIDE DEF v
<1>5. \A q \in requests : q.call = c /\ q.attempt = 1 /\ (v.attempt = 2 \/ v.pc = "call")
               => timeouts > 0 \/ q.state = "lost"
  BY <1>3 DEF CliInv, CliRetried
<1> HIDE DEF n
<1>6. ranTimes[c] <= n /\ n <= ranTimes[c] + (IF r.state = "queued" THEN 1 ELSE 0)
  BY <1>0, <1>1 DEF n
<1> QED
  BY <1>0, <1>1, <1>2, <1>3, <1>4, <1>5, <1>6, RequestMoves

\* A connection is cut.
LEMMA ConnectionResetInv ==
    ASSUME CliInv, NEW r \in requests, connection_reset(r)
    PROVE  CliInv'
<1> DEFINE c == r.call
           n == ranTimes[c]
<1>0. /\ c \in CliCalls /\ cli[c] \in CliCall /\ n \in Nat /\ CliTypeOK
      /\ cli[c].attempt \in 0..2 /\ r.attempt \in 1..2
  BY DEF CliInv, CliTypeOK, CliRequest, CliCall
<1>1. /\ UNCHANGED <<stVars, timeouts>> /\ r.state \in {"queued", "ran"} /\ Becomes(r, "lost")
      /\ ranTimes' = ranTimes
  BY DEF connection_reset
<1>2. ranTimes' = [ranTimes EXCEPT ![c] = n]
  BY <1>0, <1>1 DEF CliTypeOK
<1>3. cli[c].result = "ok" => n >= 1
  BY <1>0 DEF CliInv, CliCounted
<1>4. \E v \in CliCall :
         /\ cli' = [cli EXCEPT ![c] = v] /\ v.attempt = cli[c].attempt
         /\ v.result \in {cli[c].result, "error"}
         /\ v.pc \in {"start", "wait"} => v.attempt = 0
         /\ v.pc = "call" => v.attempt < 2
         /\ \A q \in requests : q.call = c /\ q.attempt = 1 /\ (v.attempt = 2 \/ v.pc = "call")
               => timeouts > 0 \/ q.state = "lost" \/ q = r
  <2>0. \A q \in requests : q.call = c /\ q.attempt = 1 /\ (cli[c].attempt = 2 \/ cli[c].pc = "call")
               => timeouts > 0 \/ q.state = "lost"
    BY DEF CliInv, CliRetried
  <2>1. CASE cli[c].pc = "sent" /\ cli[c].attempt = r.attempt
    <3>1. PICK v \in CliCall :
              /\ cli' = [cli EXCEPT ![c] = v] /\ v.attempt = cli[c].attempt
              /\ v.result \in {cli[c].result, "error"} /\ v.pc \in {"call", "done"}
              /\ v.pc = "call" => v.attempt = 1
      BY <1>0, <2>1, AttemptFailsSets DEF connection_reset
    <3>2. ASSUME v.pc = "call", NEW q \in requests, q.call = c, q.attempt = 1 PROVE q = r
      BY <2>1, <3>1, <3>2 DEF CliInv, CliOneRequest
    <3>3. ASSUME NEW q \in requests, q.call = c, q.attempt = 1, v.attempt = 2 \/ v.pc = "call"
          PROVE  timeouts > 0 \/ q.state = "lost" \/ q = r
      BY <2>0, <3>1, <3>2, <3>3
    <3>4. v.pc = "call" => v.attempt < 2
      BY <3>1
    <3> QED
      BY <3>1, <3>3, <3>4
  <2>2. CASE ~(cli[c].pc = "sent" /\ cli[c].attempt = r.attempt)
    <3>1. cli' = [cli EXCEPT ![c] = cli[c]]
      BY <1>0, <2>2 DEF connection_reset, CliTypeOK
    <3>2. /\ cli[c].pc \in {"start", "wait"} => cli[c].attempt = 0
          /\ cli[c].pc = "call" => cli[c].attempt < 2
      BY <1>0 DEF CliInv, CliAttempts
    <3> QED
      BY <1>0, <2>0, <3>1, <3>2
  <2> QED
    BY <2>1, <2>2
<1>5. PICK v \in CliCall :
         /\ cli' = [cli EXCEPT ![c] = v] /\ v.attempt = cli[c].attempt
         /\ v.result \in {cli[c].result, "error"}
         /\ v.pc \in {"start", "wait"} => v.attempt = 0
         /\ v.pc = "call" => v.attempt < 2
         /\ \A q \in requests : q.call = c /\ q.attempt = 1 /\ (v.attempt = 2 \/ v.pc = "call")
               => timeouts > 0 \/ q.state = "lost" \/ q = r
  BY <1>4
<1> HIDE DEF n
<1>6. ranTimes[c] <= n /\ n <= ranTimes[c] + (IF r.state = "queued" THEN 1 ELSE 0)
  BY <1>0, <1>1 DEF n
<1> QED
  BY <1>0, <1>1, <1>2, <1>3, <1>5, <1>6, RequestMoves

\* Every step of a daemon, a call or a request preserves CliInv.
LEMMA CliNextInv == CliInv /\ [CliNext]_<<stVars, cliVars>> => CliInv'
<1> SUFFICES ASSUME CliInv, [CliNext]_<<stVars, cliVars>> PROVE CliInv'
  OBVIOUS
<1>1. CASE StInv' /\ UNCHANGED cliVars
  BY <1>1 DEF CliInv, CliTypeOK, CliAttempts, CliOneRequest, CliCounted, CliRetried, cliVars
<1>2. CASE StNext /\ UNCHANGED cliVars
  BY <1>1, <1>2, StNextInv DEF CliInv
<1>3. CASE UNCHANGED <<stVars, cliVars>>
  <2>1. StInv'
    BY <1>3 DEF CliInv, StInv, StTypeOK, StPortHeld, stVars
  <2> QED
    BY <1>1, <1>3, <2>1
<1>4. ASSUME NEW c \in CliCalls, CliOwn(c) \/ call_times_out(c) PROVE CliInv'
  BY <1>4, EnsureInv, WaitSocketInv, CallOnceInv, TimesOutInv DEF CliOwn
<1>5. ASSUME NEW r \in requests, serve_connection(r) \/ read_response(r) \/ connection_reset(r)
      PROVE  CliInv'
  BY <1>5, ServeConnectionInv, ReadResponseInv, ConnectionResetInv
<1> QED
  BY <1>2, <1>3, <1>4, <1>5 DEF CliNext

\* For any number of daemons, of calls and of retries: one daemon at most
\* recovers or serves while daemons start, take over, stop and are killed;
\* and a call of the tool ran when it reports success, did not when no
\* request was sent, and ran twice only if its first attempt was cut off or
\* timed out.
THEOREM CliServedHolds == CliSpec => []CliServed
<1>1. CliInv => CliServed
  BY CliInvTold, StInvOne DEF CliInv, CliServed
<1> QED
  BY <1>1, CliInitInv, CliNextInv, PTL DEF CliSpec

-----------------------------------------------------------------------------
(* The documents of a workspace.  Numbers are given out once whatever runs *)
(* beside; what the history, the index and the links say holds while calls *)
(* come one after the other, and the invariant follows the one call that   *)
(* is under way: r is its request, LibIdle when there is none.             *)

LibAnyPath == LibPaths \cup LibRenames \cup {""} \cup (UNION LibLinks)
LibText == [edits : SUBSET Nat, links : SUBSET LibAnyPath]
LibResolve == {<<>>} \cup UNION {[D -> LibAnyPath] : D \in SUBSET LibDocs}
LibPoints == {"idle", "create", "create_file", "create_index", "create_doc", "create_meta",
              "record", "edit", "edit_before", "edit_apply", "edit_meta", "refresh", "sources",
              "rewrite", "answer", "read", "read_text", "sections", "sections_head"}
LibRequest ==
    [at : LibPoints, op : {"none", "create", "edit", "read", "sections"}, doc : LibDocs \cup {0},
     path : LibAnyPath, links : SUBSET LibAnyPath, call : Nat, seq : Nat, text : LibText,
     old : LibAnyPath, todo : SUBSET LibDocs, resolve : LibResolve]

LibTypeOK ==
    /\ meta \in [DOMAIN meta -> [path : LibAnyPath, seq : Nat]]
    /\ text \in [DOMAIN text -> LibText]
    /\ DOMAIN meta \subseteq DOMAIN text /\ DOMAIN text \subseteq LibDocs
    /\ docHistory \in [DOMAIN docHistory -> LibText]
    /\ index \in [DOMAIN index -> LibText]
    /\ backlinks \in [DOMAIN backlinks -> SUBSET LibDocs] /\ DOMAIN backlinks \subseteq LibDocs
    /\ libReq \in [LibClients -> LibRequest]
    /\ answered \subseteq [doc : LibDocs, seq : Nat, call : Nat]
    /\ together \in BOOLEAN
    /\ unmoved \subseteq LibDocs
    /\ libCount \in Nat

\* Where a request is: making a document, on one that is there, past its
\* number, past recording it.
LibMaking(r) == r.at \in {"create_index", "create_doc", "create_meta"}
LibOnDoc(r) == r.at \in {"record", "edit", "edit_before", "edit_apply", "edit_meta", "refresh",
                         "sources", "rewrite", "answer", "read", "read_text", "sections",
                         "sections_head"}
LibRecorded(r) == r.at \in {"refresh", "sources", "rewrite", "answer"}
LibNumbered(r) == LibRecorded(r) \/ (r.at = "record" /\ r.op = "edit")

\* Where a request is, and the document it is about.
LibOwn(r) ==
    /\ r.at = "idle" => r = LibIdle
    /\ r.at \in {"create", "create_file"} => r.doc = 0
    /\ LibMaking(r) => r.doc \in LibDocs \ DOMAIN meta
    /\ r.at \in {"create_index", "create_doc"} => r.doc \notin DOMAIN text
    /\ r.at = "create_meta" => r.doc \in DOMAIN text
    /\ LibOnDoc(r) => r.doc \in DOMAIN meta
    /\ LibMaking(r) \/ r.at \in {"create", "create_file"} => r.op = "create"
    /\ LibRecorded(r) \/ r.at \in {"edit", "edit_before", "edit_apply", "edit_meta"} => r.op = "edit"
    /\ r.at = "record" => r.op \in {"create", "edit"}

\* A new document has one request until it is known.
LibShape ==
    /\ \A c \in LibClients : LibOwn(libReq[c])
    /\ \A c, e \in LibClients : c # e /\ LibMaking(libReq[c]) => libReq[e].doc # libReq[c].doc

\* The numbers given out, and those on their way.
LibNumbers ==
    /\ \A x \in answered : /\ x.doc \in DOMAIN meta /\ x.seq <= meta[x.doc].seq
                           /\ <<x.doc, x.seq>> \in DOMAIN docHistory
    /\ \A x, y \in answered : x.doc = y.doc /\ x.seq = y.seq => x.call = y.call
    /\ \A c \in LibClients : LibNumbered(libReq[c]) =>
          /\ libReq[c].seq <= meta[libReq[c].doc].seq
          /\ \A x \in answered : ~(x.doc = libReq[c].doc /\ x.seq = libReq[c].seq)
          /\ \A e \in LibClients \ {c} : LibNumbered(libReq[e]) =>
                ~(libReq[e].doc = libReq[c].doc /\ libReq[e].seq = libReq[c].seq)
    /\ \A c \in LibClients : LibRecorded(libReq[c]) =>
          <<libReq[c].doc, libReq[c].seq>> \in DOMAIN docHistory

\* What is recorded of a document is of numbers up to its last, has no edit
\* its text has not, and grows with the number.
SoloHistory ==
    /\ \A k \in DOMAIN docHistory :
          /\ k \in (DOMAIN meta) \X Nat /\ k[2] <= meta[k[1]].seq
          /\ docHistory[k].edits \subseteq text[k[1]].edits
    /\ \A k, l \in DOMAIN docHistory :
          k[1] = l[1] /\ k[2] <= l[2] => docHistory[k].edits \subseteq docHistory[l].edits
    /\ \A x \in answered : x.call \in docHistory[<<x.doc, x.seq>>].edits

SoloPaths == \A d, e \in DOMAIN meta : d # e => meta[d].path # meta[e].path

SoloDomains(r) ==
    LET made == IF r.at \in {"create_doc", "create_meta"} THEN {r.doc} ELSE {}
    IN  DOMAIN index = DOMAIN meta \cup made /\ DOMAIN backlinks = DOMAIN meta \cup made

\* The text of d is changed and its entry in the index not yet.
SoloStale(r, d) == r.op = "edit" /\ r.at \in {"edit_meta", "record", "refresh"} /\ d = r.doc

\* s still has to be made to link to the new path of t.
SoloPending(r, s, t) ==
    /\ t = r.doc /\ s # t /\ r.op = "edit" /\ r.old \in text[s].links
    /\ r.at \in {"record", "refresh", "sources"} \/ (r.at = "rewrite" /\ s \in r.todo)

SoloIndex(r) ==
    \A d \in DOMAIN meta \ unmoved : ~SoloStale(r, d) => text[d].edits \subseteq index[d].edits

SoloLinks(r) ==
    \A s \in DOMAIN meta \ unmoved : ~SoloStale(r, s) =>
        \A t \in backlinks[s] :
            /\ t \in DOMAIN meta
            /\ meta[t].path \in text[s].links \/ SoloPending(r, s, t)

\* What the request carries from one step to the next.
SoloCreate(r) ==
    /\ r.at = "create_file" \/ LibMaking(r) => \A d \in DOMAIN meta : meta[d].path # r.path
    /\ LibMaking(r) => r.text.links = r.links
    /\ r.at \in {"create_doc", "create_meta"} =>
          /\ index[r.doc] = r.text
          /\ \A t \in backlinks[r.doc] :
                IF t = r.doc THEN r.path \in r.text.links
                ELSE t \in DOMAIN meta /\ meta[t].path \in r.text.links
    /\ r.at = "create_meta" => text[r.doc] = r.text
SoloEdit(r) ==
    /\ r.at \in {"edit_before", "read_text", "record"} => r.seq = meta[r.doc].seq
    /\ r.at \in {"record", "edit_meta", "refresh", "sections_head"} => r.text = text[r.doc]
    /\ r.at \in {"edit_meta", "record"} /\ r.op = "edit" => r.call \in r.text.edits
    /\ r.at = "record" /\ r.op = "edit" => <<r.doc, r.seq>> \notin DOMAIN docHistory
    /\ LibRecorded(r) => r.call \in docHistory[<<r.doc, r.seq>>].edits
    /\ r.at = "rewrite" => /\ r.doc \notin r.todo /\ r.todo \subseteq DOMAIN meta
                           /\ r.resolve = [PathsOf(meta) EXCEPT ![r.doc] = r.old]

SoloWith(r) ==
    /\ SoloHistory /\ SoloPaths /\ SoloDomains(r) /\ SoloIndex(r) /\ SoloLinks(r)
    /\ SoloCreate(r) /\ SoloEdit(r)

\* r is the one request under way.
LibCurrent(r) ==
    \/ r = LibIdle /\ LibQuiet
    \/ /\ r.at # "idle"
       /\ \E c \in LibClients : r = libReq[c] /\ \A e \in LibClients \ {c} : libReq[e].at = "idle"

LibSolo == ~together => \E r \in LibRequest : LibCurrent(r) /\ SoloWith(r)

LibInv == LibTypeOK /\ LibShape /\ LibNumbers /\ LibSolo

\* A request with its place and what it has found out changed.
LibWith(r, at, d, n, t, o, w, z) ==
    [at |-> at, op |-> r.op, doc |-> d, path |-> r.path, links |-> r.links, call |-> r.call,
     seq |-> n, text |-> t, old |-> o, todo |-> w, resolve |-> z]

\* c's request becomes v.
LibMoves(c, v) == libReq' = [libReq EXCEPT ![c] = v]

\* The fields of a request.
LEMMA LibWithFields ==
    ASSUME NEW r \in LibRequest, NEW at, NEW d, NEW n, NEW t, NEW o, NEW w, NEW z
    PROVE  LET v == LibWith(r, at, d, n, t, o, w, z)
           IN  /\ v.at = at /\ v.op = r.op /\ v.doc = d /\ v.path = r.path /\ v.links = r.links
               /\ v.call = r.call /\ v.seq = n /\ v.text = t /\ v.old = o /\ v.todo = w
               /\ v.resolve = z
               /\ (at \in LibPoints /\ d \in LibDocs \cup {0} /\ n \in Nat /\ t \in LibText
                   /\ o \in LibAnyPath /\ w \in SUBSET LibDocs /\ z \in LibResolve)
                   => v \in LibRequest
BY DEF LibWith, LibRequest

\* A request is made of its fields.
LEMMA LibRequestIs ==
    ASSUME NEW r \in LibRequest
    PROVE  r = LibWith(r, r.at, r.doc, r.seq, r.text, r.old, r.todo, r.resolve)
BY DEF LibWith, LibRequest

\* What the assignments to libReq of the steps come to.
LEMMA LibToIs ==
    ASSUME LibTypeOK, NEW c \in LibClients, NEW at
    PROVE  LET r == libReq[c]
           IN  /\ LibTo(c, at) = [libReq EXCEPT ![c] = LibWith(r, at, r.doc, r.seq, r.text, r.old, r.todo, r.resolve)]
               /\ \A n : [LibTo(c, at) EXCEPT ![c].seq = n]
                      = [libReq EXCEPT ![c] = LibWith(r, at, r.doc, n, r.text, r.old, r.todo, r.resolve)]
               /\ \A t : [LibTo(c, at) EXCEPT ![c].text = t]
                      = [libReq EXCEPT ![c] = LibWith(r, at, r.doc, r.seq, t, r.old, r.todo, r.resolve)]
<1> DEFINE r == libReq[c]
           w0 == LibWith(r, at, r.doc, r.seq, r.text, r.old, r.todo, r.resolve)
           Q == [libReq EXCEPT ![c] = w0]
<1>0. r \in LibRequest /\ libReq \in [LibClients -> LibRequest]
  BY DEF LibTypeOK
<1>1. LibTo(c, at) = Q
  <2>1. [r EXCEPT !.at = at] = w0
    BY <1>0, LibRequestIs DEF LibWith
  <2>2. LibTo(c, at) = [libReq EXCEPT ![c] = [r EXCEPT !.at = at]]
    BY DEF LibTo
  <2> QED
    BY <2>1, <2>2
<1>2. Q[c] = w0 /\ DOMAIN Q = LibClients /\ \A q : [Q EXCEPT ![c] = q] = [libReq EXCEPT ![c] = q]
  <2> HIDE DEF w0
  <2> QED
    BY <1>0
<1>3. ASSUME NEW n PROVE [LibTo(c, at) EXCEPT ![c].seq = n]
                      = [libReq EXCEPT ![c] = LibWith(r, at, r.doc, n, r.text, r.old, r.todo, r.resolve)]
  <2>1. [w0 EXCEPT !.seq = n] = LibWith(r, at, r.doc, n, r.text, r.old, r.todo, r.resolve)
    BY DEF LibWith
  <2> HIDE DEF w0, Q
  <2>2. [Q EXCEPT ![c].seq = n] = [Q EXCEPT ![c] = [w0 EXCEPT !.seq = n]]
    BY <1>2
  <2> QED
    BY <1>1, <1>2, <2>1, <2>2
<1>4. ASSUME NEW t PROVE [LibTo(c, at) EXCEPT ![c].text = t]
                      = [libReq EXCEPT ![c] = LibWith(r, at, r.doc, r.seq, t, r.old, r.todo, r.resolve)]
  <2>1. [w0 EXCEPT !.text = t] = LibWith(r, at, r.doc, r.seq, t, r.old, r.todo, r.resolve)
    BY DEF LibWith
  <2> HIDE DEF w0, Q
  <2>2. [Q EXCEPT ![c].text = t] = [Q EXCEPT ![c] = [w0 EXCEPT !.text = t]]
    BY <1>2
  <2> QED
    BY <1>1, <1>2, <2>1, <2>2
<1> QED
  BY <1>1, <1>3, <1>4

\* The steps that set two fields more.
LibToDoc(c, at, d, t) == [LibTo(c, at) EXCEPT ![c].doc = d, ![c].text = t]
LibToSeq(c, at, n, o) == [LibTo(c, at) EXCEPT ![c].seq = n, ![c].old = o]
LibToTodo(c, at, w, z) == [LibTo(c, at) EXCEPT ![c].todo = w, ![c].resolve = z]

\* What they come to.
LEMMA LibToTwo ==
    ASSUME LibTypeOK, NEW c \in LibClients, NEW at
    PROVE  LET r == libReq[c]
           IN  \A x, y :
               /\ LibToDoc(c, at, x, y) = [libReq EXCEPT ![c] = LibWith(r, at, x, r.seq, y, r.old, r.todo, r.resolve)]
               /\ LibToSeq(c, at, x, y) = [libReq EXCEPT ![c] = LibWith(r, at, r.doc, x, r.text, y, r.todo, r.resolve)]
               /\ LibToTodo(c, at, x, y) = [libReq EXCEPT ![c] = LibWith(r, at, r.doc, r.seq, r.text, r.old, x, y)]
<1> DEFINE r == libReq[c]
           w0 == LibWith(r, at, r.doc, r.seq, r.text, r.old, r.todo, r.resolve)
           Q == [libReq EXCEPT ![c] = w0]
<1>0. r \in LibRequest /\ libReq \in [LibClients -> LibRequest]
  BY DEF LibTypeOK
<1>1. LibTo(c, at) = Q
  <2>1. [r EXCEPT !.at = at] = w0
    BY <1>0, LibRequestIs DEF LibWith
  <2>2. LibTo(c, at) = [libReq EXCEPT ![c] = [r EXCEPT !.at = at]]
    BY DEF LibTo
  <2> QED
    BY <2>1, <2>2
<1>2. Q[c] = w0 /\ DOMAIN Q = LibClients /\ \A q : [Q EXCEPT ![c] = q] = [libReq EXCEPT ![c] = q]
  <2> HIDE DEF w0
  <2> QED
    BY <1>0
<1>3. ASSUME NEW d, NEW t PROVE LibToDoc(c, at, d, t)
                      = [libReq EXCEPT ![c] = LibWith(r, at, d, r.seq, t, r.old, r.todo, r.resolve)]
  <2> DEFINE w1 == LibWith(r, at, d, r.seq, r.text, r.old, r.todo, r.resolve)
  <2>1. [w0 EXCEPT !.doc = d] = w1
    BY DEF LibWith
  <2>2. [w1 EXCEPT !.text = t] = LibWith(r, at, d, r.seq, t, r.old, r.todo, r.resolve)
    BY DEF LibWith
  <2> HIDE DEF w0, w1, Q
  <2> QED
    BY <1>0, <1>1, <1>2, <2>1, <2>2 DEF LibToDoc, LibToSeq, LibToTodo
<1>4. ASSUME NEW n, NEW o PROVE LibToSeq(c, at, n, o)
                      = [libReq EXCEPT ![c] = LibWith(r, at, r.doc, n, r.text, o, r.todo, r.resolve)]
  <2> DEFINE w1 == LibWith(r, at, r.doc, n, r.text, r.old, r.todo, r.resolve)
  <2>1. [w0 EXCEPT !.seq = n] = w1
    BY DEF LibWith
  <2>2. [w1 EXCEPT !.old = o] = LibWith(r, at, r.doc, n, r.text, o, r.todo, r.resolve)
    BY DEF LibWith
  <2> HIDE DEF w0, w1, Q
  <2> QED
    BY <1>0, <1>1, <1>2, <2>1, <2>2 DEF LibToDoc, LibToSeq, LibToTodo
<1>5. ASSUME NEW w, NEW z PROVE LibToTodo(c, at, w, z)
                      = [libReq EXCEPT ![c] = LibWith(r, at, r.doc, r.seq, r.text, r.old, w, z)]
  <2> DEFINE w1 == LibWith(r, at, r.doc, r.seq, r.text, r.old, w, r.resolve)
  <2>1. [w0 EXCEPT !.todo = w] = w1
    BY DEF LibWith
  <2>2. [w1 EXCEPT !.resolve = z] = LibWith(r, at, r.doc, r.seq, r.text, r.old, w, z)
    BY DEF LibWith
  <2> HIDE DEF w0, w1, Q
  <2> QED
    BY <1>0, <1>1, <1>2, <2>1, <2>2 DEF LibToDoc, LibToSeq, LibToTodo
<1> QED
  BY <1>3, <1>4, <1>5

\* A snapshot that is recorded.
LEMMA RecordIs ==
    ASSUME NEW d, NEW n, NEW t, docHistory \in [DOMAIN docHistory -> LibText], t \in LibText
    PROVE  LET h == record_doc_snapshot(d, n, t)
           IN  /\ h \in [DOMAIN h -> LibText]
               /\ DOMAIN h = DOMAIN docHistory \cup {<<d, n>>}
               /\ \A k \in DOMAIN docHistory : h[k] = docHistory[k]
               /\ <<d, n>> \notin DOMAIN docHistory => h[<<d, n>>] = t
<1> DEFINE k0 == <<d, n>>
<1>1. CASE k0 \in DOMAIN docHistory
  BY <1>1 DEF record_doc_snapshot
<1>2. CASE k0 \notin DOMAIN docHistory
  <2>1. record_doc_snapshot(d, n, t) = [k \in DOMAIN docHistory \cup {k0} |-> IF k = k0 THEN t ELSE docHistory[k]]
    BY <1>2 DEF record_doc_snapshot, Insert
  <2> DEFINE h == [k \in DOMAIN docHistory \cup {k0} |-> IF k = k0 THEN t ELSE docHistory[k]]
  <2>2. /\ h \in [DOMAIN h -> LibText] /\ DOMAIN h = DOMAIN docHistory \cup {k0}
        /\ \A k \in DOMAIN docHistory : h[k] = docHistory[k]
        /\ h[k0] = t
    <3> HIDE DEF k0
    <3> QED
      BY <1>2
  <2> HIDE DEF h
  <2> QED
    BY <1>2, <2>1, <2>2 DEF h
<1> QED
  BY <1>1, <1>2

\* What a step of c, whose request was r and becomes v, leaves to the others:
\* documents only come, by the request that makes them, and numbers only grow.
LibTables(r) ==
    /\ DOMAIN meta \subseteq DOMAIN meta' /\ DOMAIN text \subseteq DOMAIN text'
    /\ \A d \in (DOMAIN meta' \ DOMAIN meta) \cup (DOMAIN text' \ DOMAIN text) :
          LibMaking(r) /\ d = r.doc
    /\ \A d \in DOMAIN meta : meta[d].seq <= meta'[d].seq
    /\ DOMAIN docHistory \subseteq DOMAIN docHistory'

\* The document of v is r's, or no other request's.
LibDocOf(c, r, v) ==
    /\ \/ v.doc = 0 \/ v.doc = r.doc \/ v.doc \in DOMAIN meta
       \/ \A e \in LibClients \ {c} : libReq[e].doc # v.doc
    /\ LibMaking(v) => \/ LibMaking(r) /\ v.doc = r.doc
                       \/ \A e \in LibClients \ {c} : libReq[e].doc # v.doc

\* The number of v is r's, or a new one.
LibNumberOf(r, v) ==
    /\ LibNumbered(v) =>
          /\ v.seq <= meta'[v.doc].seq
          /\ \/ LibNumbered(r) /\ v.doc = r.doc /\ v.seq = r.seq
             \/ v.doc \in DOMAIN meta /\ meta[v.doc].seq < v.seq
    /\ LibRecorded(v) => <<v.doc, v.seq>> \in DOMAIN docHistory'

\* Requests keep to their documents.
LEMMA LibShapeKept ==
    ASSUME LibTypeOK, LibShape, NEW c \in LibClients, NEW r, r = libReq[c], NEW v, LibMoves(c, v),
           LibTables(r), LibDocOf(c, r, v), LibOwn(v)'
    PROVE  LibShape'
<1>1. /\ libReq'[c] = v
      /\ \A e \in LibClients \ {c} : libReq'[e] = libReq[e]
  BY DEF LibMoves, LibTypeOK
<1>2. ASSUME NEW e \in LibClients PROVE LibOwn(libReq[e])'
  <2>1. CASE e = c
    BY <1>1, <2>1 DEF LibOwn, LibMaking, LibOnDoc, LibRecorded
  <2>2. CASE e # c
    <3> PICK x : x = libReq[e]
      OBVIOUS
    <3>1. LibOwn(x) /\ libReq'[e] = x
      BY <1>1, <2>2 DEF LibShape
    <3>2. LibMaking(r) => x.doc # r.doc
      BY <2>2 DEF LibShape
    <3>3. LibOwn(x)'
      BY <3>1, <3>2 DEF LibOwn, LibTables, LibMaking, LibOnDoc, LibRecorded
    <3> QED
      BY <3>1, <3>3 DEF LibOwn, LibMaking, LibOnDoc, LibRecorded
  <2> QED
    BY <2>1, <2>2
<1>3. ASSUME NEW a \in LibClients, NEW b \in LibClients, a # b, LibMaking(libReq'[a])
      PROVE  libReq'[b].doc # libReq'[a].doc
  <2>1. CASE a = c
    <3>1. libReq'[a] = v /\ libReq'[b] = libReq[b]
      BY <1>1, <1>3, <2>1
    <3> QED
      BY <1>3, <2>1, <3>1 DEF LibDocOf, LibShape
  <2>2. CASE b = c
    <3> PICK x : x = libReq[a]
      OBVIOUS
    <3>1. libReq'[b] = v /\ libReq'[a] = x /\ LibOwn(x) /\ LibMaking(x)
      BY <1>1, <1>3, <2>2 DEF LibShape
    <3>2. x.doc \in LibDocs \ DOMAIN meta /\ r.doc # x.doc
      BY <1>3, <2>2, <3>1 DEF LibOwn, LibShape
    <3> QED
      BY <1>3, <2>2, <3>1, <3>2, LibDocsPos DEF LibDocOf
  <2>3. CASE a # c /\ b # c
    BY <1>1, <1>3, <2>3 DEF LibShape
  <2> QED
    BY <2>1, <2>2, <2>3
<1> QED
  BY <1>2, <1>3 DEF LibShape

\* Numbers are given out once.
LEMMA LibNumbersKept ==
    ASSUME LibTypeOK, LibShape, LibNumbers, NEW c \in LibClients, NEW r, r = libReq[c],
           NEW v \in LibRequest, LibMoves(c, v), LibTypeOK', LibTables(r), LibNumberOf(r, v),
           LibOwn(v)',
           \/ UNCHANGED answered
           \/ /\ answered' = answered \cup {[doc |-> r.doc, seq |-> r.seq, call |-> r.call]}
              /\ LibRecorded(r) /\ ~LibNumbered(v)
    PROVE  LibNumbers'
<1>1. /\ libReq'[c] = v
      /\ \A e \in LibClients \ {c} : libReq'[e] = libReq[e]
  BY DEF LibMoves, LibTypeOK
<1>2. /\ \A d \in DOMAIN meta : meta[d].seq \in Nat /\ meta'[d].seq \in Nat /\ meta[d].seq <= meta'[d].seq
      /\ DOMAIN meta \subseteq DOMAIN meta'
      /\ \A x \in answered' : x.seq \in Nat
      /\ \A e \in LibClients : libReq[e].seq \in Nat
      /\ v.seq \in Nat
  BY DEF LibTypeOK, LibTables, LibRequest
<1>3. /\ \A x \in answered : /\ x.doc \in DOMAIN meta /\ x.seq <= meta[x.doc].seq
                             /\ <<x.doc, x.seq>> \in DOMAIN docHistory
                             /\ x.seq \in Nat
      /\ \A x, y \in answered : x.doc = y.doc /\ x.seq = y.seq => x.call = y.call
  BY DEF LibNumbers, LibTypeOK
<1>4. ASSUME NEW e \in LibClients, LibNumbered(libReq[e])
      PROVE  /\ libReq[e].doc \in DOMAIN meta
             /\ libReq[e].seq <= meta[libReq[e].doc].seq
             /\ \A x \in answered : ~(x.doc = libReq[e].doc /\ x.seq = libReq[e].seq)
             /\ \A f \in LibClients \ {e} : LibNumbered(libReq[f]) =>
                   ~(libReq[e].doc = libReq[f].doc /\ libReq[e].seq = libReq[f].seq)
  <2>1. libReq[e].doc \in DOMAIN meta
    BY <1>4 DEF LibShape, LibOwn, LibNumbered, LibRecorded, LibOnDoc
  <2> QED
    BY <1>4, <2>1 DEF LibNumbers
<1>5. ASSUME NEW x, x = [doc |-> r.doc, seq |-> r.seq, call |-> r.call], LibRecorded(r)
      PROVE  /\ x.doc \in DOMAIN meta /\ x.seq <= meta[x.doc].seq
             /\ <<x.doc, x.seq>> \in DOMAIN docHistory
             /\ x.doc = r.doc /\ x.seq = r.seq /\ x.call = r.call
             /\ \A y \in answered : ~(x.doc = y.doc /\ x.seq = y.seq)
             /\ LibNumbered(r)
  <2>1. LibNumbered(r) /\ <<r.doc, r.seq>> \in DOMAIN docHistory
    BY <1>5 DEF LibNumbered, LibNumbers
  <2>2. x.doc = r.doc /\ x.seq = r.seq /\ x.call = r.call
    BY <1>5
  <2> QED
    BY <1>4, <2>1, <2>2
<1>6. \A x \in answered' : /\ x.doc \in DOMAIN meta /\ x.seq <= meta[x.doc].seq
                           /\ <<x.doc, x.seq>> \in DOMAIN docHistory
  BY <1>3, <1>5
<1>7. \A x \in answered' : /\ x.doc \in DOMAIN meta' /\ x.seq <= meta'[x.doc].seq
                           /\ <<x.doc, x.seq>> \in DOMAIN docHistory'
  <2>1. \A i, j, k \in Nat : i <= j /\ j <= k => i <= k
    OBVIOUS
  <2> QED
    BY <1>2, <1>6, <2>1 DEF LibTables
<1>8. \A x, y \in answered' : x.doc = y.doc /\ x.seq = y.seq => x.call = y.call
  <2>1. CASE UNCHANGED answered
    BY <1>3, <2>1
  <2>2. CASE /\ answered' = answered \cup {[doc |-> r.doc, seq |-> r.seq, call |-> r.call]}
             /\ LibRecorded(r)
    <3> PICK z : z = [doc |-> r.doc, seq |-> r.seq, call |-> r.call]
      OBVIOUS
    <3>1. \A y \in answered : ~(z.doc = y.doc /\ z.seq = y.seq)
      BY <1>5, <2>2
    <3>2. answered' = answered \cup {z}
      BY <2>2
    <3> QED
      BY <1>3, <3>1, <3>2
  <2> QED
    BY <2>1, <2>2
<1>9. ASSUME NEW e \in LibClients, LibNumbered(libReq'[e])
      PROVE  /\ libReq'[e].seq <= meta'[libReq'[e].doc].seq
             /\ \A x \in answered' : ~(x.doc = libReq'[e].doc /\ x.seq = libReq'[e].seq)
  <2>1. CASE e = c
    <3>1. libReq'[e] = v /\ LibNumbered(v) /\ UNCHANGED answered
      BY <1>1, <1>9, <2>1
    <3>2. v.seq <= meta'[v.doc].seq
      BY <3>1 DEF LibNumberOf
    <3>3. ASSUME NEW x \in answered PROVE ~(x.doc = v.doc /\ x.seq = v.seq)
      <4>1. CASE LibNumbered(r) /\ v.doc = r.doc /\ v.seq = r.seq
        BY <1>4, <4>1
      <4>2. CASE v.doc \in DOMAIN meta /\ meta[v.doc].seq < v.seq
        <5>1. \A i, j \in Nat : i < j => ~(j <= i)
          OBVIOUS
        <5>2. meta[v.doc].seq \in Nat /\ v.seq \in Nat /\ x.seq <= meta[x.doc].seq
          BY <1>2, <1>3, <4>2
        <5> QED
          BY <4>2, <5>1, <5>2
      <4> QED
        BY <3>1, <4>1, <4>2 DEF LibNumberOf
    <3> QED
      BY <3>1, <3>2, <3>3
  <2>2. CASE e # c
    <3>1. libReq'[e] = libReq[e] /\ LibNumbered(libReq[e])
      BY <1>1, <1>9, <2>2
    <3>2. libReq[e].doc \in DOMAIN meta /\ libReq[e].seq <= meta[libReq[e].doc].seq
      BY <1>4, <3>1
    <3>3. libReq[e].seq <= meta'[libReq[e].doc].seq
      <4>1. \A i, j, k \in Nat : i <= j /\ j <= k => i <= k
        OBVIOUS
      <4> QED
        BY <1>2, <3>2, <4>1
    <3>4. \A x \in answered' : ~(x.doc = libReq[e].doc /\ x.seq = libReq[e].seq)
      <4>1. \A x \in answered : ~(x.doc = libReq[e].doc /\ x.seq = libReq[e].seq)
        BY <1>4, <3>1
      <4>2. ASSUME LibRecorded(r) PROVE ~(r.doc = libReq[e].doc /\ r.seq = libReq[e].seq)
        BY <1>4, <2>2, <3>1, <4>2 DEF LibNumbered
      <4> QED
        BY <1>5, <4>1, <4>2
    <3> QED
      BY <3>1, <3>3, <3>4
  <2> QED
    BY <2>1, <2>2
<1>10. ASSUME NEW e \in LibClients, e # c, LibNumbered(libReq'[e]), LibNumbered(v)
       PROVE  ~(libReq'[e].doc = v.doc /\ libReq'[e].seq = v.seq)
  <2>1. libReq'[e] = libReq[e] /\ LibNumbered(libReq[e])
    BY <1>1, <1>10
  <2>2. CASE LibNumbered(r) /\ v.doc = r.doc /\ v.seq = r.seq
    BY <1>4, <1>10, <2>1, <2>2
  <2>3. CASE v.doc \in DOMAIN meta /\ meta[v.doc].seq < v.seq
    BY <1>2, <1>4, <2>1, <2>3
  <2> QED
    BY <1>10, <2>2, <2>3 DEF LibNumberOf
<1>11. ASSUME NEW e \in LibClients, LibNumbered(libReq'[e]), NEW f \in LibClients \ {e}, LibNumbered(libReq'[f])
       PROVE  ~(libReq'[f].doc = libReq'[e].doc /\ libReq'[f].seq = libReq'[e].seq)
  <2>1. CASE e = c
    BY <1>1, <1>10, <1>11, <2>1
  <2>2. CASE f = c
    BY <1>1, <1>10, <1>11, <2>2
  <2>3. CASE e # c /\ f # c
    <3>1. libReq'[e] = libReq[e] /\ libReq'[f] = libReq[f]
      BY <1>1, <2>3
    <3> QED
      BY <1>4, <1>11, <3>1
  <2> QED
    BY <2>1, <2>2, <2>3
<1>12. ASSUME NEW e \in LibClients, LibRecorded(libReq'[e])
       PROVE  <<libReq'[e].doc, libReq'[e].seq>> \in DOMAIN docHistory'
  <2>1. CASE e = c
    BY <1>1, <1>12, <2>1 DEF LibNumberOf
  <2>2. CASE e # c
    BY <1>1, <1>12, <2>2 DEF LibNumbers, LibTables
  <2> QED
    BY <2>1, <2>2
<1> QED
  BY <1>7, <1>8, <1>9, <1>11, <1>12 DEF LibNumbers

\* While calls come one after the other the request of a client that is not
\* idle is the one under way.
LEMMA LibSoloNow ==
    ASSUME LibSolo, ~together, NEW c \in LibClients, libReq[c].at # "idle"
    PROVE  /\ SoloWith(libReq[c])
           /\ \A e \in LibClients \ {c} : libReq[e].at = "idle"
<1>1. PICK r \in LibRequest : LibCurrent(r) /\ SoloWith(r)
  BY DEF LibSolo
<1>2. PICK a \in LibClients : r = libReq[a] /\ \A e \in LibClients \ {a} : libReq[e].at = "idle"
  BY <1>1 DEF LibCurrent, LibQuiet
<1>3. a = c
  BY <1>2
<1> QED
  BY <1>1, <1>2, <1>3

\* One step of the library.
LEMMA LibStep ==
    ASSUME LibInv, NEW c \in LibClients, NEW r, r = libReq[c], r.at # "idle",
           NEW v \in LibRequest, LibMoves(c, v), LibTypeOK', UNCHANGED together,
           LibTables(r), LibDocOf(c, r, v), LibNumberOf(r, v), LibOwn(v)',
           \/ UNCHANGED answered
           \/ /\ answered' = answered \cup {[doc |-> r.doc, seq |-> r.seq, call |-> r.call]}
              /\ LibRecorded(r) /\ ~LibNumbered(v),
           ~together /\ SoloWith(r) => SoloWith(v)'
    PROVE  LibInv'
<1>1. LibShape' /\ LibNumbers'
  BY LibShapeKept, LibNumbersKept DEF LibInv
<1>2. ASSUME ~together' PROVE \E x \in LibRequest : LibCurrent(x)' /\ SoloWith(x)'
  <2>1. ~together /\ SoloWith(r) /\ \A e \in LibClients \ {c} : libReq[e].at = "idle"
    BY <1>2, LibSoloNow DEF LibInv
  <2>2. SoloWith(v)'
    BY <2>1
  <2>3. libReq'[c] = v /\ \A e \in LibClients \ {c} : libReq'[e] = libReq[e]
    BY DEF LibMoves, LibTypeOK, LibInv
  <2>4. CASE v.at = "idle"
    <3>1. v = LibIdle
      BY <2>4 DEF LibOwn
    <3>2. LibQuiet'
      BY <2>1, <2>3, <2>4 DEF LibQuiet
    <3> QED
      BY <2>2, <3>1, <3>2 DEF LibCurrent
  <2>5. CASE v.at # "idle"
    <3>1. LibCurrent(v)'
      BY <2>1, <2>3, <2>5 DEF LibCurrent
    <3> QED
      BY <2>2, <3>1
  <2> QED
    BY <2>4, <2>5
<1> QED
  BY <1>1, <1>2 DEF LibInv, LibSolo

\* No call: nothing is asked of it.
LEMMA LibIdleIs ==
    /\ LibIdle \in LibRequest /\ LibIdle.at = "idle" /\ LibIdle.doc = 0 /\ LibIdle.op = "none"
    /\ LibOwn(LibIdle) /\ LibOwn(LibIdle)'
    /\ SoloCreate(LibIdle)' /\ SoloEdit(LibIdle)'
    /\ ~LibMaking(LibIdle) /\ ~LibNumbered(LibIdle) /\ ~LibRecorded(LibIdle)
<1> PICK v : v = LibIdle
  OBVIOUS
<1>1. v \in LibRequest /\ v.at = "idle" /\ v.doc = 0 /\ v.op = "none"
  <2>1. NoText \in LibText /\ "" \in LibAnyPath /\ <<>> \in LibResolve /\ "idle" \in LibPoints
    <3>1. NoText \in LibText
      BY DEF NoText, LibText
    <3>2. "" \in LibAnyPath
      BY Zenon DEF LibAnyPath
    <3>3. <<>> \in LibResolve
      BY Zenon DEF LibResolve
    <3>4. "idle" \in LibPoints
      BY DEF LibPoints
    <3> QED
      BY <3>1, <3>2, <3>3, <3>4
  <2>2. LibIdle = [at |-> "idle", op |-> "none", doc |-> 0, path |-> "", links |-> {}, call |-> 0,
                   seq |-> 0, text |-> NoText, old |-> "", todo |-> {}, resolve |-> <<>>]
    BY DEF LibIdle
  <2>3. v \in LibRequest
    <3> HIDE DEF LibIdle
    <3>1. \A t \in LibText, p \in LibAnyPath, z \in LibResolve, a \in LibPoints :
             [at |-> a, op |-> "none", doc |-> 0, path |-> p, links |-> {}, call |-> 0,
              seq |-> 0, text |-> t, old |-> p, todo |-> {}, resolve |-> z] \in LibRequest
      BY DEF LibRequest
    <3> QED
      BY <2>1, <2>2, <3>1
  <2> QED
    BY <2>2, <2>3
<1>2. ~LibMaking(v) /\ ~LibNumbered(v) /\ ~LibRecorded(v) /\ ~LibOnDoc(v)
  BY <1>1 DEF LibMaking, LibNumbered, LibRecorded, LibOnDoc
<1>3. LibOwn(v) /\ LibOwn(v)' /\ SoloCreate(v)' /\ SoloEdit(v)'
  BY <1>1, <1>2 DEF LibOwn, SoloCreate, SoloEdit
<1> QED
  BY <1>1, <1>2, <1>3

\* The types of the tables that a step leaves alone.
LEMMA LibSameTypes ==
    ASSUME LibTypeOK, NEW c \in LibClients, NEW v \in LibRequest, LibMoves(c, v),
           UNCHANGED <<meta, text, index, backlinks, together, unmoved, libCount>>,
           docHistory' \in [DOMAIN docHistory' -> LibText],
           answered' \subseteq [doc : LibDocs, seq : Nat, call : Nat]
    PROVE  LibTypeOK'
BY DEF LibTypeOK, LibMoves

\* What v takes over from r when no table is changed: the document whose index
\* entry is old, and the links that still have to be made.
SoloTakes(r, v) ==
    /\ r.at \notin {"create_doc", "create_meta"} /\ v.at \notin {"create_doc", "create_meta"}
    /\ \A d : SoloStale(r, d) => SoloStale(v, d)
    /\ \A s \in DOMAIN meta : \A t \in backlinks[s] :
          SoloPending(r, s, t) => meta[t].path \in text[s].links \/ SoloPending(v, s, t)

\* The tables are as they were.
LEMMA SoloSame ==
    ASSUME NEW r, NEW v, SoloWith(r), SoloTakes(r, v),
           UNCHANGED <<meta, text, index, backlinks, unmoved>>,
           SoloHistory', SoloCreate(v)', SoloEdit(v)'
    PROVE  SoloWith(v)'
<1>1. SoloPaths' /\ SoloDomains(v)'
  BY DEF SoloWith, SoloPaths, SoloDomains, SoloTakes
<1>2. SoloIndex(v)'
  <2>1. \A d \in DOMAIN meta \ unmoved : ~SoloStale(v, d) => text[d].edits \subseteq index[d].edits
    BY DEF SoloWith, SoloTakes, SoloIndex
  <2> QED
    BY <2>1 DEF SoloIndex, SoloStale
<1>3. SoloLinks(v)'
  <2>1. \A s \in DOMAIN meta \ unmoved : ~SoloStale(v, s) =>
           \A t \in backlinks[s] :
               /\ t \in DOMAIN meta
               /\ meta[t].path \in text[s].links \/ SoloPending(v, s, t)
    BY DEF SoloWith, SoloTakes, SoloLinks
  <2> QED
    BY <2>1 DEF SoloLinks, SoloStale, SoloPending
<1> QED
  BY <1>1, <1>2, <1>3 DEF SoloWith

\* A step that changes no more than its request, the history and the answers.
LEMMA LibSameStep ==
    ASSUME LibInv, NEW c \in LibClients, NEW r, r = libReq[c], r.at # "idle",
           NEW v \in LibRequest, LibMoves(c, v),
           UNCHANGED <<meta, text, index, backlinks, together, unmoved, libCount>>,
           docHistory' \in [DOMAIN docHistory' -> LibText],
           DOMAIN docHistory \subseteq DOMAIN docHistory',
           v.doc \in {r.doc, 0}, ~LibMaking(v), LibNumberOf(r, v), LibOwn(v),
           \/ UNCHANGED answered
           \/ /\ answered' = answered \cup {[doc |-> r.doc, seq |-> r.seq, call |-> r.call]}
              /\ LibRecorded(r) /\ ~LibNumbered(v),
           ~together /\ SoloWith(r) =>
               SoloTakes(r, v) /\ SoloHistory' /\ SoloCreate(v)' /\ SoloEdit(v)'
    PROVE  LibInv'
<1>0. LibTypeOK /\ LibShape /\ r \in LibRequest
  BY DEF LibInv, LibTypeOK
<1>1. LibOwn(v)'
  BY DEF LibOwn
<1>2. answered' \subseteq [doc : LibDocs, seq : Nat, call : Nat]
  <2>1. LibRecorded(r) => r.doc \in LibDocs
    BY <1>0 DEF LibShape, LibOwn, LibOnDoc, LibRecorded, LibTypeOK
  <2>2. answered \subseteq [doc : LibDocs, seq : Nat, call : Nat] /\ r.seq \in Nat /\ r.call \in Nat
    BY <1>0 DEF LibTypeOK, LibRequest
  <2> QED
    BY <2>1, <2>2
<1>3. LibTypeOK'
  BY <1>0, <1>2, LibSameTypes
<1>4. LibTables(r)
  <2>1. \A d \in DOMAIN meta : meta[d].seq \in Nat
    BY <1>0 DEF LibTypeOK
  <2> QED
    BY <2>1 DEF LibTables
<1>5. LibDocOf(c, r, v)
  BY DEF LibDocOf
<1>6. ~together /\ SoloWith(r) => SoloWith(v)'
  BY SoloSame
<1> QED
  BY <1>1, <1>3, <1>4, <1>5, <1>6, LibStep

\* What is recorded at the last number of a document, with the edits its text
\* has, keeps the history as it should be.
LEMMA HistoryRecord ==
    ASSUME LibTypeOK, SoloHistory, NEW d \in DOMAIN meta, NEW t \in LibText,
           t.edits = text[d].edits,
           docHistory' = record_doc_snapshot(d, meta[d].seq, t),
           UNCHANGED <<meta, text, answered>>, LibNumbers
    PROVE  SoloHistory'
<1> PICK n : n = meta[d].seq
  OBVIOUS
<1> PICK k0 : k0 = <<d, n>>
  OBVIOUS
<1>0. n \in Nat /\ (\A x \in DOMAIN meta : meta[x].seq \in Nat) /\ k0[1] = d /\ k0[2] = n
  BY DEF LibTypeOK
<1>1. /\ DOMAIN docHistory' = DOMAIN docHistory \cup {k0}
      /\ \A k \in DOMAIN docHistory : docHistory'[k] = docHistory[k]
      /\ k0 \notin DOMAIN docHistory => docHistory'[k0] = t
  <2>1. docHistory \in [DOMAIN docHistory -> LibText] /\ docHistory' = record_doc_snapshot(d, n, t)
    BY DEF LibTypeOK
  <2> DEFINE h == record_doc_snapshot(d, n, t)
  <2>2. /\ DOMAIN h = DOMAIN docHistory \cup {<<d, n>>}
        /\ \A k \in DOMAIN docHistory : h[k] = docHistory[k]
        /\ <<d, n>> \notin DOMAIN docHistory => h[<<d, n>>] = t
    BY <2>1, RecordIs
  <2> QED
    BY <2>1, <2>2
<1>2. ASSUME NEW k \in DOMAIN docHistory'
      PROVE  /\ k \in (DOMAIN meta) \X Nat /\ k[2] <= meta[k[1]].seq
             /\ docHistory'[k].edits \subseteq text[k[1]].edits
  <2>1. CASE k \in DOMAIN docHistory
    BY <1>1, <2>1 DEF SoloHistory
  <2>2. CASE k \notin DOMAIN docHistory
    BY <1>0, <1>1, <1>2, <2>2
  <2> QED
    BY <2>1, <2>2
<1>3. ASSUME NEW k \in DOMAIN docHistory', NEW l \in DOMAIN docHistory', k[1] = l[1], k[2] <= l[2]
      PROVE  docHistory'[k].edits \subseteq docHistory'[l].edits
  <2>1. CASE k \in DOMAIN docHistory /\ l \in DOMAIN docHistory
    BY <1>1, <1>3, <2>1 DEF SoloHistory
  <2>2. CASE l \notin DOMAIN docHistory
    <3>1. l = k0 /\ docHistory'[l] = t
      BY <1>1, <2>2
    <3> QED
      BY <1>0, <1>2, <1>3, <3>1
  <2>3. CASE k \notin DOMAIN docHistory /\ l \in DOMAIN docHistory
    <3>1. k = k0
      BY <1>1, <2>3
    <3>2. l \in (DOMAIN meta) \X Nat /\ l[2] <= meta[l[1]].seq
      BY <1>2
    <3>3. l[1] = d /\ l[2] = n
      <4>1. l[1] = d /\ n <= l[2] /\ l[2] <= n /\ l[2] \in Nat
        BY <1>0, <1>3, <3>1, <3>2
      <4> QED
        BY <1>0, <4>1
    <3>4. l = k0
      BY <3>2, <3>3
    <3> QED
      BY <2>3, <3>1, <3>4
  <2> QED
    BY <2>1, <2>2, <2>3
<1>4. \A x \in answered' : x.call \in docHistory'[<<x.doc, x.seq>>].edits
  BY <1>1 DEF SoloHistory, LibNumbers
<1> QED
  BY <1>2, <1>3, <1>4 DEF SoloHistory

\* What is known of a request.
LEMMA LibKnown ==
    ASSUME LibInv, NEW c \in LibClients, NEW r, r = libReq[c]
    PROVE  /\ LibTypeOK /\ LibNumbers /\ r \in LibRequest /\ LibOwn(r)
           /\ docHistory \in [DOMAIN docHistory -> LibText]
           /\ \A d \in DOMAIN meta : /\ d \in LibDocs /\ d \in DOMAIN text /\ text[d] \in LibText
                                     /\ meta[d].seq \in Nat /\ meta[d].path \in LibAnyPath
           /\ r.doc \in LibDocs \cup {0} /\ r.path \in LibAnyPath /\ r.links \subseteq LibAnyPath
           /\ r.call \in Nat /\ r.seq \in Nat /\ r.text \in LibText /\ r.old \in LibAnyPath
           /\ r.todo \in SUBSET LibDocs /\ r.resolve \in LibResolve
BY DEF LibInv, LibTypeOK, LibShape, LibRequest

\* The number a call has taken over.
LEMMA LibNumberSame ==
    ASSUME NEW r, NEW v, v.doc = r.doc, v.seq = r.seq, LibNumbered(v) => LibNumbered(r),
           LibRecorded(v) => LibRecorded(r) \/ <<v.doc, v.seq>> \in DOMAIN docHistory',
           UNCHANGED meta, DOMAIN docHistory \subseteq DOMAIN docHistory', LibNumbers,
           NEW c \in LibClients, r = libReq[c]
    PROVE  LibNumberOf(r, v)
BY DEF LibNumberOf, LibNumbers

\* A call that ends with nothing left to do.
LEMMA LibEndStep ==
    ASSUME LibInv, NEW c \in LibClients, NEW r, r = libReq[c], r.at # "idle",
           libReq' = LibEnd(c),
           UNCHANGED <<meta, text, index, backlinks, together, unmoved, libCount>>,
           docHistory' \in [DOMAIN docHistory' -> LibText],
           DOMAIN docHistory \subseteq DOMAIN docHistory',
           \/ UNCHANGED answered
           \/ /\ answered' = answered \cup {[doc |-> r.doc, seq |-> r.seq, call |-> r.call]}
              /\ LibRecorded(r),
           r.at \notin {"create_doc", "create_meta"}, \A d : ~SoloStale(r, d),
           \A s, t : ~SoloPending(r, s, t),
           ~together /\ SoloWith(r) => SoloHistory'
    PROVE  LibInv'
<1> PICK v : v = LibIdle
  OBVIOUS
<1>1. /\ v \in LibRequest /\ v.at = "idle" /\ v.doc = 0 /\ LibOwn(v)
      /\ ~LibMaking(v) /\ ~LibNumbered(v) /\ ~LibRecorded(v)
  BY LibIdleIs
<1>2. SoloCreate(v)' /\ SoloEdit(v)'
  BY <1>1 DEF SoloCreate, SoloEdit, LibMaking, LibRecorded
<1>3. LibMoves(c, v)
  BY DEF LibMoves, LibEnd
<1>4. LibNumberOf(r, v)
  BY <1>1 DEF LibNumberOf
<1>5. SoloTakes(r, v)
  BY <1>1 DEF SoloTakes
<1> QED
  BY <1>1, <1>2, <1>3, <1>4, <1>5, LibSameStep

\* doc.create looks the path up.
LEMMA CreateCheckStep ==
    ASSUME LibInv, NEW c \in LibClients, create_doc_check(c)
    PROVE  LibInv'
<1> PICK r : r = libReq[c]
  OBVIOUS
<1>1. /\ LibTypeOK /\ LibNumbers /\ r \in LibRequest /\ LibOwn(r)
      /\ docHistory \in [DOMAIN docHistory -> LibText]
      /\ r.doc \in LibDocs \cup {0} /\ r.seq \in Nat /\ r.text \in LibText /\ r.old \in LibAnyPath
      /\ r.todo \in SUBSET LibDocs /\ r.resolve \in LibResolve
  BY LibKnown
<1>2. /\ r.at = "create"
      /\ libReq' = IF \E d \in DOMAIN meta : meta[d].path = r.path THEN LibEnd(c)
                   ELSE LibTo(c, "create_file")
      /\ UNCHANGED <<meta, text, docHistory, index, backlinks, answered, together, unmoved, libCount>>
  BY DEF create_doc_check
<1>3. /\ \A d : ~SoloStale(r, d)
      /\ \A s, t : ~SoloPending(r, s, t)
  BY <1>2 DEF SoloStale, SoloPending
<1>4. SoloHistory => SoloHistory'
  BY <1>2 DEF SoloHistory
<1>5. CASE libReq' = LibEnd(c)
  BY <1>1, <1>2, <1>3, <1>4, <1>5, LibEndStep DEF SoloWith
<1>6. CASE libReq' = LibTo(c, "create_file") /\ \A d \in DOMAIN meta : meta[d].path # r.path
  <2> PICK v : v = LibWith(r, "create_file", r.doc, r.seq, r.text, r.old, r.todo, r.resolve)
    OBVIOUS
  <2>1. /\ v \in LibRequest /\ v.at = "create_file" /\ v.doc = r.doc /\ v.op = r.op
        /\ v.path = r.path /\ v.seq = r.seq
    BY <1>1, LibWithFields DEF LibPoints
  <2>2. LibMoves(c, v)
    BY <1>1, <1>6, LibToIs DEF LibMoves
  <2>3. ~LibMaking(v) /\ ~LibNumbered(v) /\ ~LibRecorded(v) /\ LibOwn(v)
    BY <1>1, <1>2, <2>1 DEF LibMaking, LibNumbered, LibRecorded, LibOwn, LibOnDoc
  <2>4. LibNumberOf(r, v)
    BY <2>3 DEF LibNumberOf
  <2>5. SoloTakes(r, v)
    BY <1>2, <1>3, <2>1 DEF SoloTakes
  <2>6. SoloCreate(v)' /\ SoloEdit(v)'
    BY <1>2, <1>6, <2>1, <2>3 DEF SoloCreate, SoloEdit
  <2> QED
    BY <1>1, <1>2, <1>4, <2>1, <2>2, <2>3, <2>4, <2>5, <2>6, LibSameStep DEF SoloWith
<1> QED
  BY <1>2, <1>5, <1>6

\* doc.edit takes the number.
LEMMA EditHeadStep ==
    ASSUME LibInv, NEW c \in LibClients, edit_doc_head(c)
    PROVE  LibInv'
<1> PICK r : r = libReq[c]
  OBVIOUS
<1>1. /\ LibTypeOK /\ r \in LibRequest /\ LibOwn(r)
      /\ docHistory \in [DOMAIN docHistory -> LibText]
      /\ r.doc \in LibDocs \cup {0} /\ r.text \in LibText /\ r.old \in LibAnyPath
      /\ r.todo \in SUBSET LibDocs /\ r.resolve \in LibResolve
      /\ \A d \in DOMAIN meta : meta[d].seq \in Nat
  BY LibKnown
<1> PICK n : n = meta[r.doc].seq
  OBVIOUS
<1>2. /\ r.at = "edit" /\ r.doc \in DOMAIN meta /\ n \in Nat
      /\ libReq' = [LibTo(c, "edit_before") EXCEPT ![c].seq = n]
      /\ UNCHANGED <<meta, text, docHistory, index, backlinks, answered, together, unmoved, libCount>>
  BY <1>1 DEF edit_doc_head, LibOwn, LibOnDoc
<1> PICK v : v = LibWith(r, "edit_before", r.doc, n, r.text, r.old, r.todo, r.resolve)
  OBVIOUS
<1>3. /\ v \in LibRequest /\ v.at = "edit_before" /\ v.doc = r.doc /\ v.op = r.op /\ v.seq = n
  BY <1>1, <1>2, LibWithFields DEF LibPoints
<1>4. LibMoves(c, v)
  BY <1>1, <1>2, LibToIs DEF LibMoves
<1>5. ~LibMaking(v) /\ ~LibNumbered(v) /\ ~LibRecorded(v) /\ LibOwn(v)
  BY <1>1, <1>2, <1>3 DEF LibMaking, LibNumbered, LibRecorded, LibOwn, LibOnDoc
<1>6. LibNumberOf(r, v)
  BY <1>5 DEF LibNumberOf
<1>7. SoloTakes(r, v)
  BY <1>2, <1>3 DEF SoloTakes, SoloStale, SoloPending
<1>8. SoloCreate(v)' /\ SoloEdit(v)' /\ (SoloHistory => SoloHistory')
  BY <1>2, <1>3, <1>5 DEF SoloCreate, SoloEdit, SoloHistory
<1> QED
  BY <1>1, <1>2, <1>3, <1>4, <1>5, <1>6, <1>7, <1>8, LibSameStep DEF SoloWith

\* doc.read, doc.diff and doc.history take the number.
LEMMA ReadHeadStep ==
    ASSUME LibInv, NEW c \in LibClients, read_doc_head(c)
    PROVE  LibInv'
<1> PICK r : r = libReq[c]
  OBVIOUS
<1>1. /\ LibTypeOK /\ r \in LibRequest /\ LibOwn(r)
      /\ docHistory \in [DOMAIN docHistory -> LibText]
      /\ r.doc \in LibDocs \cup {0} /\ r.text \in LibText /\ r.old \in LibAnyPath
      /\ r.todo \in SUBSET LibDocs /\ r.resolve \in LibResolve
      /\ \A d \in DOMAIN meta : meta[d].seq \in Nat
  BY LibKnown
<1> PICK n : n = meta[r.doc].seq
  OBVIOUS
<1>2. /\ r.at = "read" /\ r.doc \in DOMAIN meta /\ n \in Nat
      /\ libReq' = [LibTo(c, "read_text") EXCEPT ![c].seq = n]
      /\ UNCHANGED <<meta, text, docHistory, index, backlinks, answered, together, unmoved, libCount>>
  BY <1>1 DEF read_doc_head, LibOwn, LibOnDoc
<1> PICK v : v = LibWith(r, "read_text", r.doc, n, r.text, r.old, r.todo, r.resolve)
  OBVIOUS
<1>3. /\ v \in LibRequest /\ v.at = "read_text" /\ v.doc = r.doc /\ v.op = r.op /\ v.seq = n
  BY <1>1, <1>2, LibWithFields DEF LibPoints
<1>4. LibMoves(c, v)
  BY <1>1, <1>2, LibToIs DEF LibMoves
<1>5. ~LibMaking(v) /\ ~LibNumbered(v) /\ ~LibRecorded(v) /\ LibOwn(v)
  BY <1>1, <1>2, <1>3 DEF LibMaking, LibNumbered, LibRecorded, LibOwn, LibOnDoc
<1>6. LibNumberOf(r, v)
  BY <1>5 DEF LibNumberOf
<1>7. SoloTakes(r, v)
  BY <1>2, <1>3 DEF SoloTakes, SoloStale, SoloPending
<1>8. SoloCreate(v)' /\ SoloEdit(v)' /\ (SoloHistory => SoloHistory')
  BY <1>2, <1>3, <1>5 DEF SoloCreate, SoloEdit, SoloHistory
<1> QED
  BY <1>1, <1>2, <1>3, <1>4, <1>5, <1>6, <1>7, <1>8, LibSameStep DEF SoloWith

\* doc.sections takes the text.
LEMMA SectionsTextStep ==
    ASSUME LibInv, NEW c \in LibClients, doc_sections_text(c)
    PROVE  LibInv'
<1> PICK r : r = libReq[c]
  OBVIOUS
<1>1. /\ LibTypeOK /\ r \in LibRequest /\ LibOwn(r)
      /\ docHistory \in [DOMAIN docHistory -> LibText]
      /\ r.doc \in LibDocs \cup {0} /\ r.seq \in Nat /\ r.old \in LibAnyPath
      /\ r.todo \in SUBSET LibDocs /\ r.resolve \in LibResolve
      /\ \A d \in DOMAIN meta : text[d] \in LibText
  BY LibKnown
<1> PICK t : t = text[r.doc]
  OBVIOUS
<1>2. /\ r.at = "sections" /\ r.doc \in DOMAIN meta /\ t \in LibText
      /\ libReq' = [LibTo(c, "sections_head") EXCEPT ![c].text = t]
      /\ UNCHANGED <<meta, text, docHistory, index, backlinks, answered, together, unmoved, libCount>>
  BY <1>1 DEF doc_sections_text, LibOwn, LibOnDoc
<1> PICK v : v = LibWith(r, "sections_head", r.doc, r.seq, t, r.old, r.todo, r.resolve)
  OBVIOUS
<1>3. /\ v \in LibRequest /\ v.at = "sections_head" /\ v.doc = r.doc /\ v.op = r.op /\ v.text = t
  BY <1>1, <1>2, LibWithFields DEF LibPoints
<1>4. LibMoves(c, v)
  BY <1>1, <1>2, LibToIs DEF LibMoves
<1>5. ~LibMaking(v) /\ ~LibNumbered(v) /\ ~LibRecorded(v) /\ LibOwn(v)
  BY <1>1, <1>2, <1>3 DEF LibMaking, LibNumbered, LibRecorded, LibOwn, LibOnDoc
<1>6. LibNumberOf(r, v)
  BY <1>5 DEF LibNumberOf
<1>7. SoloTakes(r, v)
  BY <1>2, <1>3 DEF SoloTakes, SoloStale, SoloPending
<1>8. SoloCreate(v)' /\ SoloEdit(v)' /\ (SoloHistory => SoloHistory')
  BY <1>2, <1>3, <1>5 DEF SoloCreate, SoloEdit, SoloHistory
<1> QED
  BY <1>1, <1>2, <1>3, <1>4, <1>5, <1>6, <1>7, <1>8, LibSameStep DEF SoloWith

\* A text recorded by a call changes no other record.
LEMMA LibRecords ==
    ASSUME LibTypeOK, NEW d, NEW n, NEW t \in LibText,
           docHistory' = record_doc_snapshot(d, n, t)
    PROVE  /\ docHistory' \in [DOMAIN docHistory' -> LibText]
           /\ DOMAIN docHistory \subseteq DOMAIN docHistory'
           /\ <<d, n>> \in DOMAIN docHistory'
           /\ \A k \in DOMAIN docHistory : docHistory'[k] = docHistory[k]
           /\ <<d, n>> \notin DOMAIN docHistory => docHistory'[<<d, n>>] = t
<1> DEFINE h == record_doc_snapshot(d, n, t)
<1>1. docHistory \in [DOMAIN docHistory -> LibText]
  BY DEF LibTypeOK
<1>2. /\ h \in [DOMAIN h -> LibText] /\ DOMAIN h = DOMAIN docHistory \cup {<<d, n>>}
      /\ \A k \in DOMAIN docHistory : h[k] = docHistory[k]
      /\ <<d, n>> \notin DOMAIN docHistory => h[<<d, n>>] = t
  BY <1>1, RecordIs
<1>3. docHistory' = h
  OBVIOUS
<1> HIDE DEF h
<1> QED
  BY <1>2, <1>3

\* doc.edit records the text before the edit.
LEMMA EditBeforeStep ==
    ASSUME LibInv, NEW c \in LibClients, edit_doc_before(c)
    PROVE  LibInv'
<1> PICK r : r = libReq[c]
  OBVIOUS
<1>1. /\ LibTypeOK /\ LibNumbers /\ r \in LibRequest /\ LibOwn(r)
      /\ r.doc \in LibDocs \cup {0} /\ r.seq \in Nat /\ r.text \in LibText /\ r.old \in LibAnyPath
      /\ r.todo \in SUBSET LibDocs /\ r.resolve \in LibResolve
      /\ \A d \in DOMAIN meta : text[d] \in LibText
  BY LibKnown
<1> PICK t : t = text[r.doc]
  OBVIOUS
<1>2. /\ r.at = "edit_before" /\ r.doc \in DOMAIN meta /\ t \in LibText
      /\ docHistory' = record_doc_snapshot(r.doc, r.seq, t)
      /\ libReq' = LibTo(c, "edit_apply")
      /\ UNCHANGED <<meta, text, index, backlinks, answered, together, unmoved, libCount>>
  BY <1>1 DEF edit_doc_before, LibOwn, LibOnDoc
<1> PICK v : v = LibWith(r, "edit_apply", r.doc, r.seq, r.text, r.old, r.todo, r.resolve)
  OBVIOUS
<1>3. /\ v \in LibRequest /\ v.at = "edit_apply" /\ v.doc = r.doc /\ v.op = r.op
  BY <1>1, <1>2, LibWithFields DEF LibPoints
<1>4. LibMoves(c, v)
  BY <1>1, <1>2, LibToIs DEF LibMoves
<1>5. ~LibMaking(v) /\ ~LibNumbered(v) /\ ~LibRecorded(v) /\ LibOwn(v)
  BY <1>1, <1>2, <1>3 DEF LibMaking, LibNumbered, LibRecorded, LibOwn, LibOnDoc
<1>6. LibNumberOf(r, v)
  BY <1>5 DEF LibNumberOf
<1>7. SoloTakes(r, v)
  BY <1>2, <1>3 DEF SoloTakes, SoloStale, SoloPending
<1>8. SoloCreate(v)' /\ SoloEdit(v)'
  BY <1>2, <1>3, <1>5 DEF SoloCreate, SoloEdit
<1>9. ASSUME SoloWith(r) PROVE SoloHistory'
  <2>1. r.seq = meta[r.doc].seq /\ SoloHistory
    BY <1>2, <1>9 DEF SoloWith, SoloEdit
  <2> QED
    BY <1>1, <1>2, <2>1, HistoryRecord
<1>10. /\ docHistory' \in [DOMAIN docHistory' -> LibText]
       /\ DOMAIN docHistory \subseteq DOMAIN docHistory'
  BY <1>1, <1>2, LibRecords
<1> QED
  BY <1>2, <1>3, <1>4, <1>5, <1>6, <1>7, <1>8, <1>9, <1>10, LibSameStep

\* doc.read records the text with the number it took before.
LEMMA ReadTextStep ==
    ASSUME LibInv, NEW c \in LibClients, read_doc_text(c)
    PROVE  LibInv'
<1> PICK r : r = libReq[c]
  OBVIOUS
<1>1. /\ LibTypeOK /\ LibNumbers /\ r \in LibRequest /\ LibOwn(r)
      /\ \A d \in DOMAIN meta : text[d] \in LibText
  BY LibKnown
<1> PICK t : t = text[r.doc]
  OBVIOUS
<1>2. /\ r.at = "read_text" /\ r.doc \in DOMAIN meta /\ t \in LibText
      /\ docHistory' = record_doc_snapshot(r.doc, r.seq, t)
      /\ libReq' = LibEnd(c)
      /\ UNCHANGED <<meta, text, index, backlinks, answered, together, unmoved, libCount>>
  BY <1>1 DEF read_doc_text, LibOwn, LibOnDoc
<1>3. /\ \A d : ~SoloStale(r, d)
      /\ \A s, x : ~SoloPending(r, s, x)
  BY <1>2 DEF SoloStale, SoloPending
<1>4. ASSUME SoloWith(r) PROVE SoloHistory'
  <2>1. r.seq = meta[r.doc].seq /\ SoloHistory
    BY <1>2, <1>4 DEF SoloWith, SoloEdit
  <2> QED
    BY <1>1, <1>2, <2>1, HistoryRecord
<1>5. /\ docHistory' \in [DOMAIN docHistory' -> LibText]
      /\ DOMAIN docHistory \subseteq DOMAIN docHistory'
  BY <1>1, <1>2, LibRecords
<1> QED
  BY <1>2, <1>3, <1>4, <1>5, LibEndStep

\* doc.sections records the text it took before with the number.
LEMMA SectionsHeadStep ==
    ASSUME LibInv, NEW c \in LibClients, doc_sections_head(c)
    PROVE  LibInv'
<1> PICK r : r = libReq[c]
  OBVIOUS
<1>1. /\ LibTypeOK /\ LibNumbers /\ r \in LibRequest /\ LibOwn(r) /\ r.text \in LibText
  BY LibKnown
<1> PICK n : n = meta[r.doc].seq
  OBVIOUS
<1>2. /\ r.at = "sections_head" /\ r.doc \in DOMAIN meta
      /\ docHistory' = record_doc_snapshot(r.doc, n, r.text)
      /\ libReq' = LibEnd(c)
      /\ UNCHANGED <<meta, text, index, backlinks, answered, together, unmoved, libCount>>
  BY <1>1 DEF doc_sections_head, LibOwn, LibOnDoc
<1>3. /\ \A d : ~SoloStale(r, d)
      /\ \A s, x : ~SoloPending(r, s, x)
  BY <1>2 DEF SoloStale, SoloPending
<1>4. ASSUME SoloWith(r) PROVE SoloHistory'
  <2>1. r.text = text[r.doc] /\ SoloHistory
    BY <1>2, <1>4 DEF SoloWith, SoloEdit
  <2> QED
    BY <1>1, <1>2, <2>1, HistoryRecord
<1>5. /\ docHistory' \in [DOMAIN docHistory' -> LibText]
      /\ DOMAIN docHistory \subseteq DOMAIN docHistory'
  BY <1>1, <1>2, LibRecords
<1> QED
  BY <1>2, <1>3, <1>4, <1>5, LibEndStep

\* What doc.create or doc.edit made is recorded.
LEMMA RecordStep ==
    ASSUME LibInv, NEW c \in LibClients, record_doc_snapshot_step(c)
    PROVE  LibInv'
<1> PICK r : r = libReq[c]
  OBVIOUS
<1>1. /\ LibTypeOK /\ LibNumbers /\ r \in LibRequest /\ LibOwn(r)
      /\ r.doc \in LibDocs \cup {0} /\ r.seq \in Nat /\ r.text \in LibText /\ r.old \in LibAnyPath
      /\ r.todo \in SUBSET LibDocs /\ r.resolve \in LibResolve
      /\ \A d \in DOMAIN meta : meta[d].seq \in Nat
  BY LibKnown
<1>2. /\ r.at = "record" /\ r.doc \in DOMAIN meta
      /\ docHistory' = record_doc_snapshot(r.doc, r.seq, r.text)
      /\ libReq' = IF r.op = "create" THEN LibEnd(c) ELSE LibTo(c, "refresh")
      /\ UNCHANGED <<meta, text, index, backlinks, answered, together, unmoved, libCount>>
      /\ r.op \in {"create", "edit"}
  BY <1>1 DEF record_doc_snapshot_step, LibOwn, LibOnDoc
<1>3. ASSUME SoloWith(r) PROVE SoloHistory'
  <2>1. r.text = text[r.doc] /\ r.seq = meta[r.doc].seq /\ SoloHistory
    BY <1>2, <1>3 DEF SoloWith, SoloEdit
  <2> QED
    BY <1>1, <1>2, <2>1, HistoryRecord
<1>4. /\ docHistory' \in [DOMAIN docHistory' -> LibText]
      /\ DOMAIN docHistory \subseteq DOMAIN docHistory'
      /\ <<r.doc, r.seq>> \in DOMAIN docHistory'
      /\ <<r.doc, r.seq>> \notin DOMAIN docHistory => docHistory'[<<r.doc, r.seq>>] = r.text
  BY <1>1, <1>2, LibRecords
<1>5. CASE r.op = "create"
  <2>1. /\ \A d : ~SoloStale(r, d)
        /\ \A s, x : ~SoloPending(r, s, x)
    BY <1>5 DEF SoloStale, SoloPending
  <2> QED
    BY <1>2, <1>3, <1>4, <1>5, <2>1, LibEndStep
<1>6. CASE r.op = "edit"
  <2> PICK v : v = LibWith(r, "refresh", r.doc, r.seq, r.text, r.old, r.todo, r.resolve)
    OBVIOUS
  <2>1. /\ v \in LibRequest /\ v.at = "refresh" /\ v.doc = r.doc /\ v.op = r.op /\ v.seq = r.seq
        /\ v.text = r.text /\ v.call = r.call /\ v.old = r.old
    BY <1>1, <1>2, LibWithFields DEF LibPoints
  <2>2. LibMoves(c, v)
    BY <1>1, <1>2, <1>6, LibToIs DEF LibMoves
  <2>3. ~LibMaking(v) /\ LibNumbered(v) /\ LibNumbered(r) /\ LibRecorded(v) /\ LibOwn(v)
    BY <1>1, <1>2, <1>6, <2>1 DEF LibMaking, LibNumbered, LibRecorded, LibOwn, LibOnDoc
  <2>4. LibNumberOf(r, v)
    BY <1>1, <1>2, <1>4, <2>1, <2>3 DEF LibNumberOf, LibNumbers
  <2>5. SoloTakes(r, v)
    BY <1>2, <1>6, <2>1 DEF SoloTakes, SoloStale, SoloPending
  <2>6. ASSUME SoloWith(r) PROVE SoloCreate(v)' /\ SoloEdit(v)'
    <3>1. /\ r.text = text[r.doc] /\ r.call \in r.text.edits
          /\ <<r.doc, r.seq>> \notin DOMAIN docHistory
      BY <1>2, <1>6, <2>6 DEF SoloWith, SoloEdit
    <3>2. v.call \in docHistory'[<<v.doc, v.seq>>].edits
      BY <1>4, <2>1, <3>1
    <3>3. SoloCreate(v)'
      BY <2>1, <2>3 DEF SoloCreate
    <3>4. SoloEdit(v)'
      BY <1>2, <2>1, <3>1, <3>2 DEF SoloEdit
    <3> QED
      BY <3>3, <3>4
  <2> QED
    BY <1>2, <1>3, <1>4, <2>1, <2>2, <2>3, <2>4, <2>5, <2>6, LibSameStep
<1> QED
  BY <1>2, <1>5, <1>6

\* doc.edit is answered.
LEMMA AnswerStep ==
    ASSUME LibInv, NEW c \in LibClients, edit_doc_answer(c)
    PROVE  LibInv'
<1> PICK r : r = libReq[c]
  OBVIOUS
<1>1. /\ LibTypeOK /\ LibNumbers /\ r \in LibRequest /\ LibOwn(r)
      /\ docHistory \in [DOMAIN docHistory -> LibText]
  BY LibKnown
<1> PICK x : x = [doc |-> r.doc, seq |-> r.seq, call |-> r.call]
  OBVIOUS
<1>2. /\ r.at = "answer" \/ (r.at = "rewrite" /\ r.todo = {})
      /\ answered' = answered \cup {x}
      /\ libReq' = LibEnd(c)
      /\ UNCHANGED <<meta, text, docHistory, index, backlinks, together, unmoved, libCount>>
  BY DEF edit_doc_answer
<1>3. LibRecorded(r) /\ x.doc = r.doc /\ x.seq = r.seq /\ x.call = r.call
  BY <1>2 DEF LibRecorded
<1>4. /\ \A d : ~SoloStale(r, d)
      /\ \A s, y : ~SoloPending(r, s, y)
  BY <1>2 DEF SoloStale, SoloPending
<1>5. ASSUME SoloWith(r) PROVE SoloHistory'
  <2>1. SoloHistory /\ r.call \in docHistory[<<r.doc, r.seq>>].edits
    BY <1>3, <1>5 DEF SoloWith, SoloEdit
  <2>2. \A y \in answered' : y.call \in docHistory[<<y.doc, y.seq>>].edits
    BY <1>2, <1>3, <2>1 DEF SoloHistory
  <2> QED
    BY <1>2, <2>1, <2>2 DEF SoloHistory
<1> QED
  BY <1>1, <1>2, <1>3, <1>4, <1>5, LibEndStep

\* A rename looks up the documents that link here.
LEMMA SourcesStep ==
    ASSUME LibInv, NEW c \in LibClients, backlink_sources(c)
    PROVE  LibInv'
<1> PICK r : r = libReq[c]
  OBVIOUS
<1>1. /\ LibTypeOK /\ LibNumbers /\ r \in LibRequest /\ LibOwn(r)
      /\ docHistory \in [DOMAIN docHistory -> LibText]
      /\ r.doc \in LibDocs \cup {0} /\ r.seq \in Nat /\ r.text \in LibText /\ r.old \in LibAnyPath
      /\ \A d \in DOMAIN meta : d \in LibDocs /\ meta[d].path \in LibAnyPath
  BY LibKnown
<1>w. PICK w : w = incoming_for_target(r.doc) \ {r.doc}
  OBVIOUS
<1>z. PICK z : z = [PathsOf(meta) EXCEPT ![r.doc] = r.old]
  OBVIOUS
<1>2. /\ r.at = "sources" /\ r.doc \in DOMAIN meta /\ r.op = "edit"
      /\ libReq' = LibToTodo(c, "rewrite", w, z)
      /\ UNCHANGED <<meta, text, docHistory, index, backlinks, answered, together, unmoved, libCount>>
  BY <1>1, <1>w, <1>z DEF backlink_sources, LibOwn, LibOnDoc, LibRecorded, LibToTodo
<1> PICK v : v = LibWith(r, "rewrite", r.doc, r.seq, r.text, r.old, w, z)
  OBVIOUS
<1>3. /\ v.at = "rewrite" /\ v.doc = r.doc /\ v.op = r.op /\ v.seq = r.seq
      /\ v.text = r.text /\ v.call = r.call /\ v.old = r.old /\ v.todo = w /\ v.resolve = z
      /\ w \in SUBSET LibDocs /\ z \in LibResolve => v \in LibRequest
  BY <1>1, <1>2, LibWithFields DEF LibPoints
<1>4. z \in LibResolve /\ w \in SUBSET LibDocs
  <2>1. z \in [DOMAIN meta -> LibAnyPath]
    BY <1>1, <1>z DEF PathsOf
  <2>2. DOMAIN meta \in SUBSET LibDocs
    BY <1>1
  <2>3. z \in LibResolve
    BY <2>1, <2>2, Zenon DEF LibResolve
  <2>4. w \in SUBSET LibDocs
    BY <1>1, <1>w DEF incoming_for_target, LibTypeOK
  <2> QED
    BY <2>3, <2>4
<1>5. LibMoves(c, v)
  <2>1. LibToTodo(c, "rewrite", w, z) = [libReq EXCEPT ![c] = v]
    BY <1>1, LibToTwo
  <2> QED
    BY <1>2, <2>1 DEF LibMoves
<1>6. ~LibMaking(v) /\ LibNumbered(v) /\ LibNumbered(r) /\ LibRecorded(v) /\ LibRecorded(r) /\ LibOwn(v)
  BY <1>1, <1>2, <1>3 DEF LibMaking, LibNumbered, LibRecorded, LibOwn, LibOnDoc
<1>7. LibNumberOf(r, v)
  BY <1>1, <1>2, <1>3, <1>6 DEF LibNumberOf, LibNumbers
<1>8. ASSUME SoloWith(r) PROVE SoloTakes(r, v)
  <2>1. DOMAIN backlinks = DOMAIN meta
    BY <1>2, <1>8 DEF SoloWith, SoloDomains
  <2>2. \A d : ~SoloStale(r, d)
    BY <1>2 DEF SoloStale
  <2>3. ASSUME NEW s \in DOMAIN meta, NEW t \in backlinks[s], SoloPending(r, s, t)
        PROVE  SoloPending(v, s, t)
    BY <1>2, <1>3, <2>1, <2>3, <1>w DEF SoloPending, incoming_for_target
  <2> QED
    BY <1>2, <1>3, <2>2, <2>3 DEF SoloTakes
<1>9. ASSUME SoloWith(r) PROVE SoloCreate(v)' /\ SoloEdit(v)' /\ SoloHistory'
  <2>1. r.call \in docHistory[<<r.doc, r.seq>>].edits /\ SoloHistory /\ DOMAIN backlinks = DOMAIN meta
    BY <1>2, <1>6, <1>9 DEF SoloWith, SoloEdit, SoloDomains
  <2>2. v.doc \notin v.todo /\ v.todo \subseteq DOMAIN meta
    BY <1>3, <2>1, <1>w DEF incoming_for_target
  <2>3. SoloCreate(v)'
    BY <1>3, <1>6 DEF SoloCreate
  <2>4. v.resolve = [PathsOf(meta)' EXCEPT ![v.doc] = v.old]
    <3>1. PathsOf(meta)' = PathsOf(meta)
      BY <1>2 DEF PathsOf
    <3> QED
      BY <1>3, <1>z, <3>1
  <2>5. SoloEdit(v)'
    BY <1>2, <1>3, <2>1, <2>2, <2>4 DEF SoloEdit
  <2> QED
    BY <1>2, <2>1, <2>3, <2>5 DEF SoloHistory
<1> QED
  BY <1>1, <1>2, <1>3, <1>4, <1>5, <1>6, <1>7, <1>8, <1>9, LibSameStep

\* The least of some documents is one of them.
LEMMA LeastDoc ==
    ASSUME NEW S \in SUBSET LibDocs, S # {}
    PROVE  Min(S) \in S
<1> DEFINE R == {ss \in Nat \X Nat : ss[1] < ss[2]}
<1>1. IsWellFoundedOn(R, Nat)
  BY NatLessThanWellFounded DEF OpToRel
<1>2. \A m, n \in Nat : <<m, n>> \notin R => n <= m
  OBVIOUS
<1>3. S \subseteq Nat
  BY LibDocsPos
<1> HIDE DEF R
<1>4. PICK x \in S : \A y \in S : ~(<<y, x>> \in R)
  BY <1>1, <1>3, WFMin
<1>5. \E y \in S : \A z \in S : y <= z
  BY <1>2, <1>3, <1>4
<1> QED
  BY <1>5 DEF Min

\* doc.create finds the file there, or makes it and takes an id no document and
\* no other call has.
LEMMA CreateFileStep ==
    ASSUME LibInv, NEW c \in LibClients, create_doc_file(c)
    PROVE  LibInv'
<1> PICK r : r = libReq[c]
  OBVIOUS
<1>1. /\ LibTypeOK /\ LibNumbers /\ r \in LibRequest /\ LibOwn(r)
      /\ docHistory \in [DOMAIN docHistory -> LibText]
      /\ r.doc \in LibDocs \cup {0} /\ r.seq \in Nat /\ r.text \in LibText /\ r.old \in LibAnyPath
      /\ r.todo \in SUBSET LibDocs /\ r.resolve \in LibResolve
      /\ r.call \in Nat /\ r.links \subseteq LibAnyPath
  BY LibKnown
<1>2. /\ r.at = "create_file"
      /\ UNCHANGED <<meta, text, docHistory, index, backlinks, answered, together, unmoved, libCount>>
  BY DEF create_doc_file
<1>3. /\ \A d : ~SoloStale(r, d)
      /\ \A s, t : ~SoloPending(r, s, t)
  BY <1>2 DEF SoloStale, SoloPending
<1>4. SoloHistory => SoloHistory'
  BY <1>2 DEF SoloHistory
<1>5. CASE libReq' = LibEnd(c)
  BY <1>1, <1>2, <1>3, <1>4, <1>5, LibEndStep DEF SoloWith
<1>6. CASE libReq' # LibEnd(c)
  <2>f. PICK S : S = LibDocs \ (DOMAIN text \cup {libReq[x].doc : x \in LibClients})
    OBVIOUS
  <2>t. PICK t : t = [edits |-> {r.call}, links |-> r.links]
    OBVIOUS
  <2>1. S # {} /\ libReq' = LibToDoc(c, "create_index", Min(S), t)
    BY <1>6, <2>f, <2>t DEF create_doc_file, LibToDoc
  <2>d. PICK d : d = Min(S)
    OBVIOUS
  <2>2. /\ d \in LibDocs /\ d \notin DOMAIN text /\ d \notin DOMAIN meta
        /\ \A e \in LibClients : libReq[e].doc # d
    <3>1. S \in SUBSET LibDocs
      BY <2>f
    <3>2. d \in S
      BY <2>1, <2>d, <3>1, LeastDoc
    <3>3. DOMAIN meta \subseteq DOMAIN text
      BY <1>1 DEF LibTypeOK
    <3> QED
      BY <2>f, <3>2, <3>3
  <2>3. t \in LibText /\ t.links = r.links
    BY <1>1, <2>t DEF LibText
  <2> PICK v : v = LibWith(r, "create_index", d, r.seq, t, r.old, r.todo, r.resolve)
    OBVIOUS
  <2>4. /\ v \in LibRequest /\ v.at = "create_index" /\ v.doc = d /\ v.op = r.op /\ v.path = r.path
        /\ v.text = t /\ v.links = r.links
    BY <1>1, <2>2, <2>3, LibWithFields DEF LibPoints
  <2>5. LibMoves(c, v)
    <3>1. LibToDoc(c, "create_index", d, t) = [libReq EXCEPT ![c] = v]
      BY <1>1, LibToTwo
    <3> QED
      BY <2>1, <2>d, <3>1 DEF LibMoves
  <2>6. LibMaking(v) /\ ~LibNumbered(v) /\ ~LibRecorded(v) /\ LibOwn(v)'
    BY <1>1, <1>2, <2>2, <2>4 DEF LibMaking, LibNumbered, LibRecorded, LibOwn, LibOnDoc
  <2>7. LibNumberOf(r, v) /\ LibDocOf(c, r, v)
    BY <2>2, <2>4, <2>6 DEF LibNumberOf, LibDocOf
  <2>8. LibTables(r)
    BY <1>1, <1>2 DEF LibTables, LibTypeOK
  <2>9. LibTypeOK'
    BY <1>1, <1>2, <2>4, <2>5, LibSameTypes DEF LibTypeOK
  <2>10. ASSUME SoloWith(r) PROVE SoloWith(v)'
    <3>1. SoloTakes(r, v)
      BY <1>2, <1>3, <2>4 DEF SoloTakes
    <3>2. SoloCreate(v)' /\ SoloEdit(v)'
      BY <1>2, <2>3, <2>4, <2>6, <2>10 DEF SoloCreate, SoloEdit, SoloWith
    <3> QED
      BY <1>2, <1>4, <2>10, <3>1, <3>2, SoloSame DEF SoloWith
  <2> QED
    BY <1>2, <2>4, <2>5, <2>6, <2>7, <2>8, <2>9, <2>10, LibStep
<1> QED
  BY <1>5, <1>6

\* The new document is put into the index and the table of links.
LEMMA CreateIndexStep ==
    ASSUME LibInv, NEW c \in LibClients, create_doc_index(c)
    PROVE  LibInv'
<1> PICK r : r = libReq[c]
  OBVIOUS
<1>1. /\ LibTypeOK /\ LibNumbers /\ r \in LibRequest /\ LibOwn(r)
      /\ r.doc \in LibDocs \cup {0} /\ r.seq \in Nat /\ r.text \in LibText /\ r.old \in LibAnyPath
      /\ r.todo \in SUBSET LibDocs /\ r.resolve \in LibResolve
  BY LibKnown
<1>p. PICK p : p = Insert(PathsOf(meta), r.doc, r.path)
  OBVIOUS
<1>b. PICK b : b = resolve_wiki_links(r.links, p)
  OBVIOUS
<1>2. /\ r.at = "create_index"
      /\ index' = Insert(index, r.doc, r.text)
      /\ backlinks' = Insert(backlinks, r.doc, b)
      /\ libReq' = LibTo(c, "create_doc")
      /\ UNCHANGED <<meta, text, docHistory, answered, together, unmoved, libCount>>
  BY <1>p, <1>b DEF create_doc_index
<1>3. r.doc \in LibDocs \ DOMAIN meta /\ r.doc \notin DOMAIN text /\ LibMaking(r) /\ r.op = "create"
  BY <1>1, <1>2 DEF LibOwn, LibMaking
<1>4. /\ DOMAIN p = DOMAIN meta \cup {r.doc} /\ p[r.doc] = r.path
      /\ \A t \in DOMAIN meta : p[t] = meta[t].path
  <2>1. DOMAIN PathsOf(meta) = DOMAIN meta /\ \A t \in DOMAIN meta : PathsOf(meta)[t] = meta[t].path
    BY DEF PathsOf
  <2> QED
    BY <1>3, <1>p, <2>1 DEF Insert
<1>5. /\ DOMAIN index' = DOMAIN index \cup {r.doc} /\ index'[r.doc] = r.text
      /\ \A y \in DOMAIN index : y # r.doc => index'[y] = index[y]
      /\ index' \in [DOMAIN index' -> LibText]
  <2>1. index \in [DOMAIN index -> LibText]
    BY <1>1 DEF LibTypeOK
  <2> QED
    BY <1>1, <1>2, <2>1 DEF Insert
<1>6. /\ DOMAIN backlinks' = DOMAIN backlinks \cup {r.doc} /\ backlinks'[r.doc] = b
      /\ \A y \in DOMAIN backlinks : y # r.doc => backlinks'[y] = backlinks[y]
      /\ backlinks' \in [DOMAIN backlinks' -> SUBSET LibDocs] /\ DOMAIN backlinks' \subseteq LibDocs
  <2>1. backlinks \in [DOMAIN backlinks -> SUBSET LibDocs] /\ DOMAIN backlinks \subseteq LibDocs
        /\ DOMAIN meta \subseteq LibDocs
    BY <1>1 DEF LibTypeOK
  <2>2. b \in SUBSET LibDocs
    BY <1>3, <1>4, <1>b, <2>1 DEF resolve_wiki_links
  <2> QED
    BY <1>2, <1>3, <2>1, <2>2 DEF Insert
<1> PICK v : v = LibWith(r, "create_doc", r.doc, r.seq, r.text, r.old, r.todo, r.resolve)
  OBVIOUS
<1>7. /\ v \in LibRequest /\ v.at = "create_doc" /\ v.doc = r.doc /\ v.op = r.op /\ v.path = r.path
      /\ v.text = r.text /\ v.links = r.links
  BY <1>1, LibWithFields DEF LibPoints
<1>8. LibMoves(c, v)
  BY <1>1, <1>2, LibToIs DEF LibMoves
<1>9. LibMaking(v) /\ ~LibNumbered(v) /\ ~LibRecorded(v) /\ LibOwn(v)'
  BY <1>1, <1>2, <1>3, <1>7 DEF LibMaking, LibNumbered, LibRecorded, LibOwn, LibOnDoc
<1>10. LibNumberOf(r, v) /\ LibDocOf(c, r, v)
  BY <1>3, <1>7, <1>9 DEF LibNumberOf, LibDocOf
<1>11. LibTables(r)
  BY <1>1, <1>2 DEF LibTables, LibTypeOK
<1>12. LibTypeOK'
  BY <1>1, <1>2, <1>5, <1>6, <1>7, <1>8 DEF LibTypeOK, LibMoves
<1>13. ASSUME SoloWith(r) PROVE SoloWith(v)'
  <2>0. DOMAIN index = DOMAIN meta /\ DOMAIN backlinks = DOMAIN meta
    BY <1>2, <1>13 DEF SoloWith, SoloDomains
  <2>1. SoloHistory' /\ SoloPaths'
    BY <1>2, <1>13 DEF SoloWith, SoloHistory, SoloPaths
  <2>2. SoloDomains(v)'
    BY <1>2, <1>5, <1>6, <1>7, <2>0 DEF SoloDomains
  <2>3. SoloIndex(v)'
    BY <1>2, <1>3, <1>5, <1>7, <1>13, <2>0 DEF SoloWith, SoloIndex, SoloStale
  <2>4. SoloLinks(v)'
    BY <1>2, <1>3, <1>6, <1>7, <1>13, <2>0 DEF SoloWith, SoloLinks, SoloStale, SoloPending
  <2>5. SoloCreate(v)'
    <3>1. r.text.links = r.links /\ \A d \in DOMAIN meta : meta[d].path # r.path
      BY <1>3, <1>13 DEF SoloWith, SoloCreate
    <3>2. \A t \in backlinks'[r.doc] :
             IF t = r.doc THEN r.path \in r.text.links
             ELSE t \in DOMAIN meta /\ meta[t].path \in r.text.links
      BY <1>4, <1>6, <1>b, <3>1 DEF resolve_wiki_links
    <3> QED
      <4>1. (index[v.doc])' = v.text
        BY <1>5, <1>7
      <4>2. \A t \in (backlinks[v.doc])' :
               IF t = v.doc THEN v.path \in v.text.links
               ELSE t \in DOMAIN meta' /\ (meta[t].path)' \in v.text.links
        BY <1>2, <1>7, <3>2
      <4>3. v.text.links = v.links /\ \A d \in DOMAIN meta' : (meta[d].path)' # v.path
        BY <1>2, <1>7, <3>1
      <4> QED
        BY <1>7, <4>1, <4>2, <4>3 DEF SoloCreate
  <2>6. SoloEdit(v)'
    BY <1>7, <1>9 DEF SoloEdit
  <2> QED
    BY <2>1, <2>2, <2>3, <2>4, <2>5, <2>6 DEF SoloWith
<1> QED
  BY <1>2, <1>7, <1>8, <1>9, <1>10, <1>11, <1>12, <1>13, LibStep

\* The new document is put into memory.
LEMMA CreateInsertStep ==
    ASSUME LibInv, NEW c \in LibClients, create_doc_insert(c)
    PROVE  LibInv'
<1> PICK r : r = libReq[c]
  OBVIOUS
<1>1. /\ LibTypeOK /\ LibNumbers /\ r \in LibRequest /\ LibOwn(r)
      /\ r.doc \in LibDocs \cup {0} /\ r.seq \in Nat /\ r.text \in LibText /\ r.old \in LibAnyPath
      /\ r.todo \in SUBSET LibDocs /\ r.resolve \in LibResolve
  BY LibKnown
<1>2. /\ r.at = "create_doc"
      /\ text' = Insert(text, r.doc, r.text)
      /\ libReq' = LibTo(c, "create_meta")
      /\ UNCHANGED <<meta, docHistory, index, backlinks, answered, together, unmoved, libCount>>
  BY DEF create_doc_insert
<1>3. r.doc \in LibDocs \ DOMAIN meta /\ r.doc \notin DOMAIN text /\ LibMaking(r) /\ r.op = "create"
  BY <1>1, <1>2 DEF LibOwn, LibMaking
<1>4. /\ DOMAIN text' = DOMAIN text \cup {r.doc} /\ text'[r.doc] = r.text
      /\ \A y \in DOMAIN meta : text'[y] = text[y]
      /\ text' \in [DOMAIN text' -> LibText] /\ DOMAIN meta \subseteq DOMAIN text'
      /\ DOMAIN text' \subseteq LibDocs
  <2>1. text \in [DOMAIN text -> LibText] /\ DOMAIN meta \subseteq DOMAIN text /\ DOMAIN text \subseteq LibDocs
    BY <1>1 DEF LibTypeOK
  <2> QED
    BY <1>1, <1>2, <1>3, <2>1 DEF Insert
<1> PICK v : v = LibWith(r, "create_meta", r.doc, r.seq, r.text, r.old, r.todo, r.resolve)
  OBVIOUS
<1>7. /\ v \in LibRequest /\ v.at = "create_meta" /\ v.doc = r.doc /\ v.op = r.op /\ v.path = r.path
      /\ v.text = r.text /\ v.links = r.links
  BY <1>1, LibWithFields DEF LibPoints
<1>8. LibMoves(c, v)
  BY <1>1, <1>2, LibToIs DEF LibMoves
<1>9. LibMaking(v) /\ ~LibNumbered(v) /\ ~LibRecorded(v) /\ LibOwn(v)'
  BY <1>1, <1>2, <1>3, <1>4, <1>7 DEF LibMaking, LibNumbered, LibRecorded, LibOwn, LibOnDoc
<1>10. LibNumberOf(r, v) /\ LibDocOf(c, r, v)
  BY <1>3, <1>7, <1>9 DEF LibNumberOf, LibDocOf
<1>11. LibTables(r)
  <2>1. \A d \in DOMAIN meta : meta[d].seq \in Nat
    BY <1>1 DEF LibTypeOK
  <2> QED
    BY <1>2, <1>3, <1>4, <2>1 DEF LibTables
<1>12. LibTypeOK'
  BY <1>1, <1>2, <1>4, <1>7, <1>8 DEF LibTypeOK, LibMoves
<1>13. ASSUME SoloWith(r) PROVE SoloWith(v)'
  <2>1. SoloHistory'
    BY <1>2, <1>4, <1>13 DEF SoloWith, SoloHistory
  <2>2. SoloDomains(v)' /\ SoloPaths'
    BY <1>2, <1>7, <1>13 DEF SoloWith, SoloDomains, SoloPaths
  <2>3. SoloIndex(v)'
    BY <1>2, <1>3, <1>4, <1>7, <1>13 DEF SoloWith, SoloIndex, SoloStale
  <2>4. SoloLinks(v)'
    BY <1>2, <1>3, <1>4, <1>7, <1>13 DEF SoloWith, SoloLinks, SoloStale, SoloPending
  <2>5. SoloCreate(v)'
    <3>1. /\ r.text.links = r.links /\ \A d \in DOMAIN meta : meta[d].path # r.path
          /\ index[r.doc] = r.text
          /\ \A t \in backlinks[r.doc] :
                IF t = r.doc THEN r.path \in r.text.links
                ELSE t \in DOMAIN meta /\ meta[t].path \in r.text.links
      BY <1>2, <1>3, <1>13 DEF SoloWith, SoloCreate
    <3>2. \A t \in (backlinks[v.doc])' :
             IF t = v.doc THEN v.path \in v.text.links
             ELSE t \in DOMAIN meta' /\ (meta[t].path)' \in v.text.links
      BY <1>2, <1>7, <3>1
    <3>3. /\ v.text.links = v.links /\ \A d \in DOMAIN meta' : (meta[d].path)' # v.path
          /\ (index[v.doc])' = v.text /\ (text[v.doc])' = v.text
      BY <1>2, <1>4, <1>7, <3>1
    <3> QED
      BY <1>7, <3>2, <3>3 DEF SoloCreate
  <2>6. SoloEdit(v)'
    BY <1>7, <1>9 DEF SoloEdit
  <2> QED
    BY <2>1, <2>2, <2>3, <2>4, <2>5, <2>6 DEF SoloWith
<1> QED
  BY <1>2, <1>7, <1>8, <1>9, <1>10, <1>11, <1>12, <1>13, LibStep

\* The new document is known.
LEMMA CreateMetadataStep ==
    ASSUME LibInv, NEW c \in LibClients, create_doc_metadata(c)
    PROVE  LibInv'
<1> PICK r : r = libReq[c]
  OBVIOUS
<1>1. /\ LibTypeOK /\ LibNumbers /\ r \in LibRequest /\ LibOwn(r)
      /\ r.doc \in LibDocs \cup {0} /\ r.seq \in Nat /\ r.text \in LibText /\ r.old \in LibAnyPath
      /\ r.todo \in SUBSET LibDocs /\ r.resolve \in LibResolve /\ r.path \in LibAnyPath
  BY LibKnown
<1>m. PICK m : m = [path |-> r.path, seq |-> 0]
  OBVIOUS
<1>2. /\ r.at = "create_meta"
      /\ meta' = Insert(meta, r.doc, m)
      /\ libReq' = [LibTo(c, "record") EXCEPT ![c].seq = 0]
      /\ UNCHANGED <<text, docHistory, index, backlinks, answered, together, unmoved, libCount>>
  BY <1>m DEF create_doc_metadata
<1>3. r.doc \in LibDocs \ DOMAIN meta /\ r.doc \in DOMAIN text /\ LibMaking(r) /\ r.op = "create"
  BY <1>1, <1>2 DEF LibOwn, LibMaking
<1>4. /\ DOMAIN meta' = DOMAIN meta \cup {r.doc} /\ meta'[r.doc] = m
      /\ \A y \in DOMAIN meta : meta'[y] = meta[y]
      /\ meta' \in [DOMAIN meta' -> [path : LibAnyPath, seq : Nat]] /\ DOMAIN meta' \subseteq DOMAIN text
      /\ m.path = r.path /\ m.seq = 0
  <2>1. meta \in [DOMAIN meta -> [path : LibAnyPath, seq : Nat]] /\ DOMAIN meta \subseteq DOMAIN text
    BY <1>1 DEF LibTypeOK
  <2>2. m \in [path : LibAnyPath, seq : Nat] /\ m.path = r.path /\ m.seq = 0
    BY <1>1, <1>m
  <2> QED
    BY <1>2, <1>3, <2>1, <2>2 DEF Insert
<1> PICK v : v = LibWith(r, "record", r.doc, 0, r.text, r.old, r.todo, r.resolve)
  OBVIOUS
<1>7. /\ v \in LibRequest /\ v.at = "record" /\ v.doc = r.doc /\ v.op = r.op /\ v.path = r.path
      /\ v.text = r.text /\ v.links = r.links /\ v.seq = 0
  BY <1>1, LibWithFields DEF LibPoints
<1>8. LibMoves(c, v)
  BY <1>1, <1>2, LibToIs DEF LibMoves
<1>9. ~LibMaking(v) /\ ~LibNumbered(v) /\ ~LibRecorded(v) /\ LibOwn(v)'
  BY <1>1, <1>2, <1>3, <1>4, <1>7 DEF LibMaking, LibNumbered, LibRecorded, LibOwn, LibOnDoc
<1>10. LibNumberOf(r, v) /\ LibDocOf(c, r, v)
  BY <1>3, <1>7, <1>9 DEF LibNumberOf, LibDocOf
<1>11. LibTables(r)
  <2>1. \A d \in DOMAIN meta : meta[d].seq \in Nat
    BY <1>1 DEF LibTypeOK
  <2>2. \A d \in DOMAIN meta : meta[d].seq <= meta'[d].seq
    BY <1>4, <2>1
  <2> QED
    BY <1>2, <1>3, <1>4, <2>2 DEF LibTables
<1>12. LibTypeOK'
  <2>1. libReq' \in [LibClients -> LibRequest]
    BY <1>1, <1>7, <1>8 DEF LibTypeOK, LibMoves
  <2>2. DOMAIN meta' \subseteq DOMAIN text' /\ DOMAIN text' \subseteq LibDocs
    BY <1>1, <1>2, <1>4 DEF LibTypeOK
  <2> QED
    BY <1>1, <1>2, <1>4, <2>1, <2>2 DEF LibTypeOK
<1>13. ASSUME SoloWith(r) PROVE SoloWith(v)'
  <2>0. /\ r.text.links = r.links /\ \A d \in DOMAIN meta : meta[d].path # r.path
        /\ index[r.doc] = r.text /\ text[r.doc] = r.text
        /\ \A t \in backlinks[r.doc] :
              IF t = r.doc THEN r.path \in r.text.links
              ELSE t \in DOMAIN meta /\ meta[t].path \in r.text.links
        /\ DOMAIN index = DOMAIN meta \cup {r.doc} /\ DOMAIN backlinks = DOMAIN meta \cup {r.doc}
    BY <1>2, <1>3, <1>13 DEF SoloWith, SoloCreate, SoloDomains
  <2>1. SoloHistory'
    BY <1>2, <1>3, <1>4, <1>13 DEF SoloWith, SoloHistory
  <2>2. SoloDomains(v)'
    BY <1>2, <1>4, <1>7, <2>0 DEF SoloDomains
  <2>3. SoloPaths'
    BY <1>3, <1>4, <1>13, <2>0 DEF SoloWith, SoloPaths
  <2>4. SoloIndex(v)'
    BY <1>2, <1>3, <1>4, <1>7, <1>13, <2>0 DEF SoloWith, SoloIndex, SoloStale
  <2>5. SoloLinks(v)'
    <3>1. ASSUME NEW s \in DOMAIN meta' \ unmoved, NEW t \in backlinks[s]
          PROVE  t \in DOMAIN meta' /\ meta'[t].path \in text[s].links
      <4>1. CASE s = r.doc
        BY <1>4, <2>0, <3>1, <4>1
      <4>2. CASE s \in DOMAIN meta
        <5>1. t \in DOMAIN meta /\ meta[t].path \in text[s].links
          BY <1>3, <1>13, <3>1, <4>2 DEF SoloWith, SoloLinks, SoloStale, SoloPending
        <5> QED
          BY <1>3, <1>4, <5>1
      <4> QED
        BY <1>4, <4>1, <4>2
    <3> QED
      BY <1>2, <3>1 DEF SoloLinks
  <2>6. SoloCreate(v)'
    BY <1>7, <1>9 DEF SoloCreate
  <2>7. SoloEdit(v)'
    BY <1>2, <1>3, <1>4, <1>7, <1>9, <2>0 DEF SoloEdit
  <2> QED
    BY <2>1, <2>2, <2>3, <2>4, <2>5, <2>6, <2>7 DEF SoloWith
<1> QED
  BY <1>2, <1>7, <1>8, <1>9, <1>10, <1>11, <1>12, <1>13, LibStep

\* doc.edit changes the text.
LEMMA EditApplyStep ==
    ASSUME LibInv, NEW c \in LibClients, edit_doc_apply(c)
    PROVE  LibInv'
<1> PICK r : r = libReq[c]
  OBVIOUS
<1>1. /\ LibTypeOK /\ LibNumbers /\ r \in LibRequest /\ LibOwn(r)
      /\ r.doc \in LibDocs \cup {0} /\ r.seq \in Nat /\ r.links \subseteq LibAnyPath /\ r.old \in LibAnyPath
      /\ r.todo \in SUBSET LibDocs /\ r.resolve \in LibResolve /\ r.call \in Nat
      /\ \A d \in DOMAIN meta : d \in DOMAIN text /\ text[d] \in LibText
  BY LibKnown
<1>t. PICK t : t = [edits |-> text[r.doc].edits \cup {r.call}, links |-> r.links]
  OBVIOUS
<1>2. /\ r.at = "edit_apply"
      /\ text' = [text EXCEPT ![r.doc] = t]
      /\ libReq' = [LibTo(c, "edit_meta") EXCEPT ![c].text = text'[r.doc]]
      /\ UNCHANGED <<meta, docHistory, index, backlinks, answered, together, unmoved, libCount>>
  BY <1>t DEF edit_doc_apply
<1>3. r.doc \in DOMAIN meta /\ r.op = "edit" /\ r.doc \in DOMAIN text
  BY <1>1, <1>2 DEF LibOwn, LibOnDoc
<1>4. /\ DOMAIN text' = DOMAIN text /\ text'[r.doc] = t
      /\ \A y \in DOMAIN meta : y # r.doc => text'[y] = text[y]
      /\ text' \in [DOMAIN text -> LibText]
      /\ t \in LibText /\ t.edits = text[r.doc].edits \cup {r.call}
  <2>1. text \in [DOMAIN text -> LibText] /\ DOMAIN meta \subseteq DOMAIN text
    BY <1>1 DEF LibTypeOK
  <2>2. t \in LibText /\ t.edits = text[r.doc].edits \cup {r.call}
    BY <1>1, <1>3, <1>t DEF LibText
  <2> QED
    BY <1>2, <1>3, <2>1, <2>2
<1> PICK v : v = LibWith(r, "edit_meta", r.doc, r.seq, t, r.old, r.todo, r.resolve)
  OBVIOUS
<1>7. /\ v \in LibRequest /\ v.at = "edit_meta" /\ v.doc = r.doc /\ v.op = r.op
      /\ v.text = t /\ v.call = r.call
  BY <1>1, <1>4, LibWithFields DEF LibPoints
<1>8. LibMoves(c, v)
  BY <1>1, <1>2, <1>4, LibToIs DEF LibMoves
<1>9. ~LibMaking(v) /\ ~LibNumbered(v) /\ ~LibRecorded(v) /\ LibOwn(v)'
  BY <1>1, <1>2, <1>3, <1>4, <1>7 DEF LibMaking, LibNumbered, LibRecorded, LibOwn, LibOnDoc
<1>10. LibNumberOf(r, v) /\ LibDocOf(c, r, v)
  BY <1>3, <1>7, <1>9 DEF LibNumberOf, LibDocOf
<1>11. LibTables(r)
  <2>1. \A d \in DOMAIN meta : meta[d].seq \in Nat
    BY <1>1 DEF LibTypeOK
  <2> QED
    BY <1>2, <1>4, <2>1 DEF LibTables
<1>12. LibTypeOK'
  <2>1. libReq' \in [LibClients -> LibRequest]
    BY <1>1, <1>7, <1>8 DEF LibTypeOK, LibMoves
  <2>2. DOMAIN meta' \subseteq DOMAIN text' /\ DOMAIN text' \subseteq LibDocs
    BY <1>1, <1>2, <1>4 DEF LibTypeOK
  <2> QED
    BY <1>1, <1>2, <1>4, <2>1, <2>2 DEF LibTypeOK
<1>13. ASSUME SoloWith(r) PROVE SoloWith(v)'
  <2>1. SoloHistory'
    <3>1. \A d \in DOMAIN meta : text[d].edits \subseteq text'[d].edits
      BY <1>4
    <3> QED
      BY <1>2, <1>13, <3>1 DEF SoloWith, SoloHistory
  <2>2. SoloDomains(v)' /\ SoloPaths'
    BY <1>2, <1>7, <1>13 DEF SoloWith, SoloDomains, SoloPaths
  <2>3. \A d \in DOMAIN meta : SoloStale(v, d) \/ (d # r.doc /\ ~SoloStale(r, d) /\ text'[d] = text[d])
    BY <1>2, <1>3, <1>4, <1>7 DEF SoloStale
  <2>4. SoloIndex(v)'
    <3>1. \A d \in DOMAIN meta \ unmoved : ~SoloStale(v, d) => text'[d].edits \subseteq index[d].edits
      BY <1>13, <2>3 DEF SoloWith, SoloIndex
    <3> QED
      BY <1>2, <3>1 DEF SoloIndex, SoloStale
  <2>5. SoloLinks(v)'
    <3>1. \A s \in DOMAIN meta \ unmoved : ~SoloStale(v, s) =>
             \A x \in backlinks[s] : x \in DOMAIN meta /\ meta[x].path \in text'[s].links
      BY <1>2, <1>13, <2>3 DEF SoloWith, SoloLinks, SoloPending
    <3> QED
      BY <1>2, <3>1 DEF SoloLinks, SoloStale
  <2>6. SoloCreate(v)'
    BY <1>7, <1>9 DEF SoloCreate
  <2>7. SoloEdit(v)'
    BY <1>2, <1>3, <1>4, <1>7, <1>9 DEF SoloEdit
  <2> QED
    BY <2>1, <2>2, <2>4, <2>5, <2>6, <2>7 DEF SoloWith
<1> QED
  BY <1>2, <1>7, <1>8, <1>9, <1>10, <1>11, <1>12, <1>13, LibStep

\* doc.edit takes the next number and the new path, or fails over a path in use
\* with the text already changed.
LEMMA EditMetadataStep ==
    ASSUME LibInv, NEW c \in LibClients, edit_doc_metadata(c)
    PROVE  LibInv'
<1> PICK r : r = libReq[c]
  OBVIOUS
<1>1. /\ LibTypeOK /\ LibNumbers /\ r \in LibRequest /\ LibOwn(r)
      /\ docHistory \in [DOMAIN docHistory -> LibText]
      /\ r.doc \in LibDocs \cup {0} /\ r.text \in LibText
      /\ r.todo \in SUBSET LibDocs /\ r.resolve \in LibResolve /\ r.path \in LibAnyPath
      /\ \A d \in DOMAIN meta : d \in LibDocs /\ meta[d].seq \in Nat /\ meta[d].path \in LibAnyPath
  BY LibKnown
<1>2. /\ r.at = "edit_meta"
      /\ UNCHANGED <<text, docHistory, index, backlinks, answered, together, libCount>>
  BY DEF edit_doc_metadata
<1>3. r.doc \in DOMAIN meta /\ r.op = "edit"
  BY <1>1, <1>2 DEF LibOwn, LibOnDoc
<1>4. CASE \E d \in DOMAIN meta \ {r.doc} : meta[d].path = r.path
  <2>1. libReq' = LibEnd(c) /\ unmoved' = unmoved \cup {r.doc} /\ UNCHANGED meta
    BY <1>4 DEF edit_doc_metadata
  <2> PICK v : v = LibIdle
    OBVIOUS
  <2>2. /\ v \in LibRequest /\ v.at = "idle" /\ v.doc = 0 /\ v.op = "none"
        /\ ~LibMaking(v) /\ ~LibNumbered(v) /\ ~LibRecorded(v)
    BY LibIdleIs
  <2>3. LibOwn(v)' /\ SoloCreate(v)' /\ SoloEdit(v)'
    BY <2>2 DEF LibOwn, SoloCreate, SoloEdit, LibMaking, LibRecorded, LibOnDoc
  <2>4. LibMoves(c, v)
    BY <2>1 DEF LibMoves, LibEnd
  <2>5. LibNumberOf(r, v) /\ LibDocOf(c, r, v)
    BY <2>2 DEF LibNumberOf, LibDocOf
  <2>6. LibTables(r)
    BY <1>1, <1>2, <2>1 DEF LibTables
  <2>7. LibTypeOK'
    <3>1. libReq' \in [LibClients -> LibRequest] /\ unmoved' \subseteq LibDocs
      BY <1>1, <1>3, <2>1, <2>2, <2>4 DEF LibTypeOK, LibMoves
    <3> QED
      BY <1>1, <1>2, <2>1, <3>1 DEF LibTypeOK
  <2>8. ASSUME SoloWith(r) PROVE SoloWith(v)'
    <3>1. SoloHistory' /\ SoloPaths' /\ SoloDomains(v)'
      BY <1>2, <2>1, <2>2, <2>8 DEF SoloWith, SoloHistory, SoloPaths, SoloDomains
    <3>2. SoloIndex(v)'
      BY <1>2, <2>1, <2>8 DEF SoloWith, SoloIndex, SoloStale
    <3>3. SoloLinks(v)'
      <4>1. \A s \in DOMAIN meta \ unmoved' : \A x \in backlinks[s] :
               x \in DOMAIN meta /\ meta[x].path \in text[s].links
        BY <1>2, <2>1, <2>8 DEF SoloWith, SoloLinks, SoloStale, SoloPending
      <4> QED
        BY <1>2, <2>1, <4>1 DEF SoloLinks
    <3> QED
      BY <2>3, <3>1, <3>2, <3>3 DEF SoloWith
  <2> QED
    BY <1>2, <2>2, <2>3, <2>4, <2>5, <2>6, <2>7, <2>8, LibStep
<1>5. CASE \A d \in DOMAIN meta \ {r.doc} : meta[d].path # r.path
  <2>p. PICK p : p = IF r.path = "" THEN meta[r.doc].path ELSE r.path
    OBVIOUS
  <2>n. PICK n : n = meta[r.doc].seq + 1
    OBVIOUS
  <2>m. PICK m : m = [path |-> p, seq |-> n]
    OBVIOUS
  <2>o. PICK o : o = meta[r.doc].path
    OBVIOUS
  <2>1. /\ meta' = [meta EXCEPT ![r.doc] = m]
        /\ libReq' = LibToSeq(c, "record", meta'[r.doc].seq, o)
        /\ UNCHANGED unmoved
    BY <1>5, <2>p, <2>n, <2>m, <2>o DEF edit_doc_metadata, LibToSeq
  <2>2. n \in Nat /\ meta[r.doc].seq < n /\ p \in LibAnyPath /\ o \in LibAnyPath
    <3>1. meta[r.doc].seq \in Nat /\ meta[r.doc].path \in LibAnyPath
      BY <1>1, <1>3
    <3>2. n \in Nat /\ meta[r.doc].seq < n
      BY <2>n, <3>1
    <3>3. p \in LibAnyPath
      BY <1>1, <2>p, <3>1
    <3> QED
      BY <2>o, <3>1, <3>2, <3>3
  <2>3. m \in [path : LibAnyPath, seq : Nat] /\ m.path = p /\ m.seq = n
    BY <2>2, <2>m
  <2>4. /\ DOMAIN meta' = DOMAIN meta /\ meta'[r.doc] = m
        /\ \A y \in DOMAIN meta : y # r.doc => meta'[y] = meta[y]
        /\ meta' \in [DOMAIN meta -> [path : LibAnyPath, seq : Nat]]
    <3>1. meta \in [DOMAIN meta -> [path : LibAnyPath, seq : Nat]]
      BY <1>1 DEF LibTypeOK
    <3> QED
      BY <1>3, <2>1, <2>3, <3>1
  <2> PICK v : v = LibWith(r, "record", r.doc, n, r.text, o, r.todo, r.resolve)
    OBVIOUS
  <2>5. /\ v \in LibRequest /\ v.at = "record" /\ v.doc = r.doc /\ v.op = r.op /\ v.seq = n
        /\ v.text = r.text /\ v.old = o /\ v.call = r.call
    BY <1>1, <2>2, LibWithFields DEF LibPoints
  <2>6. LibMoves(c, v)
    <3>1. LibToSeq(c, "record", n, o) = [libReq EXCEPT ![c] = v]
      BY <1>1, LibToTwo
    <3> QED
      BY <2>1, <2>3, <2>4, <3>1 DEF LibMoves
  <2>7. ~LibMaking(v) /\ ~LibRecorded(v) /\ LibOwn(v)'
    BY <1>3, <2>4, <2>5 DEF LibMaking, LibRecorded, LibOwn, LibOnDoc
  <2>8. LibNumberOf(r, v) /\ LibDocOf(c, r, v)
    <3>1. v.seq <= meta'[v.doc].seq
      BY <2>2, <2>3, <2>4, <2>5
    <3> QED
      BY <1>3, <2>2, <2>5, <2>7, <3>1 DEF LibNumberOf, LibDocOf
  <2>9. LibTables(r)
    <3>1. \A d \in DOMAIN meta : meta[d].seq <= meta'[d].seq
      BY <1>1, <2>2, <2>3, <2>4
    <3> QED
      BY <1>2, <2>4, <3>1 DEF LibTables
  <2>10. LibTypeOK'
    <3>1. libReq' \in [LibClients -> LibRequest]
      BY <1>1, <2>5, <2>6 DEF LibTypeOK, LibMoves
    <3> QED
      BY <1>1, <1>2, <2>1, <2>4, <3>1 DEF LibTypeOK
  <2>11. ASSUME SoloWith(r) PROVE SoloWith(v)'
    <3>0. SoloHistory /\ SoloPaths /\ r.text = text[r.doc] /\ r.call \in r.text.edits
      BY <1>2, <1>3, <2>11 DEF SoloWith, SoloEdit
    <3>1. SoloHistory'
      <4>1. \A k \in DOMAIN docHistory : k \in (DOMAIN meta) \X Nat /\ k[2] <= meta[k[1]].seq
        BY <3>0 DEF SoloHistory
      <4>2. \A d \in DOMAIN meta : meta[d].seq <= meta'[d].seq /\ meta[d].seq \in Nat /\ meta'[d].seq \in Nat
        BY <1>1, <2>2, <2>3, <2>4
      <4>3. \A i, j, k \in Nat : i <= j /\ j <= k => i <= k
        OBVIOUS
      <4>4. \A k \in DOMAIN docHistory : k[2] <= meta'[k[1]].seq
        BY <4>1, <4>2, <4>3
      <4> QED
        BY <1>2, <2>4, <3>0, <4>1, <4>4 DEF SoloHistory
    <3>2. SoloPaths'
      <4>1. \A d \in DOMAIN meta \ {r.doc} : meta[d].path # p
        BY <1>3, <1>5, <2>p, <3>0 DEF SoloPaths
      <4>2. \A d \in DOMAIN meta \ {r.doc} : meta'[d].path = meta[d].path
        BY <2>4
      <4> QED
        BY <2>3, <2>4, <3>0, <4>1, <4>2 DEF SoloPaths
    <3>3. SoloDomains(v)'
      BY <1>2, <2>4, <2>5, <2>11 DEF SoloWith, SoloDomains
    <3>4. \A d \in DOMAIN meta : SoloStale(v, d) \/ (d # r.doc /\ ~SoloStale(r, d))
      BY <1>2, <1>3, <2>5 DEF SoloStale
    <3>5. SoloIndex(v)'
      <4>1. \A d \in DOMAIN meta \ unmoved : ~SoloStale(v, d) => text[d].edits \subseteq index[d].edits
        BY <2>11, <3>4 DEF SoloWith, SoloIndex
      <4> QED
        BY <1>2, <2>1, <2>4, <4>1 DEF SoloIndex, SoloStale
    <3>6. SoloLinks(v)'
      <4>1. ASSUME NEW s \in DOMAIN meta \ unmoved, ~SoloStale(v, s), NEW x \in backlinks[s]
            PROVE  x \in DOMAIN meta /\ (meta'[x].path \in text[s].links \/ SoloPending(v, s, x))
        <5>1. s # r.doc /\ x \in DOMAIN meta /\ meta[x].path \in text[s].links
          BY <1>2, <2>11, <3>4, <4>1 DEF SoloWith, SoloLinks, SoloPending
        <5>2. CASE x = r.doc
          BY <1>3, <2>5, <2>o, <5>1, <5>2 DEF SoloPending
        <5>3. CASE x # r.doc
          BY <2>4, <5>1, <5>3
        <5> QED
          BY <5>1, <5>2, <5>3
      <4> QED
        BY <1>2, <2>1, <2>4, <4>1 DEF SoloLinks, SoloStale, SoloPending
    <3>7. SoloCreate(v)'
      BY <2>5, <2>7 DEF SoloCreate
    <3>8. <<r.doc, n>> \notin DOMAIN docHistory
      <4>1. SUFFICES ASSUME <<r.doc, n>> \in DOMAIN docHistory PROVE FALSE
        OBVIOUS
      <4>2. n <= meta[r.doc].seq
        BY <3>0, <4>1 DEF SoloHistory
      <4> QED
        BY <1>1, <1>3, <2>2, <4>2
    <3>9. SoloEdit(v)'
      <4>1. v.seq = (meta[v.doc].seq)'
        BY <2>3, <2>4, <2>5
      <4> QED
        BY <1>2, <2>5, <2>7, <3>0, <3>8, <4>1 DEF SoloEdit
    <3> QED
      BY <3>1, <3>2, <3>3, <3>5, <3>6, <3>7, <3>9 DEF SoloWith
  <2> QED
    BY <1>2, <2>5, <2>6, <2>7, <2>8, <2>9, <2>10, <2>11, LibStep
<1> QED
  BY <1>4, <1>5

\* The document's entries in the index and the table of links are renewed.
LEMMA RefreshStep ==
    ASSUME LibInv, NEW c \in LibClients, refresh_search_and_backlinks_for_doc(c)
    PROVE  LibInv'
<1> PICK r : r = libReq[c]
  OBVIOUS
<1>1. /\ LibTypeOK /\ LibNumbers /\ r \in LibRequest /\ LibOwn(r)
      /\ r.doc \in LibDocs \cup {0} /\ r.seq \in Nat /\ r.text \in LibText /\ r.old \in LibAnyPath
      /\ r.todo \in SUBSET LibDocs /\ r.resolve \in LibResolve
      /\ \A d \in DOMAIN meta : d \in LibDocs /\ meta[d].seq \in Nat
  BY LibKnown
<1>b. PICK b : b = resolve_wiki_links(r.text.links, PathsOf(meta))
  OBVIOUS
<1>a. PICK at : at = IF meta[r.doc].path = r.old THEN "answer" ELSE "sources"
  OBVIOUS
<1>2. /\ r.at = "refresh"
      /\ index' = [index EXCEPT ![r.doc] = r.text]
      /\ backlinks' = [backlinks EXCEPT ![r.doc] = b]
      /\ libReq' = LibTo(c, at)
      /\ UNCHANGED <<meta, text, docHistory, answered, together, unmoved, libCount>>
  BY <1>b, <1>a DEF refresh_search_and_backlinks_for_doc
<1>3. r.doc \in DOMAIN meta /\ r.op = "edit" /\ at \in {"answer", "sources"}
  BY <1>1, <1>2, <1>a DEF LibOwn, LibOnDoc, LibRecorded
<1>4. \A t : t \in b <=> t \in DOMAIN meta /\ meta[t].path \in r.text.links
  BY <1>b DEF resolve_wiki_links, PathsOf
<1>5. /\ DOMAIN index' = DOMAIN index /\ index' \in [DOMAIN index' -> LibText]
      /\ r.doc \in DOMAIN index => index'[r.doc] = r.text
      /\ \A y \in DOMAIN index : y # r.doc => index'[y] = index[y]
  <2>1. index \in [DOMAIN index -> LibText]
    BY <1>1 DEF LibTypeOK
  <2> QED
    BY <1>1, <1>2, <2>1
<1>6. /\ DOMAIN backlinks' = DOMAIN backlinks /\ backlinks' \in [DOMAIN backlinks' -> SUBSET LibDocs]
      /\ r.doc \in DOMAIN backlinks => backlinks'[r.doc] = b
      /\ \A y \in DOMAIN backlinks : y # r.doc => backlinks'[y] = backlinks[y]
  <2>1. backlinks \in [DOMAIN backlinks -> SUBSET LibDocs] /\ b \in SUBSET LibDocs
    BY <1>1, <1>4 DEF LibTypeOK
  <2> QED
    BY <1>2, <2>1
<1> PICK v : v = LibWith(r, at, r.doc, r.seq, r.text, r.old, r.todo, r.resolve)
  OBVIOUS
<1>7. /\ v \in LibRequest /\ v.at = at /\ v.doc = r.doc /\ v.op = r.op /\ v.seq = r.seq
      /\ v.text = r.text /\ v.old = r.old /\ v.call = r.call
  BY <1>1, <1>3, LibWithFields DEF LibPoints
<1>8. LibMoves(c, v)
  BY <1>1, <1>2, LibToIs DEF LibMoves
<1>9. ~LibMaking(v) /\ LibRecorded(v) /\ LibRecorded(r) /\ LibNumbered(v) /\ LibNumbered(r) /\ LibOwn(v)'
  BY <1>1, <1>2, <1>3, <1>7 DEF LibMaking, LibNumbered, LibRecorded, LibOwn, LibOnDoc
<1>10. LibNumberOf(r, v) /\ LibDocOf(c, r, v)
  BY <1>1, <1>2, <1>7, <1>9 DEF LibNumberOf, LibDocOf, LibNumbers
<1>11. LibTables(r)
  BY <1>1, <1>2 DEF LibTables
<1>12. LibTypeOK'
  <2>1. libReq' \in [LibClients -> LibRequest]
    BY <1>1, <1>7, <1>8 DEF LibTypeOK, LibMoves
  <2> QED
    BY <1>1, <1>2, <1>5, <1>6, <2>1 DEF LibTypeOK
<1>13. ASSUME SoloWith(r) PROVE SoloWith(v)'
  <2>0. /\ DOMAIN index = DOMAIN meta /\ DOMAIN backlinks = DOMAIN meta /\ r.text = text[r.doc]
        /\ r.call \in docHistory[<<r.doc, r.seq>>].edits
    BY <1>2, <1>9, <1>13 DEF SoloWith, SoloDomains, SoloEdit
  <2>1. SoloHistory' /\ SoloPaths'
    BY <1>2, <1>13 DEF SoloWith, SoloHistory, SoloPaths
  <2>2. SoloDomains(v)'
    BY <1>2, <1>3, <1>5, <1>6, <1>7, <2>0 DEF SoloDomains
  <2>3. \A d \in DOMAIN meta : d = r.doc \/ ~SoloStale(r, d)
    BY DEF SoloStale
  <2>4. SoloIndex(v)'
    <3>1. ASSUME NEW d \in DOMAIN meta \ unmoved PROVE text[d].edits \subseteq index'[d].edits
      <4>1. CASE d = r.doc
        BY <1>5, <2>0, <4>1
      <4>2. CASE d # r.doc
        BY <1>5, <1>13, <2>0, <2>3, <4>2 DEF SoloWith, SoloIndex
      <4> QED
        BY <4>1, <4>2
    <3> QED
      BY <1>2, <3>1 DEF SoloIndex
  <2>5. SoloLinks(v)'
    <3>1. ASSUME NEW s \in DOMAIN meta \ unmoved, NEW t \in backlinks'[s]
          PROVE  t \in DOMAIN meta /\ (meta[t].path \in text[s].links \/ SoloPending(v, s, t))
      <4>1. CASE s = r.doc
        BY <1>4, <1>6, <2>0, <3>1, <4>1
      <4>2. CASE s # r.doc
        <5>1. t \in DOMAIN meta /\ (meta[t].path \in text[s].links \/ SoloPending(r, s, t))
          BY <1>6, <1>13, <2>0, <2>3, <3>1, <4>2 DEF SoloWith, SoloLinks
        <5>2. SoloPending(r, s, t) => meta[t].path \in text[s].links \/ SoloPending(v, s, t)
          BY <1>a, <1>2, <1>3, <1>7 DEF SoloPending
        <5> QED
          BY <5>1, <5>2
      <4> QED
        BY <4>1, <4>2
    <3> QED
      BY <1>2, <3>1 DEF SoloLinks, SoloPending
  <2>6. SoloCreate(v)'
    BY <1>3, <1>7, <1>9 DEF SoloCreate
  <2>7. SoloEdit(v)'
    BY <1>2, <1>3, <1>7, <2>0 DEF SoloEdit
  <2> QED
    BY <2>1, <2>2, <2>4, <2>5, <2>6, <2>7 DEF SoloWith
<1> QED
  BY <1>2, <1>7, <1>8, <1>9, <1>10, <1>11, <1>12, <1>13, LibStep

\* A text whose links to a renamed document are rewritten has its edits, and
\* links to the new path if it linked to the old one.
LEMMA RewriteIs ==
    ASSUME NEW t \in LibText, NEW d, NEW paths, NEW p \in LibAnyPath, NEW x,
           x = rewrite_backlinks_for_renamed_target(t, d, paths, p)
    PROVE  /\ x \in LibText /\ x.edits = t.edits
           /\ d \in DOMAIN paths /\ paths[d] \in t.links => p \in x.links
<1>h. PICK hit : hit = {q \in t.links : d \in resolve_wiki_links({q}, paths)}
  OBVIOUS
<1>l. PICK l : l = IF hit = {} THEN t.links ELSE (t.links \ hit) \cup {p}
  OBVIOUS
<1>1. x = [t EXCEPT !.links = l]
  BY <1>h, <1>l DEF rewrite_backlinks_for_renamed_target
<1>2. l \subseteq LibAnyPath
  BY <1>l DEF LibText
<1>3. x \in LibText /\ x.edits = t.edits /\ x.links = l
  BY <1>1, <1>2 DEF LibText
<1>4. ASSUME d \in DOMAIN paths, paths[d] \in t.links PROVE p \in l
  <2>1. paths[d] \in hit
    BY <1>4, <1>h DEF resolve_wiki_links
  <2> QED
    BY <2>1, <1>l
<1> QED
  BY <1>3, <1>4

\* One document that links to the renamed one is rewritten.
LEMMA RewriteStep ==
    ASSUME LibInv, NEW c \in LibClients, auto_update_backlinks_for_renamed_doc(c)
    PROVE  LibInv'
<1> PICK r : r = libReq[c]
  OBVIOUS
<1>1. /\ LibTypeOK /\ LibNumbers /\ r \in LibRequest /\ LibOwn(r)
      /\ docHistory \in [DOMAIN docHistory -> LibText]
      /\ r.doc \in LibDocs \cup {0} /\ r.seq \in Nat /\ r.text \in LibText /\ r.old \in LibAnyPath
      /\ r.todo \in SUBSET LibDocs /\ r.resolve \in LibResolve
      /\ \A d \in DOMAIN meta : /\ d \in LibDocs /\ meta[d].seq \in Nat /\ meta[d].path \in LibAnyPath
                                /\ d \in DOMAIN text /\ text[d] \in LibText
  BY LibKnown
<1>s. PICK s : s = Min(r.todo)
  OBVIOUS
<1>x. PICK x : x = rewrite_backlinks_for_renamed_target(text[s], r.doc, r.resolve, meta[r.doc].path)
  OBVIOUS
<1>b. PICK b : b = resolve_wiki_links(x.links, PathsOf(meta'))
  OBVIOUS
<1>2. /\ r.at = "rewrite" /\ r.todo # {}
      /\ libReq' = [libReq EXCEPT ![c].todo = @ \ {s}]
      /\ UNCHANGED <<answered, together, unmoved, libCount>>
      /\ \/ /\ s \notin DOMAIN meta \/ x = text[s]
            /\ UNCHANGED <<meta, text, docHistory, index, backlinks>>
         \/ /\ s \in DOMAIN meta
            /\ text' = [text EXCEPT ![s] = x]
            /\ meta' = [meta EXCEPT ![s].seq = @ + 1]
            /\ docHistory' = record_doc_snapshot(s, meta'[s].seq, x)
            /\ index' = [index EXCEPT ![s] = x]
            /\ backlinks' = [backlinks EXCEPT ![s] = b]
  BY <1>s, <1>x, <1>b DEF auto_update_backlinks_for_renamed_doc
<1>3. r.doc \in DOMAIN meta /\ r.op = "edit" /\ s \in r.todo /\ s \in LibDocs
  <2>1. s \in r.todo
    BY <1>1, <1>2, <1>s, LeastDoc
  <2> QED
    BY <1>1, <1>2, <2>1 DEF LibOwn, LibOnDoc, LibRecorded
<1>w. PICK w : w = r.todo \ {s}
  OBVIOUS
<1> PICK v : v = LibWith(r, "rewrite", r.doc, r.seq, r.text, r.old, w, r.resolve)
  OBVIOUS
<1>4. /\ v \in LibRequest /\ v.at = "rewrite" /\ v.doc = r.doc /\ v.op = r.op /\ v.seq = r.seq
      /\ v.text = r.text /\ v.old = r.old /\ v.call = r.call /\ v.todo = w /\ v.resolve = r.resolve
  BY <1>1, <1>w, LibWithFields DEF LibPoints
<1>5. LibMoves(c, v)
  <2>1. [r EXCEPT !.todo = w] = v
    <3>1. r = LibWith(r, "rewrite", r.doc, r.seq, r.text, r.old, r.todo, r.resolve)
      BY <1>1, <1>2, LibRequestIs
    <3> QED
      BY <3>1 DEF LibWith
  <2>2. libReq' = [libReq EXCEPT ![c] = [r EXCEPT !.todo = w]]
    BY <1>2, <1>w
  <2> QED
    BY <2>1, <2>2 DEF LibMoves
<1>6. ~LibMaking(v) /\ LibRecorded(v) /\ LibRecorded(r) /\ LibNumbered(v) /\ LibNumbered(r) /\ LibOwn(v)
  BY <1>1, <1>2, <1>3, <1>4 DEF LibMaking, LibNumbered, LibRecorded, LibOwn, LibOnDoc
<1>7. ASSUME SoloWith(r), s \in DOMAIN meta
      PROVE  r.old \in text[s].links => meta[r.doc].path \in x.links
  <2>1. r.resolve = [PathsOf(meta) EXCEPT ![r.doc] = r.old]
    BY <1>2, <1>7 DEF SoloWith, SoloEdit
  <2>2. r.doc \in DOMAIN r.resolve /\ r.resolve[r.doc] = r.old
    BY <1>3, <2>1 DEF PathsOf
  <2> QED
    BY <1>1, <1>3, <1>7, <1>x, <2>2, RewriteIs
<1>8. CASE UNCHANGED <<meta, text, docHistory, index, backlinks>> /\ (s \notin DOMAIN meta \/ x = text[s])
  <2>1. LibNumberOf(r, v)
    BY <1>1, <1>4, <1>6, <1>8 DEF LibNumberOf, LibNumbers
  <2>2. ASSUME SoloWith(r) PROVE SoloTakes(r, v)
    <3>1. ASSUME NEW y \in DOMAIN meta, NEW t \in backlinks[y], SoloPending(r, y, t)
          PROVE  meta[t].path \in text[y].links \/ SoloPending(v, y, t)
      <4>1. CASE y = s
        BY <1>7, <1>8, <2>2, <3>1, <4>1 DEF SoloPending
      <4>2. CASE y # s
        BY <1>2, <1>4, <1>w, <3>1, <4>2 DEF SoloPending
      <4> QED
        BY <4>1, <4>2
    <3>2. \A d : ~SoloStale(r, d)
      BY <1>2 DEF SoloStale
    <3> QED
      BY <1>2, <1>4, <3>1, <3>2 DEF SoloTakes
  <2>3. ASSUME SoloWith(r) PROVE SoloHistory' /\ SoloCreate(v)' /\ SoloEdit(v)'
    <3>1. SoloHistory'
      BY <1>2, <1>8, <2>3 DEF SoloWith, SoloHistory
    <3>2. SoloCreate(v)'
      BY <1>4, <1>6 DEF SoloCreate
    <3>3. /\ r.doc \notin r.todo /\ r.todo \subseteq DOMAIN meta
          /\ r.resolve = [PathsOf(meta) EXCEPT ![r.doc] = r.old]
          /\ r.call \in docHistory[<<r.doc, r.seq>>].edits
      BY <1>2, <1>6, <2>3 DEF SoloWith, SoloEdit
    <3>4. PathsOf(meta)' = PathsOf(meta)
      BY <1>8 DEF PathsOf
    <3>5. v.resolve = [PathsOf(meta)' EXCEPT ![v.doc] = v.old]
      BY <1>4, <3>3, <3>4
    <3>6. SoloEdit(v)'
      BY <1>4, <1>8, <1>w, <3>3, <3>5 DEF SoloEdit
    <3> QED
      BY <3>1, <3>2, <3>6
  <2> QED
    BY <1>1, <1>2, <1>4, <1>5, <1>6, <1>8, <2>1, <2>2, <2>3, LibSameStep
<1>9. CASE /\ s \in DOMAIN meta
           /\ text' = [text EXCEPT ![s] = x]
           /\ meta' = [meta EXCEPT ![s].seq = @ + 1]
           /\ docHistory' = record_doc_snapshot(s, meta'[s].seq, x)
           /\ index' = [index EXCEPT ![s] = x]
           /\ backlinks' = [backlinks EXCEPT ![s] = b]
  <2>n. PICK n : n = meta[s].seq + 1
    OBVIOUS
  <2>1. x \in LibText /\ x.edits = text[s].edits
    BY <1>1, <1>3, <1>9, <1>x, RewriteIs
  <2>2. n \in Nat /\ meta[s].seq \in Nat /\ meta[s].seq < n
    <3>1. meta[s].seq \in Nat
      BY <1>1, <1>9
    <3> QED
      BY <2>n, <3>1
  <2>3. /\ DOMAIN meta' = DOMAIN meta /\ meta'[s].seq = n
        /\ \A y \in DOMAIN meta : meta'[y].path = meta[y].path
        /\ \A y \in DOMAIN meta : y # s => meta'[y] = meta[y]
        /\ meta' \in [DOMAIN meta -> [path : LibAnyPath, seq : Nat]]
    <3>1. meta \in [DOMAIN meta -> [path : LibAnyPath, seq : Nat]]
      BY <1>1 DEF LibTypeOK
    <3>m. PICK m : m = [meta[s] EXCEPT !.seq = n]
      OBVIOUS
    <3>2. m \in [path : LibAnyPath, seq : Nat] /\ m.path = meta[s].path /\ m.seq = n
      BY <1>9, <2>2, <3>1, <3>m
    <3>3. meta' = [meta EXCEPT ![s] = m]
      BY <1>9, <2>n, <3>m
    <3> QED
      BY <1>9, <3>1, <3>2, <3>3
  <2>4. \A d \in DOMAIN meta : meta[d].seq <= meta'[d].seq /\ meta[d].seq \in Nat /\ meta'[d].seq \in Nat
    BY <1>1, <2>2, <2>3
  <2>5. /\ DOMAIN text' = DOMAIN text /\ text'[s] = x
        /\ \A y \in DOMAIN meta : y # s => text'[y] = text[y]
        /\ text' \in [DOMAIN text' -> LibText]
    <3>1. text \in [DOMAIN text -> LibText] /\ DOMAIN meta \subseteq DOMAIN text
      BY <1>1 DEF LibTypeOK
    <3> QED
      BY <1>9, <2>1, <3>1
  <2>6. /\ DOMAIN index' = DOMAIN index /\ index' \in [DOMAIN index' -> LibText]
        /\ s \in DOMAIN index => index'[s] = x
        /\ \A y \in DOMAIN index : y # s => index'[y] = index[y]
    <3>1. index \in [DOMAIN index -> LibText]
      BY <1>1 DEF LibTypeOK
    <3> QED
      BY <1>9, <2>1, <3>1
  <2>7. \A t : t \in b <=> t \in DOMAIN meta /\ meta[t].path \in x.links
    BY <1>b, <2>3 DEF resolve_wiki_links, PathsOf
  <2>8. /\ DOMAIN backlinks' = DOMAIN backlinks /\ backlinks' \in [DOMAIN backlinks' -> SUBSET LibDocs]
        /\ s \in DOMAIN backlinks => backlinks'[s] = b
        /\ \A y \in DOMAIN backlinks : y # s => backlinks'[y] = backlinks[y]
    <3>1. backlinks \in [DOMAIN backlinks -> SUBSET LibDocs] /\ b \in SUBSET LibDocs
      BY <1>1, <2>7 DEF LibTypeOK
    <3> QED
      BY <1>9, <3>1
  <2>9. /\ docHistory' \in [DOMAIN docHistory' -> LibText]
        /\ DOMAIN docHistory' = DOMAIN docHistory \cup {<<s, n>>}
        /\ \A k \in DOMAIN docHistory : docHistory'[k] = docHistory[k]
        /\ <<s, n>> \notin DOMAIN docHistory => docHistory'[<<s, n>>] = x
    <3>1. docHistory' = record_doc_snapshot(s, n, x)
      BY <1>9, <2>3
    <3> DEFINE h == record_doc_snapshot(s, n, x)
    <3>2. /\ h \in [DOMAIN h -> LibText] /\ DOMAIN h = DOMAIN docHistory \cup {<<s, n>>}
          /\ \A k \in DOMAIN docHistory : h[k] = docHistory[k]
          /\ <<s, n>> \notin DOMAIN docHistory => h[<<s, n>>] = x
      BY <1>1, <2>1, RecordIs
    <3> HIDE DEF h
    <3> QED
      BY <3>1, <3>2 DEF h
  <2>10. LibOwn(v)'
    BY <1>6, <2>3, <2>5 DEF LibOwn
  <2>11. LibNumberOf(r, v) /\ LibDocOf(c, r, v)
    <3>1. r.seq <= meta[r.doc].seq /\ <<r.doc, r.seq>> \in DOMAIN docHistory
      BY <1>1, <1>6 DEF LibNumbers
    <3>2. \A i, j, k \in Nat : i <= j /\ j <= k => i <= k
      OBVIOUS
    <3>3. r.seq <= meta'[r.doc].seq
      BY <1>1, <1>3, <2>4, <3>1, <3>2
    <3> QED
      BY <1>4, <1>6, <2>9, <3>1, <3>3 DEF LibNumberOf, LibDocOf
  <2>12. LibTables(r)
    BY <2>3, <2>4, <2>5, <2>9 DEF LibTables
  <2>13. LibTypeOK'
    <3>1. libReq' \in [LibClients -> LibRequest]
      BY <1>1, <1>4, <1>5 DEF LibTypeOK, LibMoves
    <3>2. DOMAIN meta' \subseteq DOMAIN text' /\ DOMAIN text' \subseteq LibDocs
          /\ DOMAIN backlinks' \subseteq LibDocs
      BY <1>1, <2>3, <2>5, <2>8 DEF LibTypeOK
    <3>3. answered' \subseteq [doc : LibDocs, seq : Nat, call : Nat] /\ together' \in BOOLEAN
          /\ unmoved' \subseteq LibDocs /\ libCount' \in Nat
      BY <1>1, <1>2 DEF LibTypeOK
    <3> QED
      BY <2>3, <2>5, <2>6, <2>8, <2>9, <3>1, <3>2, <3>3 DEF LibTypeOK
  <2>14. ASSUME SoloWith(r) PROVE SoloWith(v)'
    <3>0. /\ DOMAIN index = DOMAIN meta /\ DOMAIN backlinks = DOMAIN meta /\ SoloHistory
          /\ r.call \in docHistory[<<r.doc, r.seq>>].edits
          /\ r.doc \notin r.todo /\ r.todo \subseteq DOMAIN meta
          /\ r.resolve = [PathsOf(meta) EXCEPT ![r.doc] = r.old]
      BY <1>2, <1>6, <2>14 DEF SoloWith, SoloDomains, SoloEdit
    <3>1. \A k \in DOMAIN docHistory : /\ k \in (DOMAIN meta) \X Nat /\ k[2] <= meta[k[1]].seq
                                       /\ docHistory[k].edits \subseteq text[k[1]].edits
      BY <3>0 DEF SoloHistory
    <3>2. <<s, n>> \notin DOMAIN docHistory
      <4>1. SUFFICES ASSUME <<s, n>> \in DOMAIN docHistory PROVE FALSE
        OBVIOUS
      <4>2. n <= meta[s].seq
        BY <3>1, <4>1
      <4> QED
        BY <2>2, <4>2
    <3>3. SoloHistory'
      <4>k. PICK k0 : k0 = <<s, n>>
        OBVIOUS
      <4>0. /\ k0 \in (DOMAIN meta) \X Nat /\ k0[1] = s /\ k0[2] = n /\ docHistory'[k0] = x
            /\ DOMAIN docHistory' = DOMAIN docHistory \cup {k0} /\ k0 \notin DOMAIN docHistory
        BY <1>9, <2>2, <2>9, <3>2, <4>k
      <4>1. \A d \in DOMAIN meta : text'[d].edits = text[d].edits
        BY <2>1, <2>5
      <4>2. \A i, j, k \in Nat : i <= j /\ j <= k => i <= k
        OBVIOUS
      <4>3. ASSUME NEW k \in DOMAIN docHistory'
            PROVE  /\ k \in (DOMAIN meta') \X Nat /\ k[2] <= meta'[k[1]].seq
                   /\ docHistory'[k].edits \subseteq text'[k[1]].edits
        <5>1. CASE k \in DOMAIN docHistory
          <6>1. k \in (DOMAIN meta) \X Nat /\ k[2] <= meta[k[1]].seq
            BY <3>1, <5>1
          <6>2. k[2] <= meta'[k[1]].seq
            BY <2>4, <4>2, <6>1
          <6> QED
            BY <2>3, <2>9, <3>1, <4>1, <5>1, <6>1, <6>2
        <5>2. CASE k = k0
          BY <2>1, <2>2, <2>3, <2>5, <4>0, <5>2
        <5> QED
          BY <4>0, <5>1, <5>2
      <4>4. ASSUME NEW k \in DOMAIN docHistory', NEW l \in DOMAIN docHistory', k[1] = l[1], k[2] <= l[2]
            PROVE  docHistory'[k].edits \subseteq docHistory'[l].edits
        <5>1. CASE k \in DOMAIN docHistory /\ l \in DOMAIN docHistory
          BY <2>9, <3>0, <4>4, <5>1 DEF SoloHistory
        <5>2. CASE l = k0
          BY <2>1, <2>5, <4>0, <4>3, <4>4, <5>2
        <5>3. CASE k = k0 /\ l \in DOMAIN docHistory
          <6>1. l \in (DOMAIN meta) \X Nat /\ l[2] <= meta[l[1]].seq /\ l[1] = s /\ n <= l[2]
            BY <3>1, <4>0, <4>4, <5>3
          <6>2. l[2] \in Nat /\ l[2] <= meta[s].seq
            BY <6>1
          <6> QED
            BY <2>2, <6>1, <6>2
        <5> QED
          BY <4>0, <5>1, <5>2, <5>3
      <4>5. \A y \in answered' : y.call \in docHistory'[<<y.doc, y.seq>>].edits
        <5>1. \A y \in answered : <<y.doc, y.seq>> \in DOMAIN docHistory
          BY <1>1 DEF LibNumbers
        <5> QED
          BY <1>2, <2>9, <3>0, <5>1 DEF SoloHistory
      <4> QED
        BY <4>3, <4>4, <4>5 DEF SoloHistory
    <3>4. SoloPaths'
      BY <2>3, <2>14 DEF SoloWith, SoloPaths
    <3>5. SoloDomains(v)'
      BY <1>4, <2>3, <2>6, <2>8, <3>0 DEF SoloDomains
    <3>6. \A d : ~SoloStale(r, d)
      BY <1>2 DEF SoloStale
    <3>7. SoloIndex(v)'
      <4>1. ASSUME NEW d \in DOMAIN meta \ unmoved PROVE text'[d].edits \subseteq index'[d].edits
        <5>1. CASE d = s
          BY <2>5, <2>6, <3>0, <5>1
        <5>2. CASE d # s
          BY <2>5, <2>6, <2>14, <3>0, <3>6, <5>2 DEF SoloWith, SoloIndex
        <5> QED
          BY <5>1, <5>2
      <4> QED
        BY <1>2, <2>3, <4>1 DEF SoloIndex
    <3>8. SoloLinks(v)'
      <4>1. ASSUME NEW y \in DOMAIN meta \ unmoved, NEW t \in backlinks'[y]
            PROVE  t \in DOMAIN meta /\ (meta'[t].path \in text'[y].links \/ SoloPending(v, y, t)')
        <5>1. CASE y = s
          BY <2>3, <2>5, <2>7, <2>8, <3>0, <4>1, <5>1
        <5>2. CASE y # s
          <6>1. t \in DOMAIN meta /\ (meta[t].path \in text[y].links \/ SoloPending(r, y, t))
            BY <2>8, <2>14, <3>0, <3>6, <4>1, <5>2 DEF SoloWith, SoloLinks
          <6>2. text'[y] = text[y] /\ meta'[t].path = meta[t].path
            BY <2>3, <2>5, <5>2, <6>1
          <6>3. SoloPending(r, y, t) => SoloPending(v, y, t)'
            BY <1>2, <1>4, <1>w, <5>2, <6>2 DEF SoloPending
          <6> QED
            BY <6>1, <6>2, <6>3
        <5> QED
          BY <5>1, <5>2
      <4> QED
        BY <1>2, <2>3, <4>1 DEF SoloLinks
    <3>9. SoloCreate(v)'
      BY <1>4, <1>6 DEF SoloCreate
    <3>10. SoloEdit(v)'
      <4>1. PathsOf(meta)' = PathsOf(meta)
        BY <2>3 DEF PathsOf
      <4>2. v.resolve = [PathsOf(meta)' EXCEPT ![v.doc] = v.old]
        BY <1>4, <3>0, <4>1
      <4>3. <<r.doc, r.seq>> \in DOMAIN docHistory
        BY <1>1, <1>6 DEF LibNumbers
      <4>4. v.call \in (docHistory[<<v.doc, v.seq>>].edits)'
        <5>1. docHistory'[<<r.doc, r.seq>>] = docHistory[<<r.doc, r.seq>>]
          BY <2>9, <4>3
        <5> QED
          BY <1>4, <3>0, <5>1
      <4> QED
        BY <1>4, <1>w, <2>3, <3>0, <4>2, <4>4 DEF SoloEdit
    <3> QED
      BY <3>3, <3>4, <3>5, <3>7, <3>8, <3>9, <3>10 DEF SoloWith
  <2> QED
    BY <1>2, <1>4, <1>5, <2>10, <2>11, <2>12, <2>13, <2>14, LibStep
<1> QED
  BY <1>2, <1>8, <1>9

LibCallOf(i, op, d, p, l, n) ==
    [at |-> op, op |-> op, doc |-> d, path |-> p, links |-> l, call |-> n, seq |-> i.seq,
     text |-> i.text, old |-> i.old, todo |-> i.todo, resolve |-> i.resolve]

\* The request of a new call.
LEMMA LibNewCall ==
    ASSUME NEW i \in LibRequest, NEW op \in {"create", "edit", "read", "sections"},
           NEW d \in LibDocs \cup {0}, NEW p \in LibAnyPath, NEW l \in SUBSET LibAnyPath, NEW n \in Nat,
           NEW v, v = LibCallOf(i, op, d, p, l, n)
    PROVE  v \in LibRequest /\ v.at = op /\ v.op = op /\ v.doc = d
<1>1. op \in LibPoints
  BY DEF LibPoints
<1> QED
  BY <1>1 DEF LibRequest, LibCallOf

\* A call begins.
LEMMA BeginStep ==
    ASSUME LibInv, NEW c \in LibClients, NEW q \in LibCalls, LibBegin(c, q)
    PROVE  LibInv'
<1>n. PICK n : n = libCount + 1
  OBVIOUS
<1>v. PICK v : v = [q EXCEPT !.call = n]
  OBVIOUS
<1>0. LibTypeOK /\ LibShape /\ LibNumbers
  BY DEF LibInv
<1>1. /\ libReq[c].at = "idle" /\ LibMoves(c, v)
      /\ libCount' = libCount + 1
      /\ together' = (together \/ \E e \in LibClients : libReq[e].at # "idle")
      /\ UNCHANGED <<meta, text, docHistory, index, backlinks, answered, unmoved>>
  BY <1>n, <1>v DEF LibBegin, LibMoves
<1>2. /\ v \in LibRequest /\ v.at \in {"create", "edit", "read", "sections"} /\ v.op = v.at
      /\ v.doc \in DOMAIN meta \/ (v.doc = 0 /\ v.at = "create")
      /\ v.at # "create" => v.doc \in DOMAIN meta
      /\ v.at = "create" => v.doc = 0
  <2>0. n \in Nat /\ DOMAIN meta \subseteq LibDocs
    BY <1>0, <1>n DEF LibTypeOK
  <2>1. LibIdle \in LibRequest /\ LibIdle.doc = 0
    BY LibIdleIs
  <2>2. /\ LibPaths \cup LibRenames \subseteq LibAnyPath
        /\ \A l \in LibLinks : l \subseteq LibAnyPath
    BY DEF LibAnyPath
  <2>i. PICK i : i = LibIdle
    OBVIOUS
  <2>3. CASE \E p \in LibPaths, l \in LibLinks :
                q = create_call(p, l)
    <3>1. PICK p \in LibPaths, l \in LibLinks :
             q = [i EXCEPT !.at = "create", !.op = "create", !.path = p, !.links = l]
      BY <2>3, <2>i DEF create_call
    <3>2. v = LibCallOf(i, "create", i.doc, p, l, n)
      BY <1>v, <2>1, <2>i, <3>1 DEF LibRequest, LibCallOf
    <3>3. /\ i \in LibRequest /\ i.doc \in LibDocs \cup {0} /\ p \in LibAnyPath
          /\ l \in SUBSET LibAnyPath
      BY <2>0, <2>1, <2>2, <2>i, <3>1 DEF LibRequest
    <3>4. v \in LibRequest /\ v.at = "create" /\ v.op = "create" /\ v.doc = i.doc
      BY <2>0, <3>2, <3>3, LibNewCall
    <3> QED
      BY <2>1, <2>i, <3>1, <3>4
  <2>4. CASE \E d \in DOMAIN meta, p \in LibRenames, l \in LibLinks :
                q = edit_call(d, p, l)
    <3>1. PICK d \in DOMAIN meta, p \in LibRenames, l \in LibLinks :
             q = [i EXCEPT !.at = "edit", !.op = "edit", !.doc = d, !.path = p, !.links = l]
      BY <2>4, <2>i DEF edit_call
    <3>2. v = LibCallOf(i, "edit", d, p, l, n)
      BY <1>v, <2>1, <2>i, <3>1 DEF LibRequest, LibCallOf
    <3>3. /\ i \in LibRequest /\ d \in LibDocs \cup {0} /\ p \in LibAnyPath
          /\ l \in SUBSET LibAnyPath
      BY <2>0, <2>1, <2>2, <2>i, <3>1 DEF LibRequest
    <3>4. v \in LibRequest /\ v.at = "edit" /\ v.op = "edit" /\ v.doc = d
      BY <2>0, <3>2, <3>3, LibNewCall
    <3> QED
      BY <2>1, <2>i, <3>1, <3>4
  <2>5. CASE \E d \in DOMAIN meta, op \in {"read", "sections"} :
                q = read_call(op, d)
    <3>1. PICK d \in DOMAIN meta, op \in {"read", "sections"} :
             q = [i EXCEPT !.at = op, !.op = op, !.doc = d]
      BY <2>5, <2>i DEF read_call
    <3>2. v = LibCallOf(i, op, d, i.path, i.links, n)
      BY <1>v, <2>1, <2>i, <3>1 DEF LibRequest, LibCallOf
    <3>3. /\ i \in LibRequest /\ d \in LibDocs \cup {0} /\ i.path \in LibAnyPath
          /\ i.links \in SUBSET LibAnyPath
      BY <2>0, <2>1, <2>2, <2>i, <3>1 DEF LibRequest
    <3>4. v \in LibRequest /\ v.at = op /\ v.op = op /\ v.doc = d
      BY <2>0, <3>2, <3>3, LibNewCall
    <3> QED
      BY <2>1, <2>i, <3>1, <3>4
  <2> QED
    BY <2>3, <2>4, <2>5 DEF LibCalls
<1>3. ~LibMaking(v) /\ ~LibNumbered(v) /\ ~LibRecorded(v) /\ LibOwn(v)'
  BY <1>1, <1>2 DEF LibMaking, LibNumbered, LibRecorded, LibOwn, LibOnDoc
<1>4. LibTypeOK'
  <2>1. libReq' \in [LibClients -> LibRequest] /\ libCount' \in Nat /\ together' \in BOOLEAN
    BY <1>0, <1>1, <1>2 DEF LibTypeOK, LibMoves
  <2> QED
    BY <1>0, <1>1, <2>1 DEF LibTypeOK
<1> PICK r : r = libReq[c]
  OBVIOUS
<1>5. LibTables(r)
  <2>1. \A d \in DOMAIN meta : meta[d].seq \in Nat
    BY <1>0 DEF LibTypeOK
  <2> QED
    BY <1>1, <2>1 DEF LibTables
<1>6. LibNumberOf(r, v) /\ LibDocOf(c, r, v)
  BY <1>2, <1>3 DEF LibNumberOf, LibDocOf
<1>7. LibShape' /\ LibNumbers'
  BY <1>0, <1>1, <1>2, <1>3, <1>4, <1>5, <1>6, LibShapeKept, LibNumbersKept
<1>8. ASSUME ~together' PROVE \E x \in LibRequest : LibCurrent(x)' /\ SoloWith(x)'
  <2>1. ~together /\ \A e \in LibClients : libReq[e].at = "idle"
    BY <1>1, <1>8
  <2>2. PICK i \in LibRequest : LibCurrent(i) /\ SoloWith(i)
    BY <2>1 DEF LibInv, LibSolo
  <2>3. i = LibIdle
    BY <2>1, <2>2 DEF LibCurrent
  <2>4. i.at = "idle" /\ i.op = "none"
    BY <2>3, LibIdleIs
  <2>5. SoloTakes(i, v)
    BY <1>2, <2>4 DEF SoloTakes, SoloStale, SoloPending
  <2>6. SoloHistory' /\ SoloCreate(v)' /\ SoloEdit(v)'
    BY <1>1, <1>2, <1>3, <2>2 DEF SoloHistory, SoloCreate, SoloEdit, SoloWith
  <2>7. SoloWith(v)'
    BY <1>1, <2>2, <2>5, <2>6, SoloSame
  <2>8. libReq'[c] = v /\ \A e \in LibClients \ {c} : libReq'[e] = libReq[e]
    BY <1>0, <1>1 DEF LibMoves, LibTypeOK
  <2>9. LibCurrent(v)'
    BY <1>2, <2>1, <2>8 DEF LibCurrent
  <2> QED
    BY <1>2, <2>7, <2>9
<1> QED
  BY <1>4, <1>7, <1>8 DEF LibInv, LibSolo

\* At the start there is no document.
LEMMA LibInvInit == LibInit => LibInv
<1> SUFFICES ASSUME LibInit PROVE LibInv
  OBVIOUS
<1>1. /\ DOMAIN meta = {} /\ DOMAIN text = {} /\ DOMAIN docHistory = {} /\ DOMAIN index = {}
      /\ DOMAIN backlinks = {} /\ answered = {} /\ together = FALSE /\ unmoved = {} /\ libCount = 0
      /\ \A c \in LibClients : libReq[c] = LibIdle
      /\ libReq \in [LibClients -> {LibIdle}]
  BY DEF LibInit
<1>2. LibIdle \in LibRequest /\ LibOwn(LibIdle) /\ LibIdle.at = "idle" /\ ~LibMaking(LibIdle)
      /\ ~LibNumbered(LibIdle) /\ ~LibRecorded(LibIdle)
  BY LibIdleIs
<1>3. LibTypeOK
  <2>1. \A S : <<>> \in [{} -> S]
    OBVIOUS
  <2>2. libReq \in [LibClients -> LibRequest]
    BY <1>1, <1>2
  <2> QED
    <3>1. /\ meta \in [{} -> [path : LibAnyPath, seq : Nat]] /\ text \in [{} -> LibText]
          /\ docHistory \in [{} -> LibText] /\ index \in [{} -> LibText]
          /\ backlinks \in [{} -> SUBSET LibDocs]
      BY <2>1 DEF LibInit
    <3> QED
      BY <1>1, <2>2, <3>1 DEF LibTypeOK
<1>4. LibShape /\ LibNumbers
  BY <1>1, <1>2 DEF LibShape, LibNumbers
<1> PICK i : i = LibIdle
  OBVIOUS
<1>5. LibCurrent(i)
  BY <1>1, <1>2 DEF LibCurrent, LibQuiet
<1>6. SoloHistory /\ SoloPaths /\ SoloDomains(i) /\ SoloIndex(i) /\ SoloLinks(i)
  BY <1>1, <1>2 DEF SoloHistory, SoloPaths, SoloDomains, SoloIndex, SoloLinks
<1>7. SoloCreate(i) /\ SoloEdit(i)
  BY <1>2 DEF SoloCreate, SoloEdit, LibMaking, LibRecorded
<1> QED
  BY <1>2, <1>3, <1>4, <1>5, <1>6, <1>7 DEF LibInv, LibSolo, SoloWith

\* A step that changes nothing.
LEMMA LibInvStutter == LibInv /\ UNCHANGED libVars => LibInv'
<1> SUFFICES ASSUME LibInv, UNCHANGED libVars PROVE LibInv'
  OBVIOUS
<1>0. /\ UNCHANGED <<meta, text, docHistory, index, backlinks, libReq, answered, together, unmoved, libCount>>
  BY DEF libVars
<1>1. LibTypeOK'
  BY <1>0 DEF LibInv, LibTypeOK
<1>2. LibShape'
  BY <1>0 DEF LibInv, LibShape, LibOwn
<1>3. LibNumbers'
  BY <1>0 DEF LibInv, LibNumbers
<1>4. ASSUME ~together' PROVE \E x \in LibRequest : LibCurrent(x)' /\ SoloWith(x)'
  <2>1. PICK r \in LibRequest : LibCurrent(r) /\ SoloWith(r)
    BY <1>0, <1>4 DEF LibInv, LibSolo
  <2>2. LibCurrent(r)'
    BY <1>0, <2>1 DEF LibCurrent, LibQuiet
  <2>3. SoloWith(r)'
    <3>1. SoloHistory' /\ SoloPaths' /\ SoloDomains(r)' /\ SoloIndex(r)'
      BY <1>0, <2>1 DEF SoloWith, SoloHistory, SoloPaths, SoloDomains, SoloIndex, SoloStale
    <3>2. SoloLinks(r)' /\ SoloCreate(r)'
      BY <1>0, <2>1 DEF SoloWith, SoloLinks, SoloCreate, SoloStale, SoloPending
    <3>3. PathsOf(meta)' = PathsOf(meta)
      BY <1>0 DEF PathsOf
    <3>4. SoloEdit(r)'
      BY <1>0, <2>1, <3>3 DEF SoloWith, SoloEdit
    <3> QED
      BY <3>1, <3>2, <3>4 DEF SoloWith
  <2> QED
    BY <2>2, <2>3
<1> QED
  BY <1>1, <1>2, <1>3, <1>4 DEF LibInv, LibSolo

\* No step breaks the invariant.
LEMMA LibInvNext == LibInv /\ [LibNext]_libVars => LibInv'
<1> SUFFICES ASSUME LibInv, LibNext PROVE LibInv'
  BY LibInvStutter
<1>1. PICK c \in LibClients :
        \/ \E q \in LibCalls : LibBegin(c, q)
        \/ create_doc_check(c) \/ create_doc_file(c) \/ create_doc_index(c)
        \/ create_doc_insert(c) \/ create_doc_metadata(c)
        \/ edit_doc_head(c) \/ edit_doc_before(c) \/ edit_doc_apply(c) \/ edit_doc_metadata(c)
        \/ record_doc_snapshot_step(c) \/ refresh_search_and_backlinks_for_doc(c)
        \/ backlink_sources(c) \/ auto_update_backlinks_for_renamed_doc(c) \/ edit_doc_answer(c)
        \/ read_doc_head(c) \/ read_doc_text(c) \/ doc_sections_text(c) \/ doc_sections_head(c)
  BY DEF LibNext
<1> QED
  BY <1>1, BeginStep, CreateCheckStep, CreateFileStep, CreateIndexStep, CreateInsertStep,
     CreateMetadataStep, EditHeadStep, EditBeforeStep, EditApplyStep, EditMetadataStep, RecordStep,
     RefreshStep, SourcesStep, RewriteStep, AnswerStep, ReadHeadStep, ReadTextStep,
     SectionsTextStep, SectionsHeadStep

\* The index of doc.search is asked for enough documents to find them all.
LEMMA SearchFinds ==
    ASSUME LibTypeOK, DOMAIN index = DOMAIN meta, NEW d \in DOMAIN meta, NEW n,
           n \in index[d].edits
    PROVE  d \in doc_search(n)
<1>h. PICK H : H = {e \in DOMAIN index : n \in index[e].edits}
  OBVIOUS
<1>k. PICK k : k = Cardinality(DOMAIN meta)
  OBVIOUS
<1>1. IsFiniteSet(DOMAIN meta)
  BY LibDocsPos, FS_Subset DEF LibTypeOK
<1>2. H \subseteq DOMAIN meta /\ d \in H
  BY <1>h
<1>3. IsFiniteSet(H) /\ Cardinality(H) \in Nat /\ k \in Nat /\ Cardinality(H) <= k
  BY <1>1, <1>2, <1>k, FS_Subset, FS_CardinalityType
<1>4. k <= Max({k, 1}) /\ Max({k, 1}) \in Nat
  <2>1. \E x \in {k, 1} : \A y \in {k, 1} : x >= y
    BY <1>3
  <2>2. Max({k, 1}) \in {k, 1} /\ \A y \in {k, 1} : Max({k, 1}) >= y
    BY <2>1 DEF Max
  <2> QED
    BY <1>3, <2>2
<1>5. Cardinality(H) <= Max({k, 1})
  <2>1. \A i, j, l \in Nat : i <= j /\ j <= l => i <= l
    OBVIOUS
  <2> QED
    BY <1>3, <1>4, <2>1
<1>6. doc_search(n) = H \cap DOMAIN meta
  BY <1>5, <1>h, <1>k DEF doc_search
<1> QED
  BY <1>2, <1>6

\* What the invariant says of the answers.
LEMMA LibInvSound == LibInv => LibSound
<1> SUFFICES ASSUME LibInv PROVE LibSound
  OBVIOUS
<1>1. LibSeqOnce
  BY DEF LibInv, LibNumbers, LibSeqOnce
<1>2. LibHistoryTrue
  BY DEF LibInv, LibSolo, SoloWith, SoloHistory, LibHistoryTrue
<1>3. ASSUME LibQuiet, ~together
      PROVE  /\ \A d, e \in DOMAIN meta : d # e => meta[d].path # meta[e].path
             /\ \A d \in DOMAIN meta \ unmoved : \A n \in text[d].edits : d \in doc_search(n)
             /\ \A s \in DOMAIN backlinks \ unmoved : \A t \in backlinks[s] :
                   meta[t].path \in text[s].links
  <2>1. PICK r \in LibRequest : LibCurrent(r) /\ SoloWith(r)
    BY <1>3 DEF LibInv, LibSolo
  <2>2. r = LibIdle
    BY <1>3, <2>1 DEF LibCurrent, LibQuiet
  <2>3. r.at = "idle" /\ r.op = "none"
    BY <2>2, LibIdleIs
  <2>4. DOMAIN index = DOMAIN meta /\ DOMAIN backlinks = DOMAIN meta
    BY <2>1, <2>3 DEF SoloWith, SoloDomains
  <2>5. \A d \in DOMAIN meta \ unmoved : text[d].edits \subseteq index[d].edits
    BY <2>1, <2>3 DEF SoloWith, SoloIndex, SoloStale
  <2>6. \A d \in DOMAIN meta \ unmoved : \A n \in text[d].edits : d \in doc_search(n)
    BY <2>4, <2>5, SearchFinds DEF LibInv
  <2>7. \A s \in DOMAIN backlinks \ unmoved : \A t \in backlinks[s] : meta[t].path \in text[s].links
    BY <2>1, <2>3, <2>4 DEF SoloWith, SoloLinks, SoloStale, SoloPending
  <2>8. \A d, e \in DOMAIN meta : d # e => meta[d].path # meta[e].path
    BY <2>1 DEF SoloWith, SoloPaths
  <2> QED
    BY <2>6, <2>7, <2>8
<1> QED
  BY <1>1, <1>2, <1>3 DEF LibSound, LibFindable, LibRenameFollowed

\* For any number of clients, documents and calls, whatever calls run beside
\* each other a number is answered to one edit of a document and doc.history
\* has it; and while calls come one after the other doc.diff shows what was
\* edited between two numbers, no two documents share a path, doc.search finds
\* each with what is in its text, and links follow renames.
THEOREM LibSoundHolds == LibSpec => []LibSound
<1>1. LibInit => LibInv
  BY LibInvInit
<1>2. LibInv /\ [LibNext]_libVars => LibInv'
  BY LibInvNext
<1>3. LibInv => LibSound
  BY LibInvSound
<1> QED
  BY <1>1, <1>2, <1>3, PTL DEF LibSpec

=============================================================================
