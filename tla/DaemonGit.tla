----------------------------- MODULE DaemonGit ------------------------------
(***************************************************************************)
(* How the daemon commits a workspace: the collector of triggers           *)
(* (crates/daemon/src/git/triggers.rs), the idle timer, the automatic      *)
(* commits and git.sync of crates/daemon/src/rpc/methods.rs, the git       *)
(* commands (git/worker.rs) and the message written by a model             *)
(* (git/commit.rs).                                                        *)
(*                                                                         *)
(* A commit is a job: a task of the runtime that locks the collector, runs *)
(* git commands one after the other and waits for a message in between.    *)
(* Any number of jobs run side by side.  git itself and the model's API    *)
(* are external; a command or a call may fail.  A change is in the work    *)
(* tree when it is registered.                                             *)
(*                                                                         *)
(* Times are ages: how long ago the last edit and the last commit were,    *)
(* counted up to the timeout they are compared with, and how long a timer  *)
(* has left.                                                               *)
(***************************************************************************)
EXTENDS Integers, Sequences, FiniteSets, TLC

CONSTANTS
    Paths,
    Jobs,           \* slots for the tasks under way
    IdleTimeout,    \* idle_fallback_timeout
    MinInterval,    \* min_commit_interval
    MaxBatch,       \* max_batch_size
    RedactPolicies, \* ai_redaction_policy: "off", "disabled", "redacted", "full"
    MaxEdits,       \* bound on the edits
    MaxOthers       \* bound on the triggers, git.sync and git.configure requests and
                    \* failed commands together

ASSUME GitAssumption == MinInterval \in Nat /\ IdleTimeout \in Nat /\ MinInterval <= IdleTimeout

VARIABLES
    tree,       \* path -> how often it was edited
    staged,     \* path -> the edit in the index
    head,       \* path -> the edit in the last commit
    collector,  \* TriggerCollector
    epoch,      \* git_idle_timer_epoch
    timers,     \* idle timers: [epoch, left]
    policy,     \* GitSyncPolicy
    writing,    \* a git.configure holds the policy's lock, with the value it sets
    redact,     \* the redaction policy, "off" if no model is configured
    jobs,       \* slot -> job
    sent,       \* history: what the model was sent
    excused,    \* history: a command failed, automatic commits were turned off, or
                \* git.sync forgot a change that came while it ran
    gitCount    \* how often each bounded thing happened

gitVars == <<tree, staged, head, collector, epoch, timers, policy, writing, redact, jobs, sent,
             excused, gitCount>>

-----------------------------------------------------------------------------
(* The collector *)

Never == -1     \* last_edit_at or last_commit_at is None

push_trigger(c, kind) == [c EXCEPT !.pending = Append(@, kind)]

mark_changed_at(c, p) == [c EXCEPT !.changed = @ \cup {p}, !.sinceEdit = 0]

\* Mutant: a workspace without a commit has to wait for its first.
CommitIntervalNeverCommitted(c) == c.sinceCommit # Never /\ c.sinceCommit >= MinInterval

commit_interval_elapsed(c) == c.sinceCommit = Never \/ c.sinceCommit >= MinInterval

should_idle_fallback_commit(c) ==
    /\ c.changed # {}
    /\ c.sinceEdit # Never /\ c.sinceEdit >= IdleTimeout
    /\ commit_interval_elapsed(c)

should_commit(c) ==
    IF c.pending = <<>> THEN should_idle_fallback_commit(c)
    ELSE \/ \E i \in DOMAIN c.pending : c.pending[i] = "checkpoint"
         \/ Len(c.pending) >= MaxBatch
         \/ commit_interval_elapsed(c)

CommitTrigger(c) == IF c.pending = <<>> THEN "idle_fallback" ELSE c.pending[Len(c.pending)]

\* Without a trigger and without a change there is nothing to take.
take_commit_context_at(c) ==
    IF c.pending = <<>> /\ c.changed = {} THEN c
    ELSE [pending |-> <<>>, changed |-> {}, sinceEdit |-> Never, sinceCommit |-> 0]

-----------------------------------------------------------------------------
(* What the model is sent, as the set of its parts *)

DiffParts == {"text", "secret"}

redact_sensitive_content(diff) == diff \ {"secret"}

build_prompt(diff, how) ==
    CASE how = "full" -> diff
      [] how = "redacted" -> redact_sensitive_content(diff)
      [] OTHER -> {}

Calls(how) == how \in {"redacted", "full"}

\* What one request to the AI service carries out of the machine; whether it
\* answers or the fallback message is used, the commit goes on.
generate(how) == IF Calls(how) THEN build_prompt(DiffParts, how) ELSE {}

-----------------------------------------------------------------------------
(* Jobs *)

NoJob == [at |-> "idle", auto |-> FALSE, push |-> FALSE, trigger |-> "", edited |-> FALSE]

JobTo(j, at) == [jobs EXCEPT ![j].at = at]
JobEnd(j) == [jobs EXCEPT ![j] = NoJob]
Counts(what, max) == gitCount[what] < max /\ gitCount' = [gitCount EXCEPT ![what] = @ + 1]

\* A change that comes while git.sync is past git add.
Overtaken == [j \in Jobs |->
    IF ~jobs[j].auto /\ jobs[j].at \in {"message", "commit", "push", "clear"}
    THEN [jobs[j] EXCEPT !.edited = TRUE] ELSE jobs[j]]

\* The change is noted and a timer started; the timers started before are out
\* of date.
register_git_change(p) ==
    /\ Counts("edit", MaxEdits)
    /\ tree' = [tree EXCEPT ![p] = @ + 1]
    /\ collector' = mark_changed_at(collector, p)
    /\ epoch' = epoch + 1
    /\ timers' = timers \cup {[epoch |-> epoch + 1, left |-> IdleTimeout]}
    /\ jobs' = Overtaken
    /\ UNCHANGED <<staged, head, policy, writing, redact, sent, excused>>

AutoJob == [NoJob EXCEPT !.at = "policy", !.auto = TRUE]

idle_timer_fires(t) ==
    /\ t.left = 0
    /\ timers' = timers \ {t}
    /\ IF t.epoch # epoch THEN UNCHANGED jobs
       ELSE \E j \in Jobs : jobs[j].at = "idle" /\ jobs' = [jobs EXCEPT ![j] = AutoJob]
    /\ UNCHANGED <<tree, staged, head, collector, epoch, policy, writing, redact, sent, excused,
                   gitCount>>

\* maybe_enqueue_comment_resolved_trigger, and the task of
\* schedule_lease_expiry_trigger once the lease is found to be over: both note
\* the trigger and run a job.
trigger_fires(kind) ==
    /\ Counts("other", MaxOthers)
    /\ collector' = push_trigger(collector, kind)
    /\ \E j \in Jobs : jobs[j].at = "idle" /\ jobs' = [jobs EXCEPT ![j] = AutoJob]
    /\ UNCHANGED <<tree, staged, head, epoch, timers, policy, writing, redact, sent, excused>>

\* try_read gives the default when git.configure holds the lock.
get_policy == IF writing = "none" THEN policy ELSE "manual"

auto_policy(j) ==
    /\ jobs[j].at = "policy"
    /\ jobs' = IF get_policy = "disabled" THEN JobEnd(j)
               ELSE [JobTo(j, "take") EXCEPT ![j].push = get_policy = "auto_rebase"]
    /\ excused' = (excused \/ get_policy = "disabled")
    /\ UNCHANGED <<tree, staged, head, collector, epoch, timers, policy, writing, redact, sent,
                   gitCount>>

run_triggered_auto_commit(j) ==
    /\ jobs[j].at = "take"
    /\ IF should_commit(collector) /\ collector.changed # {}
       THEN /\ collector' = take_commit_context_at(collector)
            /\ jobs' = [JobTo(j, "add") EXCEPT ![j].trigger = CommitTrigger(collector)]
       ELSE jobs' = JobEnd(j) /\ UNCHANGED collector
    /\ UNCHANGED <<tree, staged, head, epoch, timers, policy, writing, redact, sent, excused,
                   gitCount>>

handle_git_sync(push) ==
    /\ Counts("other", MaxOthers)
    /\ collector' = push_trigger(collector, "checkpoint")
    /\ \E j \in Jobs :
         /\ jobs[j].at = "idle"
         /\ jobs' = [jobs EXCEPT ![j] = [NoJob EXCEPT !.at = "add", !.push = push,
                                                      !.trigger = "checkpoint"]]
    /\ UNCHANGED <<tree, staged, head, epoch, timers, policy, writing, redact, sent, excused>>

git_add(j) ==
    /\ jobs[j].at = "add"
    /\ staged' = tree
    /\ jobs' = JobTo(j, "message")
    /\ UNCHANGED <<tree, head, collector, epoch, timers, policy, writing, redact, sent, excused,
                   gitCount>>

\* The staged diff is read and sent.  An answer, an error and an empty answer
\* all end in a message: the fallback names the files.
commit_message(j) ==
    /\ jobs[j].at = "message"
    /\ sent' = sent \cup generate(redact)
    /\ jobs' = JobTo(j, "commit")
    /\ UNCHANGED <<tree, staged, head, collector, epoch, timers, policy, writing, redact, excused,
                   gitCount>>

\* git refuses to commit an index that is the last commit: the job ends there.
git_commit(j) ==
    /\ jobs[j].at = "commit"
    /\ head' = staged
    /\ jobs' = IF head = staged THEN JobEnd(j)
               ELSE IF jobs[j].push THEN JobTo(j, "push")
               ELSE IF jobs[j].auto THEN JobEnd(j) ELSE JobTo(j, "clear")
    /\ UNCHANGED <<tree, staged, collector, epoch, timers, policy, writing, redact, sent, excused,
                   gitCount>>

git_push(j) ==
    /\ jobs[j].at = "push"
    /\ jobs' = IF jobs[j].auto THEN JobEnd(j) ELSE JobTo(j, "clear")
    /\ UNCHANGED <<tree, staged, head, collector, epoch, timers, policy, writing, redact, sent,
                   excused, gitCount>>

\* A command fails, or the first line of the model's answer is cut inside a
\* character and the task panics: what the job took from the collector is gone.
job_fails(j) ==
    /\ jobs[j].at \in {"add", "message", "commit", "push"}
    /\ Counts("other", MaxOthers)
    /\ jobs' = JobEnd(j)
    /\ excused' = TRUE
    /\ UNCHANGED <<tree, staged, head, collector, epoch, timers, policy, writing, redact, sent>>

clear_trigger_state_after_commit(j) ==
    /\ jobs[j].at = "clear"
    /\ collector' = take_commit_context_at(collector)
    /\ excused' = (excused \/ jobs[j].edited)
    /\ jobs' = JobEnd(j)
    /\ UNCHANGED <<tree, staged, head, epoch, timers, policy, writing, redact, sent, gitCount>>

\* set_policy takes the lock with try_write.  When it fails, because another
\* git.configure has it, the policy stays and the caller is told it was set.
handle_git_configure(new) ==
    /\ Counts("other", MaxOthers)
    /\ writing' = IF writing = "none" THEN new ELSE writing
    /\ UNCHANGED <<tree, staged, head, collector, epoch, timers, policy, redact, jobs, sent,
                   excused>>

set_policy ==
    /\ writing # "none"
    /\ policy' = writing
    /\ writing' = "none"
    /\ UNCHANGED <<tree, staged, head, collector, epoch, timers, redact, jobs, sent, excused,
                   gitCount>>

Older(age, max) == IF age = Never \/ age = max THEN age ELSE age + 1

GitTick ==
    /\ collector' = [collector EXCEPT !.sinceEdit = Older(@, IdleTimeout),
                                      !.sinceCommit = Older(@, MinInterval)]
    /\ timers' = {[t EXCEPT !.left = IF @ = 0 THEN 0 ELSE @ - 1] : t \in timers}
    /\ UNCHANGED <<tree, staged, head, epoch, policy, writing, redact, jobs, sent, excused,
                   gitCount>>

-----------------------------------------------------------------------------

GitInit ==
    /\ tree = [p \in Paths |-> 0]
    /\ staged = tree
    /\ head = tree
    /\ collector = [pending |-> <<>>, changed |-> {}, sinceEdit |-> Never, sinceCommit |-> Never]
    /\ epoch = 0
    /\ timers = {}
    /\ policy = "manual"
    /\ writing = "none"
    /\ redact \in RedactPolicies
    /\ jobs = [j \in Jobs |-> NoJob]
    /\ sent = {}
    /\ excused = FALSE
    /\ gitCount = [edit |-> 0, other |-> 0]

JobStep(j) ==
    \/ auto_policy(j)
    \/ run_triggered_auto_commit(j)
    \/ git_add(j)
    \/ commit_message(j)
    \/ git_commit(j)
    \/ git_push(j)
    \/ clear_trigger_state_after_commit(j)

GitNext ==
    \/ \E p \in Paths : register_git_change(p)
    \/ \E t \in timers : idle_timer_fires(t)
    \/ \E kind \in {"comment_resolved", "lease_released"} : trigger_fires(kind)
    \/ \E push \in BOOLEAN : handle_git_sync(push)
    \/ \E new \in {"disabled", "manual", "auto_rebase"} : handle_git_configure(new)
    \/ set_policy
    \/ \E j \in Jobs : JobStep(j) \/ job_fails(j)
    \/ GitTick

\* Tasks are run and timers fire; that a command fails is never owed.
GitFairness ==
    /\ WF_gitVars(GitTick)
    /\ WF_gitVars(\E t \in timers : idle_timer_fires(t))
    /\ WF_gitVars(\E j \in Jobs : JobStep(j))
    /\ WF_gitVars(set_policy)

GitSpec == GitInit /\ [][GitNext]_gitVars /\ GitFairness

-----------------------------------------------------------------------------
(* Properties *)

Uncommitted == {p \in Paths : tree[p] # head[p]}

\* run_triggered_auto_commit: a change is committed in the end, however many
\* jobs run side by side, commit each other's files and find nothing left to
\* commit, and though only the timer of the last edit runs a job and that job
\* is dropped if the last commit is too recent.  The exceptions are the ones
\* excused names.  And generate sends the model no secret unless the workspace
\* allows everything, and nothing if it allows nothing.
GitCommitted ==
    /\ Uncommitted # {} ~> (Uncommitted = {} \/ excused)
    /\ []("secret" \in sent => redact = "full")
    /\ [](sent # {} => Calls(redact))
=============================================================================
