----------------------------- MODULE DaemonFiles ----------------------------
(***************************************************************************)
(* Files on disk and documents in memory: the watcher's pipeline, which    *)
(* turns a saved file into an edit of the document                         *)
(* (crates/daemon/src/watcher/mod.rs, debounce.rs, hash.rs, pipeline.rs),  *)
(* and the remote updates that are written to the file (pipeline.rs), for  *)
(* one file.  The two run in tasks of their own.                           *)
(*                                                                         *)
(* A text is the set of the edits it has.  The pipeline makes the          *)
(* document's text that of the file; a remote update adds an edit to the   *)
(* document.  A hash is its text.  The editor that saves and removes the   *)
(* file is external: it starts from what the file has.  Nothing but the    *)
(* clock separates the write of a remote update from the hash that is      *)
(* kept of it: the two take less than a tick.                              *)
(***************************************************************************)
EXTENDS Integers, Sequences, FiniteSets

CONSTANTS
    LocalEdits,
    RemoteEdits,
    DebounceWindow,
    PauseDuration,
    MaxRemovals     \* bound on the times the file is removed

\* An edit is made by one side, once; what stands for no file and for no hash
\* is none.
ASSUME FilesEditsAssumption ==
    /\ LocalEdits \cap RemoteEdits = {}
    /\ "no file" \notin LocalEdits \cup RemoteEdits
    /\ "no hash" \notin LocalEdits \cup RemoteEdits

ASSUME FilesBoundsAssumption ==
    /\ DebounceWindow \in Nat
    /\ PauseDuration \in Nat
    /\ MaxRemovals \in Nat

VARIABLES
    disk,       \* the text of the file, or NoFile
    doc,        \* the text of the document
    storedHash, \* HashStore
    raw,        \* events of the watcher not yet received, in order
    debounced,  \* Debouncer.pending of the file: <<>> or <<[kind, age]>>
    pipe,       \* the event run_pipeline is at
    remote,     \* apply_remote_update_to_disk
    pausedFor,  \* what is left of the pause of the file
    todo,       \* edits not yet made, and removals left
    overlap     \* history: a save and a remote update were under way together

filesVars == <<disk, doc, storedHash, raw, debounced, pipe, remote, pausedFor, todo,
               overlap>>

NoFile == {"no file"}

Idle == [at |-> "idle", text |-> {}]

-----------------------------------------------------------------------------
(* The editor and the watcher *)

is_paused == pausedFor > 0

\* Nothing of a save is on its way to the document.
PipelineQuiet == raw = <<>> /\ debounced = <<>> /\ pipe = Idle

\* translate_event drops what is not about the content of a markdown file.
translate_event(kind) == Append(raw, kind)

save_file(e) ==
    /\ e \in todo.local
    /\ disk' = (IF disk = NoFile THEN {} ELSE disk) \cup {e}
    /\ raw' = translate_event(IF disk = NoFile THEN "create" ELSE "modify")
    /\ todo' = [todo EXCEPT !.local = @ \ {e}]
    /\ overlap' = (overlap \/ is_paused \/ remote # Idle)
    /\ UNCHANGED <<doc, storedHash, debounced, pipe, remote, pausedFor>>

remove_file ==
    /\ todo.removals > 0
    /\ disk # NoFile
    /\ disk' = NoFile
    /\ raw' = translate_event("remove")
    /\ todo' = [todo EXCEPT !.removals = @ - 1]
    /\ overlap' = (overlap \/ is_paused \/ remote # Idle)
    /\ UNCHANGED <<doc, storedHash, debounced, pipe, remote, pausedFor>>

-----------------------------------------------------------------------------
(* run_pipeline *)

\* Mutant: the first kind of a burst wins.
DebouncerKeepsFirst ==
    /\ raw # <<>>
    /\ pipe = Idle
    /\ debounced' = <<[kind |-> IF debounced = <<>> THEN Head(raw) ELSE debounced[1].kind, age |-> 0]>>
    /\ raw' = Tail(raw)
    /\ UNCHANGED <<disk, doc, storedHash, pipe, remote, pausedFor, todo, overlap>>

\* The last kind wins and the window starts again.
debouncer_push ==
    /\ raw # <<>>
    /\ pipe = Idle
    /\ debounced' = <<[kind |-> Head(raw), age |-> 0]>>
    /\ raw' = Tail(raw)
    /\ UNCHANGED <<disk, doc, storedHash, pipe, remote, pausedFor, todo, overlap>>

\* An event is received before the window is looked at (biased select).  A
\* paused file is skipped; a removal is only reported.
drain_ready ==
    /\ pipe = Idle
    /\ debounced # <<>>
    /\ debounced[1].age >= DebounceWindow
    /\ debounced' = <<>>
    /\ pipe' = IF debounced[1].kind = "remove" \/ is_paused THEN Idle
               ELSE [at |-> "read", text |-> {}]
    /\ UNCHANGED <<disk, doc, storedHash, raw, remote, pausedFor, todo, overlap>>

\* A file that is gone is an error; an unchanged text is nothing to do.
read_content ==
    /\ pipe.at = "read"
    /\ pipe' = IF disk = NoFile \/ disk = storedHash THEN Idle
               ELSE [at |-> "diff", text |-> disk]
    /\ UNCHANGED <<disk, doc, storedHash, raw, debounced, remote, pausedFor, todo, overlap>>

\* Under the lock of the document manager.
apply_text_diff ==
    /\ pipe.at = "diff"
    /\ doc' = pipe.text
    /\ pipe' = [pipe EXCEPT !.at = "hash"]
    /\ UNCHANGED <<disk, storedHash, raw, debounced, remote, pausedFor, todo, overlap>>

\* The error of set_hash is ignored.
pipeline_set_hash ==
    /\ pipe.at = "hash"
    /\ storedHash' \in {storedHash, pipe.text}
    /\ pipe' = Idle
    /\ UNCHANGED <<disk, doc, raw, debounced, remote, pausedFor, todo, overlap>>

-----------------------------------------------------------------------------
(* apply_remote_update_to_disk *)

remote_apply(e) ==
    /\ remote = Idle
    /\ e \in todo.remote
    /\ doc' = doc \cup {e}
    /\ remote' = [at |-> "compare", text |-> doc']
    /\ todo' = [todo EXCEPT !.remote = @ \ {e}]
    /\ overlap' = (overlap \/ ~PipelineQuiet)
    /\ UNCHANGED <<disk, storedHash, raw, debounced, pipe, pausedFor>>

\* A missing file counts as an empty one.
remote_compare ==
    /\ remote.at = "compare"
    /\ remote' = IF (IF disk = NoFile THEN {} ELSE disk) = remote.text THEN Idle ELSE [remote EXCEPT !.at = "write"]
    /\ UNCHANGED <<disk, doc, storedHash, raw, debounced, pipe, pausedFor, todo, overlap>>

\* The file is paused and written.
remote_write ==
    /\ remote.at = "write"
    /\ pausedFor' = PauseDuration
    /\ disk' = remote.text
    /\ raw' = translate_event(IF disk = NoFile THEN "create" ELSE "modify")
    /\ remote' = [remote EXCEPT !.at = "hash"]
    /\ UNCHANGED <<doc, storedHash, debounced, pipe, todo, overlap>>

remote_set_hash ==
    /\ remote.at = "hash"
    /\ storedHash' = remote.text
    /\ remote' = Idle
    /\ UNCHANGED <<disk, doc, raw, debounced, pipe, pausedFor, todo, overlap>>

\* The pause and the window of the debouncer run down.
FilesTick ==
    /\ remote.at # "hash"
    /\ pausedFor > 0 \/ (debounced # <<>> /\ debounced[1].age < DebounceWindow)
    /\ pausedFor' = IF pausedFor = 0 THEN 0 ELSE pausedFor - 1
    /\ debounced' = [n \in DOMAIN debounced |->
                       [debounced[n] EXCEPT !.age = IF @ < DebounceWindow THEN @ + 1 ELSE @]]
    /\ UNCHANGED <<disk, doc, storedHash, raw, pipe, remote, todo, overlap>>

-----------------------------------------------------------------------------

FilesInit ==
    /\ disk = {}
    /\ doc = {}
    /\ storedHash \in {{}, {"no hash"}}
    /\ raw = <<>>
    /\ debounced = <<>>
    /\ pipe = Idle
    /\ remote = Idle
    /\ pausedFor = 0
    /\ todo = [local |-> LocalEdits, remote |-> RemoteEdits, removals |-> MaxRemovals]
    /\ overlap = FALSE

FilesNext ==
    \/ \E e \in LocalEdits : save_file(e)
    \/ remove_file
    \/ debouncer_push
    \/ drain_ready
    \/ read_content
    \/ apply_text_diff
    \/ pipeline_set_hash
    \/ \E e \in RemoteEdits : remote_apply(e)
    \/ remote_compare
    \/ remote_write
    \/ remote_set_hash
    \/ FilesTick

FilesSpec == FilesInit /\ [][FilesNext]_filesVars

-----------------------------------------------------------------------------
(* Properties *)

\* Once the pipeline has nothing left to do, the document has what the file
\* has: no save is missed by the debouncer, the pause or the hash, and no
\* remote update is undone by the watcher seeing the daemon's own write.  (A
\* save while a remote update is written, or paused for, may be lost; so may
\* be a document whose file is gone.)
FilesAgree ==
    PipelineQuiet /\ remote = Idle /\ ~overlap /\ disk # NoFile => doc = disk
=============================================================================
