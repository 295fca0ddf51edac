-------------------------- MODULE DaemonWorkspaces --------------------------
(***************************************************************************)
(* The workspaces a daemon knows: workspace.create, workspace.open,        *)
(* workspace.list and the registration at start-up                         *)
(* (crates/daemon/src/rpc/methods.rs), over workspace.toml in each root    *)
(* and the paths in the global config.toml (crates/daemon/src/config.rs).  *)
(*                                                                         *)
(* Calls run on the threads of the runtime; a step is what a call does     *)
(* between two points where another call or a crash can see or stop it.    *)
(* A file is written by fs::write: truncated, then filled.                 *)
(***************************************************************************)
EXTENDS Integers, Sequences, FiniteSets, Maps

CONSTANTS
    Callers,
    RootDirs,       \* directories, as canonical paths
    MarkdownFiles,  \* root -> the relative paths of its Markdown files
    PathNorm,       \* what normalize_path makes of each
    WkMaxCalls, WkMaxRestarts, WkMaxSpoils

ASSUME WorkspacesAssumption ==
    /\ WkMaxCalls \in Nat /\ WkMaxRestarts \in Nat /\ WkMaxSpoils \in Nat
    /\ \A r \in RootDirs : IsFiniteSet(MarkdownFiles[r])

VARIABLES
    toml,        \* root -> the id in workspace.toml, NoId or Torn
    config,      \* config.toml: [readable, paths]; missing is readable and empty
    registry,    \* the map `workspaces`: id -> root
    wkDocs,      \* doc_metadata: the <<id, path>> of imported documents
    wkIndex,     \* documents_local, search, backlinks and tags, of them
    wkCall,      \* the call of each caller
    wkAcked,     \* answered create calls: {[id, root, life]}
    contested,   \* roots on which two calls overlapped, or that were created twice
    disturbed,   \* registrations overlapped, or the config was torn or spoilt
    wkCount      \* [calls, restarts, spoils]

wkVars == <<toml, config, registry, wkDocs, wkIndex, wkCall, wkAcked, contested, disturbed, wkCount>>

NoId == 0
Torn == -1

NoRoot == ""

NoWkCall == [op |-> "none", pc |-> "idle", root |-> NoRoot, id |-> NoId, paths |-> {}, answer |-> "none"]

Empty == [readable |-> TRUE, paths |-> {}]

WkInit ==
    /\ toml = [r \in RootDirs |-> NoId]
    /\ config = Empty
    /\ registry = << >>
    /\ wkDocs = {} /\ wkIndex = {}
    /\ wkCall = [c \in Callers |-> NoWkCall]
    /\ wkAcked = {}
    /\ contested = {} /\ disturbed = FALSE
    /\ wkCount = [calls |-> 0, restarts |-> 0, spoils |-> 0]

At(c, op, pc) == wkCall[c].op = op /\ wkCall[c].pc = pc

Goto(c, pc) == wkCall' = [wkCall EXCEPT ![c].pc = pc]

WkEnd(c, answer) == wkCall' = [wkCall EXCEPT ![c].pc = "idle", ![c].answer = answer]

Busy(c) == wkCall[c].pc # "idle"

\* Between loading config.toml and having written it.
Persisting(c) == wkCall[c].pc \in {"truncate", "write"}

-----------------------------------------------------------------------------
(* config.toml *)

\* load_from, with the defaults for a file that cannot be parsed.
load_config == IF config.readable THEN config.paths ELSE {}

\* persist_registered_workspace_path: load, and nothing to save when the
\* path is there.
persist_load(c, saved) ==
    /\ wkCall[c].pc = "persist"
    /\ IF wkCall[c].root \in load_config THEN saved
       ELSE /\ wkCall' = [wkCall EXCEPT ![c].pc = "truncate", ![c].paths = load_config \union {wkCall[c].root}]
            /\ UNCHANGED <<wkAcked>>
    /\ disturbed' = (disturbed \/ ~config.readable \/ \E d \in Callers \ {c} : Persisting(d))
    /\ UNCHANGED <<toml, config, registry, wkDocs, wkIndex, contested, wkCount>>

\* save_to: fs::write.
save_truncate(c) ==
    /\ wkCall[c].pc = "truncate"
    /\ config' = Empty
    /\ Goto(c, "write")
    /\ UNCHANGED <<toml, registry, wkDocs, wkIndex, wkAcked, contested, disturbed, wkCount>>

save_write(c, saved) ==
    /\ wkCall[c].pc = "write"
    /\ config' = [readable |-> TRUE, paths |-> wkCall[c].paths]
    /\ saved
    /\ UNCHANGED <<toml, registry, wkDocs, wkIndex, contested, disturbed, wkCount>>

-----------------------------------------------------------------------------
(* The calls *)

WkBegin(c, op, root, id, pc) ==
    /\ ~Busy(c) /\ wkCount.calls < WkMaxCalls
    /\ wkCount' = [wkCount EXCEPT !.calls = @ + 1]
    /\ wkCall' = [wkCall EXCEPT ![c] = [NoWkCall EXCEPT !.op = op, !.root = root, !.id = id, !.pc = pc]]
    /\ contested' = IF \/ op = "create" /\ toml[root] # NoId
                       \/ \E d \in Callers \ {c} : Busy(d) /\ wkCall[d].root = root
                    THEN contested \union {root} ELSE contested
    /\ UNCHANGED <<toml, config, registry, wkDocs, wkIndex, wkAcked, disturbed>>

NextId == wkCount.calls + 1

\* workspace_create: the directories, meta.db and workspace.toml.
workspace_create(c) == \E r \in RootDirs : WkBegin(c, "create", r, NextId, "toml")

create_truncate_toml(c) ==
    /\ At(c, "create", "toml")
    /\ toml' = [toml EXCEPT ![wkCall[c].root] = Torn]
    /\ Goto(c, "fill")
    /\ UNCHANGED <<config, registry, wkDocs, wkIndex, wkAcked, contested, disturbed, wkCount>>

create_write_toml(c) ==
    /\ At(c, "create", "fill")
    /\ toml' = [toml EXCEPT ![wkCall[c].root] = wkCall[c].id]
    /\ Goto(c, "scan")
    /\ UNCHANGED <<config, registry, wkDocs, wkIndex, wkAcked, contested, disturbed, wkCount>>

\* Mutant: the paths are compared before they are normalised.
UniqueRawPaths(paths) == TRUE

ensure_unique_path_norm(paths) == \A p, q \in paths : PathNorm[p] = PathNorm[q] => p = q

\* A new id for every file, unless two paths are the same once normalised.
scan_workspace_markdown_docs(root) ==
    [ok |-> ensure_unique_path_norm(MarkdownFiles[root]), paths |-> {PathNorm[p] : p \in MarkdownFiles[root]}]

\* The scan and the tables it fills; an error leaves workspace.toml behind.
create_index(c) ==
    /\ At(c, "create", "scan")
    /\ LET scan == scan_workspace_markdown_docs(wkCall[c].root)
       IN IF scan.ok
          THEN /\ wkIndex' = wkIndex \union {<<wkCall[c].id, p>> : p \in scan.paths}
               /\ Goto(c, "import")
          ELSE WkEnd(c, "error") /\ UNCHANGED wkIndex
    /\ UNCHANGED <<toml, config, registry, wkDocs, wkAcked, contested, disturbed, wkCount>>

\* The documents, their metadata and history, then the registry: locks taken
\* one after the other.
create_import(c) ==
    /\ At(c, "create", "import")
    /\ wkDocs' = wkDocs \union {<<wkCall[c].id, p>> : p \in scan_workspace_markdown_docs(wkCall[c].root).paths}
    /\ Goto(c, "register")
    /\ UNCHANGED <<toml, config, registry, wkIndex, wkAcked, contested, disturbed, wkCount>>

create_register(c) ==
    /\ At(c, "create", "register")
    /\ registry' = Insert(registry, wkCall[c].id, wkCall[c].root)
    /\ Goto(c, "persist")
    /\ UNCHANGED <<toml, config, wkDocs, wkIndex, wkAcked, contested, disturbed, wkCount>>

create_answer(c) ==
    /\ WkEnd(c, "ok")
    /\ wkAcked' = wkAcked \union {[id |-> wkCall[c].id, root |-> wkCall[c].root, life |-> wkCount.restarts]}

create_persist(c) == wkCall[c].op = "create" /\ (persist_load(c, create_answer(c)) \/ save_write(c, create_answer(c)))

\* workspace_open with a root_path.
workspace_open(c) == \E r \in RootDirs : WkBegin(c, "open", r, NoId, "info")

workspace_info_from_root(c) ==
    /\ At(c, "open", "info")
    /\ LET id == toml[wkCall[c].root]
       IN IF id \in {NoId, Torn} THEN WkEnd(c, "error")
          ELSE wkCall' = [wkCall EXCEPT ![c].id = id, ![c].pc = "register"]
    /\ UNCHANGED <<toml, config, registry, wkDocs, wkIndex, wkAcked, contested, disturbed, wkCount>>

\* What registering `id` for `root` does: one other id of the root goes.
Duplicates(reg, id, root) == {d \in DOMAIN reg : reg[d] = root /\ d # id}

Registered(reg, id, root, gone) == Insert([d \in DOMAIN reg \ gone |-> reg[d]], id, root)

register_workspace_from_root_path(c) ==
    /\ At(c, "open", "register")
    /\ LET id == wkCall[c].id
           root == wkCall[c].root
           dup == Duplicates(registry, id, root)
       IN \E gone \in (IF dup = {} THEN {{}} ELSE {{d} : d \in dup}) : registry' = Registered(registry, id, root, gone)
    /\ Goto(c, "persist")
    /\ UNCHANGED <<toml, config, wkDocs, wkIndex, wkAcked, contested, disturbed, wkCount>>

open_look_up(c) == Goto(c, "lookup") /\ UNCHANGED wkAcked

open_persist(c) == wkCall[c].op = "open" /\ (persist_load(c, open_look_up(c)) \/ save_write(c, open_look_up(c)))

\* workspace_open with a workspace_id.
open_by_id(c) == \E id \in DOMAIN registry : WkBegin(c, "open", registry[id], id, "lookup")

workspace_open_by_id(c) ==
    /\ At(c, "open", "lookup")
    /\ WkEnd(c, IF wkCall[c].id \in DOMAIN registry THEN "ok" ELSE "error")
    /\ UNCHANGED <<toml, config, registry, wkDocs, wkIndex, wkAcked, contested, disturbed, wkCount>>

\* workspace_list: the registry with the number of documents of each; the
\* page from offset on, and the offset of the next.
workspace_list(offset, limit) ==
    LET order == CHOOSE s \in [1..Cardinality(DOMAIN registry) -> DOMAIN registry] :
                    \A i, j \in DOMAIN s : i # j => s[i] # s[j]
        last == IF offset + limit < Len(order) THEN offset + limit ELSE Len(order)
        items == [i \in 1..last - offset |->
                    [id |-> order[offset + i], doc_count |-> Cardinality({d \in wkDocs : d[1] = order[offset + i]})]]
    IN [items |-> items, next |-> offset + Len(items), more |-> offset + Len(items) < Len(order)]

-----------------------------------------------------------------------------
(* Restart *)

\* recover_workspaces_at_startup: every path of the config whose
\* workspace.toml can be read.  Documents and tables were in memory.
recover_workspaces_at_startup ==
    LET roots == {r \in load_config : toml[r] \notin {NoId, Torn}}
        ids == {toml[r] : r \in roots}
    IN [id \in ids |-> CHOOSE r \in roots : toml[r] = id]

WkRestart ==
    /\ wkCount.restarts < WkMaxRestarts
    /\ wkCount' = [wkCount EXCEPT !.restarts = @ + 1]
    /\ registry' = recover_workspaces_at_startup
    /\ wkDocs' = {} /\ wkIndex' = {}
    /\ wkCall' = [c \in Callers |-> NoWkCall]
    /\ disturbed' = (disturbed \/ \E c \in Callers : wkCall[c].pc = "write")
    /\ UNCHANGED <<toml, config, wkAcked, contested>>

\* The user, or a full disk, leaves a config.toml that does not parse.
spoil_config ==
    /\ wkCount.spoils < WkMaxSpoils
    /\ wkCount' = [wkCount EXCEPT !.spoils = @ + 1]
    /\ config' = [readable |-> FALSE, paths |-> {}]
    /\ disturbed' = TRUE
    /\ UNCHANGED <<toml, registry, wkDocs, wkIndex, wkCall, wkAcked, contested>>

WkNext ==
    \/ \E c \in Callers :
          \/ workspace_create(c) \/ create_truncate_toml(c) \/ create_write_toml(c)
          \/ create_index(c) \/ create_import(c) \/ create_register(c) \/ create_persist(c)
          \/ workspace_open(c) \/ workspace_info_from_root(c) \/ register_workspace_from_root_path(c)
          \/ open_persist(c) \/ open_by_id(c) \/ workspace_open_by_id(c) \/ save_truncate(c)
    \/ WkRestart \/ spoil_config

WkSpec == WkInit /\ [][WkNext]_wkVars

-----------------------------------------------------------------------------
(* Properties *)

\* workspace_create and recover_workspaces_at_startup: the root of an
\* answered call is in config.toml, and the workspace is registered under its
\* id through any restart, as long as no two registrations overlapped, none
\* was cut off in fs::write, and no other call worked on its root meanwhile.
WkRemembered ==
    ~disturbed => \A a \in wkAcked :
       /\ a.root \in config.paths \/ \E c \in Callers : wkCall[c].pc = "write" /\ a.root \in wkCall[c].paths
       /\ a.root \notin contested => a.id \in DOMAIN registry /\ registry[a.id] = a.root

\* workspace_create: until the daemon ends, an answered call has imported
\* every file of its root under its own path, into the documents and into the
\* tables alike, and workspace.list counts them and gives each workspace once.
WkImported ==
    \A a \in wkAcked : a.life = wkCount.restarts /\ a.root \notin contested =>
       LET paths == {PathNorm[p] : p \in MarkdownFiles[a.root]}
           pages == workspace_list(0, 1).items \o workspace_list(1, Cardinality(DOMAIN registry)).items
       IN /\ {d[2] : d \in {e \in wkDocs : e[1] = a.id}} = paths
          /\ {d[2] : d \in {e \in wkIndex : e[1] = a.id}} = paths
          /\ {i \in DOMAIN pages : pages[i] = [id |-> a.id, doc_count |-> Cardinality(MarkdownFiles[a.root])]} # {}
          /\ Len(pages) = Cardinality(DOMAIN registry)

\* A workspace that workspace.create answered for is known and imported.
WkSound == WkRemembered /\ WkImported
=============================================================================
