----------------------------- MODULE DaemonDocs -----------------------------
(***************************************************************************)
(* The daemon's documents: DocManager (crates/daemon/src/engine/           *)
(* doc_manager.rs), which keeps CRDT documents in memory, the write-ahead  *)
(* log and its recovery (store/wal.rs, store/recovery.rs), and the         *)
(* JSON-RPC calls doc.read, doc.edit and doc.edit_section                  *)
(* (rpc/methods.rs), which run concurrently and may be cut off by a crash. *)
(*                                                                         *)
(* An action is what a call does between two points where other calls can  *)
(* run: under the lock of DocManager or of doc_metadata, in one Yjs        *)
(* transaction, or in one file append.  A document's CRDT state is the set *)
(* of the calls whose edits it contains: applying an update is union, as   *)
(* for any state-based CRDT, and the full state is what edit_doc logs.     *)
(* A WAL file is what replay gets out of it: the union of the frames in    *)
(* front of the first bad one, and whether there is a bad one.             *)
(***************************************************************************)
EXTENDS Integers, FiniteSets, Functions

CONSTANTS
    Docs,          \* document ids, ordered as Uuids are
    Calls,         \* requests; each is made once and is its own edit
    Kinds,         \* the methods called: "read", "edit", "section"
    Lens,          \* lengths a document's text can have
    MaxBytes,      \* DocManager.max_memory_bytes
    MaxUpdate,     \* MAX_UPDATE_BYTES of the WAL
    DiskErrors,    \* whether writing a WAL frame can fail half way
    MaxCrashes     \* bound on the number of crashes

ASSUME DocsPos == Docs \subseteq Nat \ {0} /\ IsFiniteSet(Docs)
ASSUME CallsFinite == IsFiniteSet(Calls)
ASSUME KindsKnown == Kinds \subseteq {"read", "edit", "section"}
ASSUME LensNat == Lens \subseteq Nat
ASSUME BoundsNat == {MaxBytes, MaxUpdate, MaxCrashes} \subseteq Nat
ASSUME DiskErrorsBool == DiskErrors \in BOOLEAN

VARIABLES
    \* DocManager
    loaded,        \* keys of docs
    mem,           \* the CRDT state, {} for a document not loaded
    subs,          \* the calls counted in subscribers
    est,           \* estimated_bytes
    tick,          \* lru_tick
    nextTick,      \* next_lru_tick
    \* doc_metadata
    known,         \* documents with a record
    head,          \* head_seq
    etag,          \* the number at the end of the etag
    \* crdt_store/wal
    files,         \* documents with a WAL file
    wal,           \* the edits replay reads
    torn,          \* whether a bad frame follows them
    \* each call
    pc, kind, doc,
    ifEtag,        \* params.if_etag, NoEtag for None
    view,          \* the document state it read or staged
    links,         \* documents whose links a rename still has to rewrite
    source,        \* the one it has subscribed to, NoDoc for none
    promised,      \* the acknowledged doc.edits when it was made
    result,
    \* the process
    up, crashes

manager == <<loaded, mem, subs, est, tick, nextTick>>
meta    == <<known, head, etag>>
disk    == <<files, wal, torn>>
request == <<kind, doc, ifEtag, promised>>
rename  == <<links, source>>
callVars == <<pc, request, view, rename, result>>
process == <<up, crashes>>
vars == <<manager, meta, disk, callVars, process>>

NoEtag == -1
NoKind == "none"
NoDoc == 0

\* Points of a call: not made, subscribed, and then in doc.edit past the
\* etag check, staged, logged, applied; in the rewriting of links after a
\* rename, before a document, subscribed to it, past the edit, before
\* unsubscribe; in doc.edit_section past the edit; before unsubscribe,
\* returned, cut off by a crash.
PCs == {"idle", "open", "stage", "append", "apply", "bump",
        "relink", "rewrite", "renumber", "unlink", "retag", "close",
        "done", "cut"}
Linking == {"relink", "rewrite", "renumber", "unlink"}
InProgress == PCs \ {"idle", "done", "cut"}

Init ==
    /\ loaded = {}
    /\ mem = [d \in Docs |-> {}]
    /\ subs = [d \in Docs |-> {}]
    /\ est = [d \in Docs |-> 0]
    /\ tick = [d \in Docs |-> 0]
    /\ nextTick = 1
    /\ known = {}
    /\ head = [d \in Docs |-> 0]
    /\ etag = [d \in Docs |-> 0]
    /\ files = {}
    /\ wal = [d \in Docs |-> {}]
    /\ torn = [d \in Docs |-> FALSE]
    /\ pc = [c \in Calls |-> "idle"]
    /\ kind = [c \in Calls |-> NoKind]
    /\ doc = [c \in Calls |-> NoDoc]
    /\ ifEtag = [c \in Calls |-> NoEtag]
    /\ view = [c \in Calls |-> {}]
    /\ links = [c \in Calls |-> {}]
    /\ source = [c \in Calls |-> NoDoc]
    /\ promised = [c \in Calls |-> {}]
    /\ result = [c \in Calls |-> "none"]
    /\ up = TRUE
    /\ crashes = 0

(***************************************************************************)
(* DocManager.                                                             *)
(***************************************************************************)
\* estimate_doc_bytes: an empty document takes room too.
Bytes(state) == 1 + Cardinality(state)

TotalBytes(docs, sizes) == SumFunctionOnSet(sizes, docs)

\* Mutant: subscribed documents are evicted as well.
AnyLoaded(docs, s) == docs
Unsubscribed(docs, s) == {d \in docs : s[d] = {}}

\* evict_under_pressure takes the unsubscribed documents with the smallest
\* lru_tick until total_memory_bytes fits or none is left.
Evicts(gone, docs, s, sizes, t) ==
    /\ \A d \in gone : \A k \in Unsubscribed(docs, s) \ gone : t[d] < t[k]
    /\ \/ gone = Unsubscribed(docs, s)
       \/ TotalBytes(docs \ gone, sizes) <= MaxBytes
    /\ \A d \in gone : (\A k \in gone : t[k] <= t[d]) =>
           TotalBytes((docs \ gone) \cup {d}, sizes) > MaxBytes

\* The manager's fields take these values, and then memory pressure is
\* relieved: what is evicted is dropped from memory, nothing is written.
ManagerBecomes(docs, m, s, sizes, t) ==
    \E gone \in SUBSET Unsubscribed(docs, s) :
        /\ Evicts(gone, docs, s, sizes, t)
        /\ loaded' = docs \ gone
        /\ mem' = [d \in Docs |-> IF d \in gone THEN {} ELSE m[d]]
        /\ subs' = s
        /\ est' = sizes
        /\ tick' = t

\* subscribe_or_create: a document that is not loaded starts empty.
SubscribeOrCreate(c, d) ==
    LET s == [subs EXCEPT ![d] = @ \cup {c}]
        t == [tick EXCEPT ![d] = 0]
    IN  /\ \/ /\ d \in loaded
              /\ subs' = s
              /\ tick' = t
              /\ UNCHANGED <<loaded, mem, est>>
           \/ /\ d \notin loaded
              /\ ManagerBecomes(loaded \cup {d}, mem, s,
                                [est EXCEPT ![d] = Bytes({})], t)
        /\ UNCHANGED nextTick

Unsubscribe(c, d) ==
    LET s == [subs EXCEPT ![d] = @ \ {c}]
    IN  \/ /\ s[d] # {}
           /\ subs' = s
           /\ UNCHANGED <<loaded, mem, est, tick, nextTick>>
        \/ /\ s[d] = {}
           /\ ManagerBecomes(loaded, mem, s, est, [tick EXCEPT ![d] = nextTick])
           /\ nextTick' = nextTick + 1

\* Mutant: the staged state replaces the document instead of merging.
ApplyUpdateReplaces(d, state) ==
    /\ mem' = [mem EXCEPT ![d] = state]
    /\ UNCHANGED <<loaded, subs, est, tick, nextTick>>

\* Applying an update to a loaded document; estimated_bytes stays.
ApplyUpdate(d, state) ==
    /\ mem' = [mem EXCEPT ![d] = @ \cup state]
    /\ UNCHANGED <<loaded, subs, est, tick, nextTick>>

(***************************************************************************)
(* The write-ahead log.                                                    *)
(***************************************************************************)
\* append_update of one frame with the given edits.  What follows a bad frame
\* is never replayed, and neither is a frame above MAX_UPDATE_BYTES, which
\* append_update accepts.
AppendFrame(d, edits) ==
    LET bad == torn[d] \/ Bytes(edits) > MaxUpdate
    IN  /\ files' = files \cup {d}
        /\ wal' = [wal EXCEPT ![d] = IF bad THEN @ ELSE @ \cup edits]
        /\ torn' = [torn EXCEPT ![d] = bad]

\* write_all fails half way: part of a frame stays in the file.
TearFrame(d) ==
    /\ files' = files \cup {d}
    /\ torn' = [torn EXCEPT ![d] = TRUE]
    /\ UNCHANGED wal

\* The file cannot be opened, or nothing is written to it.
WriteNothing(d) ==
    /\ files' \in {files, files \cup {d}}
    /\ UNCHANGED <<wal, torn>>

(***************************************************************************)
(* A call.                                                                 *)
(***************************************************************************)
Go(c, p) == pc' = [pc EXCEPT ![c] = p]
Return(c, r) == /\ Go(c, "close")
                /\ result' = [result EXCEPT ![c] = r]

Acked(c) == pc[c] = "done" /\ result[c] = "ok"
AckedEdits(d) == {c \in Calls : Acked(c) /\ kind[c] = "edit" /\ doc[c] = d}

Begin(c, k, d) ==
    /\ up
    /\ pc[c] = "idle"
    /\ Go(c, "open")
    /\ kind' = [kind EXCEPT ![c] = k]
    /\ doc' = [doc EXCEPT ![c] = d]
    /\ \E n \in {NoEtag, etag[d]} :
           ifEtag' = [ifEtag EXCEPT ![c] = IF k = "edit" THEN n ELSE NoEtag]
    /\ promised' = [promised EXCEPT ![c] = AckedEdits(d)]
    /\ SubscribeOrCreate(c, d)
    /\ UNCHANGED <<meta, disk, view, rename, result, process>>

\* unsubscribe at the end, and the answer.
End(c) ==
    /\ pc[c] = "close"
    /\ Go(c, "done")
    /\ Unsubscribe(c, doc[c])
    /\ UNCHANGED <<meta, disk, request, view, rename, result, process>>

ReadContent(c) ==
    /\ pc[c] = "open"
    /\ kind[c] = "read"
    /\ known' = known \cup {doc[c]}
    /\ view' = [view EXCEPT ![c] = mem[doc[c]]]
    /\ Return(c, "ok")
    /\ UNCHANGED <<manager, head, etag, disk, request, rename, process>>

\* Parameters are refused, or the ops cannot be decoded or applied.
RejectEdit(c) ==
    /\ pc[c] \in {"open", "stage"}
    /\ kind[c] = "edit"
    /\ Return(c, "err")
    /\ UNCHANGED <<manager, meta, disk, request, view, rename, process>>

CheckEtag(c) ==
    /\ pc[c] = "open"
    /\ kind[c] = "edit"
    /\ known' = known \cup {doc[c]}
    /\ IF ifEtag[c] \in {NoEtag, etag[doc[c]]}
          THEN Go(c, "stage") /\ UNCHANGED result
          ELSE Return(c, "err")
    /\ UNCHANGED <<manager, head, etag, disk, request, view, rename, process>>

StageDoc(c) ==
    /\ pc[c] = "stage"
    /\ view' = [view EXCEPT ![c] = mem[doc[c]] \cup {c}]
    /\ Go(c, "append")
    /\ UNCHANGED <<manager, meta, disk, request, rename, result, process>>

AppendWal(c) ==
    /\ pc[c] = "append"
    /\ AppendFrame(doc[c], view[c])
    /\ Go(c, "apply")
    /\ UNCHANGED <<manager, meta, request, view, rename, result, process>>

\* Any part of the frame, all of it when only the fsync fails, may be there.
AppendFails(c) ==
    /\ DiskErrors
    /\ pc[c] = "append"
    /\ TearFrame(doc[c]) \/ AppendFrame(doc[c], view[c]) \/ WriteNothing(doc[c])
    /\ Return(c, "err")
    /\ UNCHANGED <<manager, meta, request, view, rename, process>>

ApplyStaged(c) ==
    /\ pc[c] = "apply"
    /\ ApplyUpdate(doc[c], view[c])
    /\ Go(c, "bump")
    /\ UNCHANGED <<meta, disk, request, view, rename, result, process>>

NextHead(d) ==
    /\ head' = [head EXCEPT ![d] = @ + 1]
    /\ etag' = [etag EXCEPT ![d] = head[d] + 1]

\* The call goes on with the documents left to rewrite, if any.
RelinkOrReturn(c, sources) ==
    /\ links' = [links EXCEPT ![c] = sources]
    /\ IF sources = {} THEN Return(c, "ok") ELSE Go(c, "relink") /\ UNCHANGED result

\* A rename goes on to the documents that link here; the answer is settled.
BumpHead(c) ==
    /\ pc[c] = "bump"
    /\ known' = known \cup {doc[c]}
    /\ NextHead(doc[c])
    /\ \E sources \in SUBSET (Docs \ {doc[c]}) : RelinkOrReturn(c, sources)
    /\ UNCHANGED <<manager, disk, request, view, source, process>>

\* The new path belongs to another document: an error, although the edit has
\* been logged and applied.
PathConflict(c) ==
    /\ pc[c] = "bump"
    /\ known \ {doc[c]} # {}
    /\ Return(c, "err")
    /\ UNCHANGED <<manager, meta, disk, request, view, rename, process>>

\* auto_update_backlinks_for_renamed_doc, one document at a time, in order.
Relink(c, s) ==
    /\ pc[c] = "relink"
    /\ s \in links[c] /\ \A d \in links[c] : s <= d
    /\ \/ /\ s \in known
          /\ SubscribeOrCreate(c, s)
          /\ source' = [source EXCEPT ![c] = s]
          /\ Go(c, "rewrite")
          /\ UNCHANGED <<links, result>>
       \/ /\ s \notin known
          /\ RelinkOrReturn(c, links[c] \ {s})
          /\ UNCHANGED <<manager, source>>
    /\ UNCHANGED <<meta, disk, request, view, process>>

\* Changed in place and not logged.
RewriteLinks(c) ==
    /\ pc[c] = "rewrite"
    /\ mem[source[c]] # {}
    /\ ApplyUpdate(source[c], {c})
    /\ Go(c, "renumber")
    /\ UNCHANGED <<meta, disk, request, view, rename, result, process>>

NothingToRewrite(c) ==
    /\ pc[c] = "rewrite"
    /\ Go(c, "unlink")
    /\ UNCHANGED <<manager, meta, disk, request, view, rename, result, process>>

Renumber(c) ==
    /\ pc[c] = "renumber"
    /\ IF source[c] \in known THEN NextHead(source[c]) ELSE UNCHANGED <<head, etag>>
    /\ Go(c, "unlink")
    /\ UNCHANGED <<manager, known, disk, request, view, rename, result, process>>

Unlink(c) ==
    /\ pc[c] = "unlink"
    /\ Unsubscribe(c, source[c])
    /\ RelinkOrReturn(c, links[c] \ {source[c]})
    /\ source' = [source EXCEPT ![c] = NoDoc]
    /\ UNCHANGED <<meta, disk, request, view, process>>

\* doc.edit_section changes the document in place and logs nothing.
EditSection(c) ==
    /\ pc[c] = "open"
    /\ kind[c] = "section"
    /\ ApplyUpdate(doc[c], {c})
    /\ Go(c, "retag")
    /\ UNCHANGED <<meta, disk, request, view, rename, result, process>>

\* The section is not found: the call returns without unsubscribing.
SectionMissing(c) ==
    /\ pc[c] = "open"
    /\ kind[c] = "section"
    /\ Go(c, "done")
    /\ result' = [result EXCEPT ![c] = "err"]
    /\ UNCHANGED <<manager, meta, disk, request, view, rename, process>>

\* Mutant: the length is off by one.
SectionEtagOffByOne(c, len) ==
    /\ pc[c] = "retag"
    /\ etag' = IF doc[c] \in known THEN [etag EXCEPT ![doc[c]] = len - 1] ELSE etag
    /\ Return(c, "ok")
    /\ UNCHANGED <<manager, known, head, disk, request, view, rename, process>>

\* The new etag is made from the length of the text, not from head_seq.
SectionEtag(c, len) ==
    /\ pc[c] = "retag"
    /\ etag' = IF doc[c] \in known THEN [etag EXCEPT ![doc[c]] = len] ELSE etag
    /\ Return(c, "ok")
    /\ UNCHANGED <<manager, known, head, disk, request, view, rename, process>>

(***************************************************************************)
(* Crash and restart.                                                      *)
(***************************************************************************)
\* Everything in memory is gone; a frame being appended may be torn.
Crash ==
    /\ up
    /\ crashes < MaxCrashes
    /\ up' = FALSE
    /\ crashes' = crashes + 1
    /\ pc' = [c \in Calls |-> IF pc[c] \in InProgress THEN "cut" ELSE pc[c]]
    /\ \E made \in SUBSET {doc[c] : c \in {c \in Calls : pc[c] = "append"}} :
           \E hit \in SUBSET made :
               /\ files' = files \cup made
               /\ torn' = [d \in Docs |-> torn[d] \/ d \in hit]
    /\ loaded' = {}
    /\ mem' = [d \in Docs |-> {}]
    /\ subs' = [d \in Docs |-> {}]
    /\ est' = [d \in Docs |-> 0]
    /\ tick' = [d \in Docs |-> 0]
    /\ nextTick' = 1
    /\ known' = {}
    /\ head' = [d \in Docs |-> 0]
    /\ etag' = [d \in Docs |-> 0]
    /\ UNCHANGED <<wal, request, view, rename, result>>

\* Mutant: the bad tail is skipped but left in the file.
TruncateNothing == torn' = torn
Truncate == torn' = [d \in Docs |-> FALSE]

\* recover_documents_into_manager: every WAL is replayed up to its first bad
\* frame and cut there, and put_doc inserts the documents in order of id.
\* doc_metadata starts empty.
RecoverDocs ==
    LET size == [d \in Docs |-> IF d \in files THEN Bytes(wal[d]) ELSE 0]
        order == [d \in Docs |-> IF d \in files
                                 THEN Cardinality({k \in files : k <= d}) ELSE 0]
    IN  /\ ~up
        /\ up' = TRUE
        /\ ManagerBecomes(files, wal, [d \in Docs |-> {}], size, order)
        /\ nextTick' = Cardinality(files) + 1
        /\ Truncate
        /\ UNCHANGED <<meta, files, wal, callVars, crashes>>

CallNext(c) ==
    \/ \E k \in Kinds, d \in Docs : Begin(c, k, d)
    \/ End(c)
    \/ ReadContent(c)
    \/ RejectEdit(c) \/ CheckEtag(c) \/ StageDoc(c) \/ AppendWal(c) \/ AppendFails(c)
    \/ ApplyStaged(c) \/ BumpHead(c) \/ PathConflict(c)
    \/ (\E s \in Docs : Relink(c, s))
    \/ RewriteLinks(c) \/ NothingToRewrite(c) \/ Renumber(c) \/ Unlink(c)
    \/ EditSection(c) \/ SectionMissing(c) \/ (\E n \in Lens : SectionEtag(c, n))

Next ==
    \/ \E c \in Calls : CallNext(c)
    \/ Crash
    \/ RecoverDocs

Spec == Init /\ [][Next]_vars
-----------------------------------------------------------------------------
\* DocManager, doc_metadata, the WAL and every call have the types the code
\* gives them; in particular no etag number is negative.
TypeOK ==
    /\ loaded \subseteq Docs
    /\ mem \in [Docs -> SUBSET Calls]
    /\ subs \in [Docs -> SUBSET Calls]
    /\ est \in [Docs -> Nat]
    /\ tick \in [Docs -> Nat]
    /\ nextTick \in Nat
    /\ known \subseteq Docs
    /\ head \in [Docs -> Nat]
    /\ etag \in [Docs -> Nat]
    /\ files \subseteq Docs
    /\ wal \in [Docs -> SUBSET Calls]
    /\ torn \in [Docs -> BOOLEAN]
    /\ pc \in [Calls -> PCs]
    /\ kind \in [Calls -> Kinds \cup {NoKind}]
    /\ doc \in [Calls -> Docs \cup {NoDoc}]
    /\ ifEtag \in [Calls -> Nat \cup {NoEtag}]
    /\ view \in [Calls -> SUBSET Calls]
    /\ links \in [Calls -> SUBSET Docs]
    /\ source \in [Calls -> Docs \cup {NoDoc}]
    /\ promised \in [Calls -> SUBSET Calls]
    /\ result \in [Calls -> {"none", "ok", "err"}]
    /\ up \in BOOLEAN
    /\ crashes \in 0..MaxCrashes

\* doc.edit is durable: an edit that was acknowledged, and any edit of
\* doc.edit that a reader can already see in memory, is in the part of the
\* WAL that recovery replays, whatever crashes and torn frames came before
\* (edit_doc logs the staged state before it applies it; recovery cuts the
\* bad tail before anything is appended behind it).
EditDurable ==
    \A c \in Calls :
        kind[c] = "edit" /\ (Acked(c) \/ c \in mem[doc[c]]) => c \in wal[doc[c]]

\* The same of every acknowledged write, as SPEC.md has it: "Local writes are
\* acknowledged only after durable local WAL fsync."
AckedDurable ==
    \A c \in Calls :
        kind[c] \in {"edit", "section"} /\ Acked(c) => c \in wal[doc[c]]

\* The documents a call works on: its own and the one whose links it rewrites.
WorksOn(c) == {doc[c]} \cup
    (IF pc[c] \in Linking \ {"relink"} THEN {source[c]} ELSE {})

\* A document somebody is working on is never evicted under him: as long as a
\* call is in progress its documents stay loaded, and what the call has
\* applied to them stays in them.
InUseStaysLoaded ==
    \A c \in Calls : pc[c] \in InProgress =>
        /\ WorksOn(c) \subseteq loaded
        /\ pc[c] \in {"bump", "retag"} \cup Linking => c \in mem[doc[c]]
        /\ pc[c] = "renumber" => c \in mem[source[c]]

\* A read returns every doc.edit of the document that was acknowledged before
\* the read was made, before or after a restart.
ReadSeesAcked ==
    \A c \in Calls :
        kind[c] = "read" /\ result[c] = "ok" => promised[c] \subseteq view[c]

\* if_etag is a compare-and-set: of two edits made against the same version of
\* a document at most one is acknowledged ("`if_etag` ... does not match
\* current state", SPEC.md).
IfEtagExclusive ==
    \A c, e \in Calls :
        /\ Acked(c) /\ Acked(e) /\ doc[c] = doc[e]
        /\ ifEtag[c] # NoEtag /\ ifEtag[c] = ifEtag[e]
        => c = e
-----------------------------------------------------------------------------
\* The inductive invariants behind EditDurable and InUseStaysLoaded.
EditsOf(d, state) == {c \in state : kind[c] = "edit" /\ doc[c] = d}

\* A call that has not been made has left no trace.
IdleUnseen ==
    \A c \in Calls : pc[c] = "idle" =>
        /\ kind[c] = NoKind /\ result[c] = "none"
        /\ \A d \in Docs : c \notin mem[d] \cup subs[d] \cup wal[d]
        /\ \A e \in Calls : c \notin view[e]

CallShape ==
    \A c \in Calls :
        /\ pc[c] # "idle" => doc[c] \in Docs
        /\ pc[c] \in InProgress => up
        /\ pc[c] \in {"stage", "append", "apply", "bump"} \cup Linking => kind[c] = "edit"
        /\ pc[c] \in Linking => doc[c] \notin links[c]
        /\ pc[c] \in Linking \ {"relink"} => source[c] \in Docs \ {doc[c]}
        /\ pc[c] = "retag" => kind[c] = "section"
        /\ pc[c] \in {"append", "apply"} => c \in view[c]

InUseCounted ==
    \A c \in Calls : pc[c] \in InProgress => \A d \in WorksOn(c) : c \in subs[d]

UseInv == TypeOK /\ IdleUnseen /\ CallShape /\ InUseCounted /\ InUseStaysLoaded

\* While the daemon runs no WAL ends in a bad frame.
TailClean == up => \A d \in Docs : ~torn[d]

\* What doc.edit changed in memory is in the WAL, and so is what a call has staged, its own
\* edit excepted until the frame is written.
MemLogged == \A d \in Docs : EditsOf(d, mem[d]) \subseteq wal[d]
StagedLogged ==
    \A c \in Calls :
        /\ pc[c] = "append" => EditsOf(doc[c], view[c]) \subseteq wal[doc[c]] \cup {c}
        /\ pc[c] = "apply" => EditsOf(doc[c], view[c]) \subseteq wal[doc[c]]
ResultLogged ==
    \A c \in Calls :
        kind[c] = "edit" /\ (pc[c] \in {"apply", "bump"} \cup Linking \/ result[c] = "ok")
            => c \in wal[doc[c]]
DurableInv == TailClean /\ MemLogged /\ StagedLogged /\ ResultLogged
=============================================================================
