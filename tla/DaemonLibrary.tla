---------------------------- MODULE DaemonLibrary ---------------------------
(***************************************************************************)
(* The documents of a workspace as the daemon's calls see them: doc.create *)
(* doc.edit with a rename, doc.read, doc.sections, doc.diff, doc.history   *)
(* and doc.search (crates/daemon/src/rpc/methods.rs), the search index and *)
(* the links between documents (crates/daemon/src/search).                 *)
(*                                                                         *)
(* A call runs in steps between which others run: each takes one of the    *)
(* locks of the metadata, the history, the document or the database.  A    *)
(* text is [edits, links]: the calls whose edits it has and the paths it   *)
(* links to.  A link names a path.  The log of updates and the etags are   *)
(* DaemonDocs.                                                             *)
(***************************************************************************)
EXTENDS Integers, Sequences, FiniteSets, FiniteSetsExt, Maps

CONSTANTS
    LibClients,
    LibPaths,       \* paths documents are created at
    LibRenames,     \* paths they are renamed to; "" for none
    LibLinks,       \* sets of paths a new text may link to
    LibDocs,        \* 1 .. n: ids in the order of creation
    LibMaxCalls     \* bound on the calls made

\* 0 stands for no document.
ASSUME LibDocsPos == LibDocs \subseteq Nat \ {0} /\ IsFiniteSet(LibDocs)

VARIABLES
    meta,       \* doc_metadata: doc -> [path, seq]
    text,       \* the documents in memory
    files,      \* paths that have a file
    docHistory, \* <<doc, seq>> -> text
    index,      \* table search_index: doc -> text
    backlinks,  \* table backlinks: doc -> the docs it links to
    libReq,     \* the call of each client
    answered,   \* history: [doc, seq, call] of the edits answered
    together,   \* history: two calls were under way at a time
    unmoved,    \* history: documents edited by a call that failed to rename
    libCount

libVars == <<meta, text, files, docHistory, index, backlinks, libReq, answered, together,
             unmoved, libCount>>

-----------------------------------------------------------------------------

NoText == [edits |-> {}, links |-> {}]

LibIdle == [at |-> "idle", op |-> "none", doc |-> 0, path |-> "", links |-> {}, call |-> 0,
            seq |-> 0, text |-> NoText, old |-> "", todo |-> {}, resolve |-> <<>>]

LibTo(c, at) == [libReq EXCEPT ![c].at = at]
LibEnd(c) == [libReq EXCEPT ![c] = LibIdle]

PathsOf(m) == [d \in DOMAIN m |-> m[d].path]

\* resolve_target_doc: the documents with the path; several only when creations
\* raced.
resolve_wiki_links(links, paths) == {d \in DOMAIN paths : paths[d] \in links}

incoming_for_target(d) == {s \in DOMAIN backlinks : d \in backlinks[s]}

\* record_doc_snapshot: the first text recorded for a number stays.
record_doc_snapshot(d, seq, t) ==
    IF <<d, seq>> \in DOMAIN docHistory THEN docHistory
    ELSE Insert(docHistory, <<d, seq>>, t)

\* Mutant: links are resolved with the paths after the rename.
RewriteByNewPaths(t, target, paths, new) ==
    LET hit == {p \in t.links : target \in resolve_wiki_links({p}, [paths EXCEPT ![target] = new])}
    IN  [t EXCEPT !.links = IF hit = {} THEN @ ELSE (@ \ hit) \cup {new}]

\* The links to the old path of the renamed document are made to its new one.
rewrite_backlinks_for_renamed_target(t, target, paths, new) ==
    LET hit == {p \in t.links : target \in resolve_wiki_links({p}, paths)}
    IN  [t EXCEPT !.links = IF hit = {} THEN @ ELSE (@ \ hit) \cup {new}]

-----------------------------------------------------------------------------
(* doc.create *)

LibBegin(c, r) ==
    /\ libReq[c].at = "idle"
    /\ libCount < LibMaxCalls
    /\ libCount' = libCount + 1
    /\ libReq' = [libReq EXCEPT ![c] = [r EXCEPT !.call = libCount + 1]]
    /\ together' = (together \/ \E x \in LibClients : libReq[x].at # "idle")
    /\ UNCHANGED <<meta, text, files, docHistory, index, backlinks, answered, unmoved>>

\* The path is looked up, the file looked for and written; the directories in
\* between and a path in .scriptum are refused or made without a trace here.
create_doc_check(c) ==
    /\ libReq[c].at = "create"
    /\ libReq' = IF \E d \in DOMAIN meta : meta[d].path = libReq[c].path THEN LibEnd(c)
                 ELSE LibTo(c, "create_file")
    /\ UNCHANGED <<meta, text, files, docHistory, index, backlinks, answered, together, unmoved, libCount>>

create_doc_file(c) ==
    LET r == libReq[c]
        fresh == LibDocs \ (DOMAIN text \cup {libReq[x].doc : x \in LibClients})
    IN  /\ r.at = "create_file"
        /\ IF r.path \in files THEN libReq' = LibEnd(c) /\ UNCHANGED files
           ELSE /\ fresh # {}
                /\ files' = files \cup {r.path}
                /\ libReq' = [LibTo(c, "create_index") EXCEPT
                                 ![c].doc = Min(fresh),
                                 ![c].text = [edits |-> {r.call}, links |-> r.links]]
        /\ UNCHANGED <<meta, text, docHistory, index, backlinks, answered, together, unmoved, libCount>>

\* documents_local, the search index, the links and the tags.
create_doc_index(c) ==
    LET r == libReq[c]
        d == r.doc
        paths == Insert(PathsOf(meta), d, r.path)
    IN  /\ r.at = "create_index"
        /\ index' = Insert(index, d, r.text)
        /\ backlinks' = Insert(backlinks, d, resolve_wiki_links(r.links, paths))
        /\ libReq' = LibTo(c, "create_doc")
        /\ UNCHANGED <<meta, text, files, docHistory, answered, together, unmoved, libCount>>

create_doc_insert(c) ==
    LET r == libReq[c]
    IN  /\ r.at = "create_doc"
        /\ text' = Insert(text, r.doc, r.text)
        /\ libReq' = LibTo(c, "create_meta")
        /\ UNCHANGED <<meta, files, docHistory, index, backlinks, answered, together, unmoved, libCount>>

create_doc_metadata(c) ==
    LET r == libReq[c]
    IN  /\ r.at = "create_meta"
        /\ meta' = Insert(meta, r.doc, [path |-> r.path, seq |-> 0])
        /\ libReq' = [LibTo(c, "record") EXCEPT ![c].seq = 0]
        /\ UNCHANGED <<text, files, docHistory, index, backlinks, answered, together, unmoved, libCount>>

-----------------------------------------------------------------------------
(* doc.edit *)

\* The text before the edit is recorded.
edit_doc_head(c) ==
    /\ libReq[c].at = "edit"
    /\ libReq' = [LibTo(c, "edit_before") EXCEPT ![c].seq = meta[libReq[c].doc].seq]
    /\ UNCHANGED <<meta, text, files, docHistory, index, backlinks, answered, together, unmoved, libCount>>

edit_doc_before(c) ==
    LET r == libReq[c]
    IN  /\ r.at = "edit_before"
        /\ docHistory' = record_doc_snapshot(r.doc, r.seq, text[r.doc])
        /\ libReq' = LibTo(c, "edit_apply")
        /\ UNCHANGED <<meta, text, files, index, backlinks, answered, together, unmoved, libCount>>

edit_doc_apply(c) ==
    LET r == libReq[c]
    IN  /\ r.at = "edit_apply"
        /\ text' = [text EXCEPT ![r.doc] = [edits |-> @.edits \cup {r.call}, links |-> r.links]]
        /\ libReq' = [LibTo(c, "edit_meta") EXCEPT ![c].text = text'[r.doc]]
        /\ UNCHANGED <<meta, files, docHistory, index, backlinks, answered, together, unmoved, libCount>>

\* A path in use fails the call after the text was changed.
edit_doc_metadata(c) ==
    LET r == libReq[c]
        taken == \E d \in DOMAIN meta \ {r.doc} : meta[d].path = r.path
        path == IF r.path = "" THEN meta[r.doc].path ELSE r.path
    IN  /\ r.at = "edit_meta"
        /\ IF taken
           THEN /\ libReq' = LibEnd(c)
                /\ unmoved' = unmoved \cup {r.doc}
                /\ UNCHANGED meta
           ELSE /\ meta' = [meta EXCEPT ![r.doc] = [path |-> path, seq |-> @.seq + 1]]
                /\ libReq' = [LibTo(c, "record") EXCEPT ![c].seq = meta'[r.doc].seq,
                                                        ![c].old = meta[r.doc].path]
                /\ UNCHANGED unmoved
        /\ UNCHANGED <<text, files, docHistory, index, backlinks, answered, together, libCount>>

\* doc.create is done with this; an edit goes on.
record_doc_snapshot_step(c) ==
    LET r == libReq[c]
    IN  /\ r.at = "record"
        /\ docHistory' = record_doc_snapshot(r.doc, r.seq, r.text)
        /\ libReq' = IF r.op = "create" THEN LibEnd(c) ELSE LibTo(c, "refresh")
        /\ UNCHANGED <<meta, text, files, index, backlinks, answered, together, unmoved, libCount>>

refresh_search_and_backlinks_for_doc(c) ==
    LET r == libReq[c]
    IN  /\ r.at = "refresh"
        /\ index' = [index EXCEPT ![r.doc] = r.text]
        /\ backlinks' = [backlinks EXCEPT ![r.doc] = resolve_wiki_links(r.text.links, PathsOf(meta))]
        /\ libReq' = IF meta[r.doc].path = r.old THEN LibTo(c, "answer") ELSE LibTo(c, "sources")
        /\ UNCHANGED <<meta, text, files, docHistory, answered, together, unmoved, libCount>>

\* The documents that link here, and the paths as they were.
backlink_sources(c) ==
    LET r == libReq[c]
    IN  /\ r.at = "sources"
        /\ libReq' = [LibTo(c, "rewrite") EXCEPT
                         ![c].todo = incoming_for_target(r.doc) \ {r.doc},
                         ![c].resolve = [PathsOf(meta) EXCEPT ![r.doc] = r.old]]
        /\ UNCHANGED <<meta, text, files, docHistory, index, backlinks, answered, together, unmoved, libCount>>

\* One source: its text is replaced, numbered, recorded and indexed.
auto_update_backlinks_for_renamed_doc(c) ==
    LET r == libReq[c]
        s == Min(r.todo)
        new == rewrite_backlinks_for_renamed_target(text[s], r.doc, r.resolve, meta[r.doc].path)
    IN  /\ r.at = "rewrite"
        /\ r.todo # {}
        /\ libReq' = [libReq EXCEPT ![c].todo = @ \ {s}]
        /\ IF s \notin DOMAIN meta \/ new = text[s]
           THEN UNCHANGED <<meta, text, docHistory, index, backlinks>>
           ELSE /\ text' = [text EXCEPT ![s] = new]
                /\ meta' = [meta EXCEPT ![s].seq = @ + 1]
                /\ docHistory' = record_doc_snapshot(s, meta'[s].seq, new)
                /\ index' = [index EXCEPT ![s] = new]
                /\ backlinks' = [backlinks EXCEPT ![s] = resolve_wiki_links(new.links, PathsOf(meta'))]
        /\ UNCHANGED <<files, answered, together, unmoved, libCount>>

edit_doc_answer(c) ==
    LET r == libReq[c]
    IN  /\ r.at = "answer" \/ (r.at = "rewrite" /\ r.todo = {})
        /\ answered' = answered \cup {[doc |-> r.doc, seq |-> r.seq, call |-> r.call]}
        /\ libReq' = LibEnd(c)
        /\ UNCHANGED <<meta, text, files, docHistory, index, backlinks, together, unmoved, libCount>>

-----------------------------------------------------------------------------
(* Calls that read, and record what they read *)

\* doc.read, doc.diff and doc.history take the number, then the text.
read_doc_head(c) ==
    /\ libReq[c].at = "read"
    /\ libReq' = [LibTo(c, "read_text") EXCEPT ![c].seq = meta[libReq[c].doc].seq]
    /\ UNCHANGED <<meta, text, files, docHistory, index, backlinks, answered, together, unmoved, libCount>>

read_doc_text(c) ==
    LET r == libReq[c]
    IN  /\ r.at = "read_text"
        /\ docHistory' = record_doc_snapshot(r.doc, r.seq, text[r.doc])
        /\ libReq' = LibEnd(c)
        /\ UNCHANGED <<meta, text, files, index, backlinks, answered, together, unmoved, libCount>>

\* doc.sections takes the text, then the number.
doc_sections_text(c) ==
    /\ libReq[c].at = "sections"
    /\ libReq' = [LibTo(c, "sections_head") EXCEPT ![c].text = text[libReq[c].doc]]
    /\ UNCHANGED <<meta, text, files, docHistory, index, backlinks, answered, together, unmoved, libCount>>

doc_sections_head(c) ==
    LET r == libReq[c]
    IN  /\ r.at = "sections_head"
        /\ docHistory' = record_doc_snapshot(r.doc, meta[r.doc].seq, r.text)
        /\ libReq' = LibEnd(c)
        /\ UNCHANGED <<meta, text, files, index, backlinks, answered, together, unmoved, libCount>>

\* What doc.search finds with a word that edit n put in the text: the index is
\* asked for as many documents as there are, and the others left out.
doc_search(n) ==
    LET hits == {d \in DOMAIN index : n \in index[d].edits}
    IN  IF Cardinality(hits) <= Max({Cardinality(DOMAIN meta), 1}) THEN hits \cap DOMAIN meta
        ELSE {}

-----------------------------------------------------------------------------

LibInit ==
    /\ meta = <<>>
    /\ text = <<>>
    /\ files = {}
    /\ docHistory = <<>>
    /\ index = <<>>
    /\ backlinks = <<>>
    /\ libReq = [c \in LibClients |-> LibIdle]
    /\ answered = {}
    /\ together = FALSE
    /\ unmoved = {}
    /\ libCount = 0

\* dispatch_request, with the parameters each method takes
create_call(p, l) == [LibIdle EXCEPT !.at = "create", !.op = "create", !.path = p, !.links = l]
edit_call(d, p, l) == [LibIdle EXCEPT !.at = "edit", !.op = "edit", !.doc = d, !.path = p, !.links = l]
read_call(op, d) == [LibIdle EXCEPT !.at = op, !.op = op, !.doc = d]

LibCalls ==
    {create_call(p, l) : p \in LibPaths, l \in LibLinks}
    \cup {edit_call(d, p, l) : d \in DOMAIN meta, p \in LibRenames, l \in LibLinks}
    \cup {read_call(op, d) : op \in {"read", "sections"}, d \in DOMAIN meta}

LibNext ==
    \E c \in LibClients :
        \/ \E r \in LibCalls : LibBegin(c, r)
        \/ create_doc_check(c)
        \/ create_doc_file(c)
        \/ create_doc_index(c)
        \/ create_doc_insert(c)
        \/ create_doc_metadata(c)
        \/ edit_doc_head(c)
        \/ edit_doc_before(c)
        \/ edit_doc_apply(c)
        \/ edit_doc_metadata(c)
        \/ record_doc_snapshot_step(c)
        \/ refresh_search_and_backlinks_for_doc(c)
        \/ backlink_sources(c)
        \/ auto_update_backlinks_for_renamed_doc(c)
        \/ edit_doc_answer(c)
        \/ read_doc_head(c)
        \/ read_doc_text(c)
        \/ doc_sections_text(c)
        \/ doc_sections_head(c)

LibSpec == LibInit /\ [][LibNext]_libVars

-----------------------------------------------------------------------------
(* Properties *)

LibQuiet == \A c \in LibClients : libReq[c].at = "idle"

\* A number is answered to one edit of a document only, and doc.history has
\* it, whatever edits, renames and reads run beside it.
LibSeqOnce ==
    /\ \A x, y \in answered : x.doc = y.doc /\ x.seq = y.seq => x.call = y.call
    /\ \A x \in answered : <<x.doc, x.seq>> \in DOMAIN docHistory

\* doc.diff between two numbers shows what was edited between them: the text
\* recorded for a number has the edit answered with it and all edits before,
\* though reads, and edits that failed, record texts as well.  (When calls come
\* one after the other; one that reads beside an edit may record its number
\* with the text before, and the first record stays.)
LibHistoryTrue ==
    ~together =>
        /\ \A x \in answered : x.call \in docHistory[<<x.doc, x.seq>>].edits
        /\ \A k, l \in DOMAIN docHistory :
              k[1] = l[1] /\ k[2] <= l[2] => docHistory[k].edits \subseteq docHistory[l].edits

\* Between calls that came one after the other no two documents have a path in
\* common, and doc.search finds every document with what is in its text.  (Not
\* what an edit put there that then failed to rename.)
LibFindable ==
    LibQuiet /\ ~together =>
        /\ \A d, e \in DOMAIN meta : d # e => meta[d].path # meta[e].path
        /\ \A d \in DOMAIN meta \ unmoved : \A n \in text[d].edits : d \in doc_search(n)

\* A document that the index knows to link to another links to it still after
\* the other was renamed, be the renames many and the link one of several.
LibRenameFollowed ==
    LibQuiet /\ ~together =>
        \A s \in DOMAIN backlinks \ unmoved : \A t \in backlinks[s] :
            meta[t].path \in text[s].links

\* What doc.edit, doc.read, doc.history, doc.search and the links between
\* documents promise of numbers, recorded texts, the index and renames.
LibSound == LibSeqOnce /\ LibHistoryTrue /\ LibFindable /\ LibRenameFollowed
=============================================================================
