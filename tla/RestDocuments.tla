---------------------------- MODULE RestDocuments ----------------------------
(***************************************************************************)
(* The documents of a workspace behind the HTTP API of the relay           *)
(* (crates/relay/src/api/documents.rs): create, list, get, update, delete, *)
(* tags and access overrides, by concurrent requests on Postgres, and the  *)
(* same operations of the in-memory store the tests run on.                *)
(*                                                                         *)
(* An operator named like a function of the source takes the table and     *)
(* returns the status and the new table.  A request is at "role", "acl",   *)
(* "op", "write", "tags" or "audit": the statements its handler awaits.    *)
(* One counter gives ids to etags and times to updated_at.                 *)
(***************************************************************************)
EXTENDS RestCommon

CONSTANTS
    DocUsers,
    DocIds,
    AclIds,
    DocCalls,      \* the requests clients make
    DocInit,       \* the rows there are at first
    DocInitRoles,  \* and the members
    DocMaxCalls,   \* bound on the requests made
    DocMaxRoles    \* bound on the changes of a member's role

\* Ids and times are compared.
ASSUME DocRowsGiven ==
    /\ DocIds \subseteq Int /\ DOMAIN DocInit \subseteq DocIds /\ IsFiniteSet(DOMAIN DocInit)
    /\ DocInit = [d \in DOMAIN DocInit |-> DocInit[d]]
    /\ \A d \in DOMAIN DocInit :
          /\ DOMAIN DocInit[d] = {"ws", "norm", "etag", "updated", "archived", "deleted", "tags"}
          /\ DocInit[d].updated \in Int

\* The client that reads the list page by page repeats its query, with
\* whatever limit.
ASSUME DocOneListing ==
    \A c, e \in {r \in DocCalls : r.op = "list"} :
        /\ c.ws = e.ws /\ c.prefix = e.prefix /\ c.include = e.include /\ c.archived = e.archived
        /\ c.limit \in Nat

VARIABLES
    docs,      \* table documents, with document_tags: id -> row
    acls,      \* table acl_overrides
    docRoles,  \* active workspace_members of "w1": user -> role or "none"
    docReq,    \* the request of each user
    docWalk,   \* a client reading the list page by page
    docTick,   \* the clock, and the last etag
    docCount   \* [calls, roles]: what the bounds count

docVars == <<docs, acls, docRoles, docReq, docWalk, docTick, docCount>>

-----------------------------------------------------------------------------
(* Paths *)

DocPaths == {"a", "A", "a/b", "blank"}

normalize_doc_path(path) == IF path = "A" THEN "a" ELSE path

\* "blank" stands for a path that is empty when trimmed, or too long.
validate_path(path) == path # "blank"

doc_under(norm, prefix) ==
    \/ prefix \in {"none", norm}
    \/ prefix = "a" /\ norm = "a/b"

\* The default hides archived documents.
normalize_archived_filter(include, archived) ==
    IF include # "none"
    THEN IF include = "true" THEN "none" ELSE "false"
    ELSE IF archived # "none" THEN archived ELSE "false"

doc_visible(row, ws, prefix, archived) ==
    /\ row.ws = ws /\ row.deleted = 0
    /\ doc_under(row.norm, normalize_doc_path(prefix))
    /\ archived = "true" => row.archived # 0
    /\ archived = "false" => row.archived = 0

-----------------------------------------------------------------------------
(* Statements of the Postgres store *)

DocLive(t, ws, d) == d \in DOMAIN t /\ t[d].ws = ws /\ t[d].deleted = 0

\* idx_documents_workspace_path_unique
PathTaken(t, ws, d, norm) ==
    \E e \in DOMAIN t : e # d /\ DocLive(t, ws, e) /\ t[e].norm = norm

Answer(st, t) == [st |-> st, t |-> t]

NewDoc(ws, path, now) ==
    [ws |-> ws, norm |-> normalize_doc_path(path), etag |-> now, updated |-> now,
     archived |-> 0, deleted |-> 0, tags |-> {}]

create_pg(t, d, ws, path, now) ==
    IF PathTaken(t, ws, d, normalize_doc_path(path))
    THEN Answer("conflict", t)
    ELSE Answer("ok", Insert(t, d, NewDoc(ws, path, now)))

get_pg(t, ws, d) == IF DocLive(t, ws, d) THEN "ok" ELSE "not_found"

\* Newest first; the id decides between two of the same time.
DocBefore(t, d, e) ==
    \/ t[d].updated > t[e].updated
    \/ t[d].updated = t[e].updated /\ d > e

DocsInOrder(t, S) == Ordered(S, {p \in S \X S : DocBefore(t, p[1], p[2])})

list_pg(t, ws, prefix, archived, limit, cursor) ==
    LET found == {d \in DOMAIN t :
                    /\ doc_visible(t[d], ws, prefix, archived)
                    /\ cursor # NoCursor =>
                        \/ t[d].updated < cursor[1].updated
                        \/ t[d].updated = cursor[1].updated /\ d < cursor[1].id}
        page == paginate(DocsInOrder(t, found), limit)
    IN  [items  |-> page.items,
         cursor |-> IF page.cursor = NoCursor THEN NoCursor
                    ELSE <<[updated |-> t[page.cursor[1]].updated,
                            id |-> page.cursor[1]]>>]
\* Mutant: the etag is not compared.
EtagNotCompared(t, ws, d, ifMatch) == IF DocLive(t, ws, d) THEN "ok" ELSE "not_found"

\* The first statement of update_pg, and of delete_document.
check_etag_pg(t, ws, d, ifMatch) ==
    IF ~DocLive(t, ws, d) THEN "not_found"
    ELSE IF ~etag_matches(ifMatch, t[d].etag) THEN "precondition_failed"
    ELSE "ok"

\* The second: it does not compare the etag again.  Archiving was decided
\* by what the first one read.
update_pg(t, ws, d, path, archived, readArchived, now) ==
    LET norm == IF path = "none" THEN t[d].norm ELSE normalize_doc_path(path)
        at   == CASE archived = "true" /\ readArchived = 0 -> now
                  [] archived = "false" /\ readArchived # 0 -> 0
                  [] OTHER -> t[d].archived
    IN  IF ~DocLive(t, ws, d) THEN Answer("not_found", t)
        ELSE IF PathTaken(t, ws, d, norm) THEN Answer("conflict", t)
        ELSE Answer("ok", [t EXCEPT ![d].norm = norm, ![d].archived = at,
                                    ![d].etag = now, ![d].updated = now])

\* A row another table refers to cannot be deleted: no ON DELETE clause.
DocReferenced(t, a, d) == t[d].tags # {} \/ \E i \in DOMAIN a : a[i].doc = d

delete_pg(t, a, ws, d, hard, now) ==
    IF hard
    THEN IF ~(d \in DOMAIN t /\ t[d].ws = ws) THEN Answer("not_found", t)
         ELSE IF DocReferenced(t, a, d) THEN Answer("internal", t)
         ELSE Answer("ok", [e \in DOMAIN t \ {d} |-> t[e]])
    ELSE IF ~DocLive(t, ws, d) THEN Answer("not_found", t)
         ELSE Answer("ok", [t EXCEPT ![d].deleted = now])

\* One transaction that holds the row from SELECT ... FOR UPDATE on.
update_tags_pg(t, ws, d, op, tags, now) ==
    IF ~DocLive(t, ws, d) THEN Answer("not_found", t)
    ELSE Answer("ok", [t EXCEPT ![d].tags = IF op = "add" THEN @ \cup tags ELSE @ \ tags,
                                ![d].etag = now, ![d].updated = now])

\* The document was found by a statement before this one.
create_acl_override_pg(t, a, i, ws, d, call, now) ==
    IF d \notin DOMAIN t THEN Answer("internal", a)
    ELSE Answer("ok", Insert(a, i, [ws |-> ws, doc |-> d, kind |-> call.kind, user |-> call.user,
                                    role |-> call.role, expires |-> call.expires, created |-> now]))

delete_acl_override_pg(a, ws, d, i) ==
    IF ~(i \in DOMAIN a /\ a[i].ws = ws /\ a[i].doc = d) THEN Answer("not_found", a)
    ELSE Answer("ok", [j \in DOMAIN a \ {i} |-> a[j]])

workspace_role_for_user_pg(roles, u) == roles[u]

\* The newest override of the user that has not expired.
acl_override_role_for_user_pg(a, u, ws, d, now) ==
    LET mine == {i \in DOMAIN a : /\ a[i].ws = ws /\ a[i].doc = d
                                  /\ a[i].kind = "user" /\ a[i].user = u
                                  /\ a[i].expires = 0 \/ a[i].expires > now}
    IN  IF mine = {} THEN "none"
        ELSE a[CHOOSE i \in mine : \A j \in mine : a[i].created >= a[j].created].role

-----------------------------------------------------------------------------
(* The in-memory store: the whole operation under its lock *)

create_mem(t, d, ws, path, now) ==
    IF \E e \in DOMAIN t : /\ t[e].ws = ws /\ t[e].norm = normalize_doc_path(path)
                           /\ t[e].deleted = 0
    THEN Answer("conflict", t)
    ELSE Answer("ok", Insert(t, d, NewDoc(ws, path, now)))

\* _cursor: the argument is not used, every page is the first one.
list_mem(t, ws, prefix, archived, limit) ==
    LET found == {d \in DOMAIN t : doc_visible(t[d], ws, prefix, archived)}
    IN  paginate(DocsInOrder(t, found), limit).items

get_mem(t, ws, d) == IF DocLive(t, ws, d) THEN "ok" ELSE "not_found"

update_mem(t, ws, d, ifMatch, path, archived, now) ==
    IF ~DocLive(t, ws, d) THEN Answer("not_found", t)
    ELSE IF ~etag_matches(ifMatch, t[d].etag) THEN Answer("precondition_failed", t)
    ELSE Answer("ok",
           [t EXCEPT ![d].norm = IF path = "none" THEN @ ELSE normalize_doc_path(path),
                     ![d].archived = CASE archived = "true" -> now
                                       [] archived = "false" -> 0
                                       [] OTHER -> @,
                     ![d].etag = now, ![d].updated = now])

\* A hard delete takes the row out before it looks at the workspace.
delete_mem(t, ws, d, hard, now) ==
    IF hard
    THEN Answer(IF d \in DOMAIN t /\ t[d].ws = ws THEN "ok" ELSE "not_found",
                [e \in DOMAIN t \ {d} |-> t[e]])
    ELSE IF ~DocLive(t, ws, d) THEN Answer("not_found", t)
         ELSE Answer("ok", [t EXCEPT ![d].deleted = now])

update_tags_mem(t, ws, d, op, tags, now) ==
    IF ~DocLive(t, ws, d) THEN Answer("not_found", t)
    ELSE Answer("ok", [t EXCEPT ![d].tags = IF op = "add" THEN @ \cup tags ELSE @ \ tags,
                                ![d].etag = now, ![d].updated = now])

create_acl_override_mem(t, a, i, ws, d, call, now) ==
    IF ~DocLive(t, ws, d) THEN Answer("not_found", a)
    ELSE Answer("ok", Insert(a, i, [ws |-> ws, doc |-> d, kind |-> call.kind, user |-> call.user,
                                    role |-> call.role, expires |-> call.expires, created |-> now]))

delete_acl_override_mem(a, ws, d, i) ==
    IF i \notin DOMAIN a THEN Answer("not_found", a)
    ELSE IF a[i].ws # ws \/ a[i].doc # d THEN Answer("not_found", a)
    ELSE Answer("ok", [j \in DOMAIN a \ {i} |-> a[j]])

\* A workspace without members makes its first caller the owner.
workspace_role_for_user_mem(roles, u) ==
    IF roles[u] # "none" THEN roles[u]
    ELSE IF \A v \in DocUsers : roles[v] = "none" THEN "owner" ELSE "none"

acl_override_role_for_user_mem(a, u, ws, d, now) ==
    LET mine == {i \in DOMAIN a : /\ a[i].ws = ws /\ a[i].doc = d
                                  /\ a[i].kind = "user" /\ a[i].user = u
                                  /\ a[i].expires = 0 \/ a[i].expires > now}
    IN  IF mine = {} THEN "none"
        ELSE a[CHOOSE i \in mine : \A j \in mine : a[i].created >= a[j].created].role

-----------------------------------------------------------------------------
(* Requests *)

\* The role each route asks for, and whether it asks for it of the document
\* or of the workspace.
RequiredRole(op) ==
    CASE op \in {"list", "get"} -> "viewer"
      [] op \in {"create", "update", "tags"} -> "editor"
      [] op \in {"delete", "acl_create", "acl_delete"} -> "owner"

OfWorkspace(op) == op \in {"create", "list"}

\* What the handler checks of the payload and the headers once the role is
\* known: validate_path, normalize_tag_names, extract_if_match,
\* validate_acl_override_request.
doc_validate(c, now) ==
    CASE c.op = "create" -> IF validate_path(c.path) THEN "ok" ELSE "bad_request"
      [] c.op = "update" -> IF c.path # "none" /\ ~validate_path(c.path) THEN "bad_request"
                            ELSE IF c.match = NoIfMatch THEN "precondition_required"
                            ELSE "ok"
      [] c.op = "delete" -> IF c.match = NoIfMatch THEN "precondition_required" ELSE "ok"
      [] c.op = "tags" -> IF c.tags = {} THEN "bad_request" ELSE "ok"
      [] c.op = "acl_create" -> IF \/ c.kind \notin {"user", "agent", "share_link"}
                                   \/ c.role \notin {"editor", "viewer"}
                                   \/ c.expires # 0 /\ c.expires <= now
                                THEN "bad_request" ELSE "ok"
      [] OTHER -> "ok"

IdleReq == [at |-> "idle", call |-> [op |-> "none"], got |-> 0, doc |-> 0, role |-> "none",
            member |-> FALSE, current |-> FALSE, status |-> "none"]

\* The If-Match of a call names the document's etag.
MatchIsCurrent(c, t) ==
    /\ c.op \in {"update", "delete"}
    /\ c.doc \in DOMAIN t
    /\ etag_matches(c.match, t[c.doc].etag)

\* A request of user u is received, with a token for workspace "w1".
DocBegin(u, c) ==
    /\ docReq[u].at \in {"idle", "done"}
    /\ docCount.calls < DocMaxCalls
    /\ docReq' = [docReq EXCEPT ![u] =
          [IdleReq EXCEPT !.at = "role", !.call = c, !.member = docRoles[u] # "none",
                          !.current = MatchIsCurrent(c, docs)]]
    /\ docCount' = [docCount EXCEPT !.calls = @ + 1]
    /\ UNCHANGED <<docs, acls, docRoles, docWalk, docTick>>

\* What a finished or waiting request becomes when the tables change: whether
\* its If-Match has named the etag, and its user been a member, since it began.
Observe(req, t, roles) ==
    [u \in DocUsers |->
        IF req[u].at \in {"idle", "done"} THEN req[u]
        ELSE [req[u] EXCEPT !.member = @ \/ roles[u] # "none",
                            !.current = @ \/ MatchIsCurrent(req[u].call, t)]]

Finish(u, st) == [docReq EXCEPT ![u].at = "done", ![u].status = st]
Goto(u, at) == [docReq EXCEPT ![u].at = at]

\* require_workspace_role, and the first half of require_document_role.
doc_require_workspace_role(u) ==
    LET c == docReq[u].call
        role == workspace_role_for_user_pg(docRoles, u)
        checked == doc_validate(c, docTick)
    IN  /\ docReq[u].at = "role"
        /\ docReq' =
             IF c.ws # "w1" \/ role = "none" THEN Finish(u, "forbidden")
             ELSE IF ~OfWorkspace(c.op) THEN [Goto(u, "acl") EXCEPT ![u].role = role]
             ELSE IF ~allows(role, RequiredRole(c.op)) THEN Finish(u, "forbidden")
             ELSE IF checked # "ok" THEN Finish(u, checked)
             ELSE Goto(u, "op")
        /\ UNCHANGED <<docs, acls, docRoles, docWalk, docTick, docCount>>

\* The second half: an override takes the place of the member's role.
doc_require_document_role(u) ==
    LET c == docReq[u].call
        override == acl_override_role_for_user_pg(acls, u, c.ws, c.doc, docTick)
        role == IF override # "none" THEN override ELSE docReq[u].role
        checked == doc_validate(c, docTick)
    IN  /\ docReq[u].at = "acl"
        /\ docReq' = IF ~allows(role, RequiredRole(c.op)) THEN Finish(u, "forbidden")
                     ELSE IF checked # "ok" THEN Finish(u, checked)
                     ELSE Goto(u, "op")
        /\ UNCHANGED <<docs, acls, docRoles, docWalk, docTick, docCount>>

\* A statement that may change documents; the walk no longer counts on a row
\* that changed.
Write(u, r, next) ==
    /\ docs' = r.t
    /\ docReq' = Observe(IF r.st = "ok" THEN next ELSE Finish(u, r.st), r.t, docRoles)
    /\ docTick' = IF r.st = "ok" THEN docTick + 1 ELSE docTick
    /\ docWalk' = [docWalk EXCEPT !.stable =
                     {d \in @ : d \in DOMAIN r.t /\ r.t[d] = docs[d]}]
    /\ UNCHANGED <<acls, docRoles, docCount>>

\* The tags come by a transaction of their own.
create_document(u) ==
    LET c == docReq[u].call
    IN  /\ docReq[u].at = "op" /\ c.op = "create"
        /\ \E d \in DocIds \ DOMAIN docs :
             Write(u, create_pg(docs, d, c.ws, c.path, docTick + 1),
                   [Goto(u, IF c.tags = {} THEN "audit" ELSE "tags") EXCEPT ![u].doc = d])

create_document_tags(u) ==
    LET c == docReq[u].call
    IN  /\ docReq[u].at = "tags"
        /\ Write(u, update_tags_pg(docs, c.ws, docReq[u].doc, "add", c.tags, docTick + 1),
                 Goto(u, "audit"))

get_document(u) ==
    LET c == docReq[u].call
    IN  /\ docReq[u].at = "op" /\ c.op = "get"
        /\ docReq' = Finish(u, get_pg(docs, c.ws, c.doc))
        /\ UNCHANGED <<docs, acls, docRoles, docWalk, docTick, docCount>>

\* A call with walk asks for the page after the one it had, or the first.
list_documents(u) ==
    LET c == docReq[u].call
        filter == normalize_archived_filter(c.include, c.archived)
        page == list_pg(docs, c.ws, c.prefix, filter, normalize_limit(c.limit), docWalk.cursor)
        start == docWalk.cursor = NoCursor
    IN  /\ docReq[u].at = "op" /\ c.op = "list"
        /\ docReq' = Finish(u, "ok")
        /\ docWalk' = [seen   |-> (IF start THEN <<>> ELSE docWalk.seen) \o page.items,
                       cursor |-> page.cursor,
                       ended  |-> page.cursor = NoCursor,
                       stable |-> IF ~start THEN docWalk.stable
                                  ELSE {d \in DOMAIN docs :
                                          doc_visible(docs[d], c.ws, c.prefix, filter)}]
        /\ UNCHANGED <<docs, acls, docRoles, docTick, docCount>>

\* get of update_pg, and of delete_document.
doc_check_etag(u) ==
    LET c == docReq[u].call
        st == check_etag_pg(docs, c.ws, c.doc, c.match)
    IN  /\ docReq[u].at = "op" /\ c.op \in {"update", "delete"}
        /\ docReq' = IF st # "ok" THEN Finish(u, st)
                     ELSE [Goto(u, "write") EXCEPT ![u].got = docs[c.doc].archived]
        /\ UNCHANGED <<docs, acls, docRoles, docWalk, docTick, docCount>>

update_document(u) ==
    LET c == docReq[u].call
    IN  /\ docReq[u].at = "write" /\ c.op = "update"
        /\ Write(u, update_pg(docs, c.ws, c.doc, c.path, c.archived, docReq[u].got,
                              docTick + 1),
                 [Goto(u, "audit") EXCEPT ![u].doc = c.doc])

delete_document(u) ==
    LET c == docReq[u].call
    IN  /\ docReq[u].at = "write" /\ c.op = "delete"
        /\ Write(u, delete_pg(docs, acls, c.ws, c.doc, c.hard, docTick + 1),
                 [Goto(u, "audit") EXCEPT ![u].doc = c.doc])

update_document_tags(u) ==
    LET c == docReq[u].call
    IN  /\ docReq[u].at = "op" /\ c.op = "tags"
        /\ Write(u, update_tags_pg(docs, c.ws, c.doc, c.change, c.tags, docTick + 1),
                 Finish(u, "ok"))

WriteAcl(u, r) ==
    /\ acls' = r.t
    /\ docReq' = Finish(u, r.st)
    /\ docTick' = docTick + 1
    /\ UNCHANGED <<docs, docRoles, docWalk, docCount>>

create_acl_override_find(u) ==
    LET c == docReq[u].call
    IN  /\ docReq[u].at = "op" /\ c.op = "acl_create"
        /\ docReq' = IF DocLive(docs, c.ws, c.doc) THEN Goto(u, "write")
                     ELSE Finish(u, "not_found")
        /\ UNCHANGED <<docs, acls, docRoles, docWalk, docTick, docCount>>

create_acl_override(u) ==
    LET c == docReq[u].call
    IN  /\ docReq[u].at = "write" /\ c.op = "acl_create"
        /\ \E i \in AclIds \ DOMAIN acls :
             WriteAcl(u, create_acl_override_pg(docs, acls, i, c.ws, c.doc, c, docTick + 1))

delete_acl_override(u) ==
    LET c == docReq[u].call
    IN  /\ docReq[u].at = "op" /\ c.op = "acl_delete"
        /\ WriteAcl(u, delete_acl_override_pg(acls, c.ws, c.doc, c.acl))

\* The audit row is written last, and only warned about when it fails.  No
\* route modelled here reads the rows: they are not kept.
try_record_document_audit_event(u) ==
    /\ docReq[u].at = "audit"
    /\ docReq' = Finish(u, "ok")
    /\ UNCHANGED <<docs, acls, docRoles, docWalk, docTick, docCount>>

\* The members API gives a user another role, or takes the user out.
DocRoleChange(u, role) ==
    /\ docCount.roles < DocMaxRoles
    /\ docRoles[u] # role
    /\ docRoles' = [docRoles EXCEPT ![u] = role]
    /\ docReq' = Observe(docReq, docs, docRoles')
    /\ docCount' = [docCount EXCEPT !.roles = @ + 1]
    /\ UNCHANGED <<docs, acls, docWalk, docTick>>

-----------------------------------------------------------------------------

DocsInit ==
    /\ docs = DocInit
    /\ acls = <<>>
    /\ docRoles = DocInitRoles
    /\ docReq = [u \in DocUsers |-> IdleReq]
    /\ docWalk = [seen |-> <<>>, cursor |-> NoCursor, ended |-> FALSE, stable |-> {}]
    /\ docTick = 1
    /\ docCount = [calls |-> 0, roles |-> 0]

DocsStep(u) ==
    \/ doc_require_workspace_role(u)
    \/ doc_require_document_role(u)
    \/ create_document(u)
    \/ create_document_tags(u)
    \/ get_document(u)
    \/ list_documents(u)
    \/ doc_check_etag(u)
    \/ update_document(u)
    \/ delete_document(u)
    \/ update_document_tags(u)
    \/ create_acl_override_find(u)
    \/ create_acl_override(u)
    \/ delete_acl_override(u)
    \/ try_record_document_audit_event(u)

DocsNext ==
    \/ \E u \in DocUsers, c \in DocCalls : DocBegin(u, c)
    \/ \E u \in DocUsers : DocsStep(u)
    \/ \E u \in DocUsers, role \in Roles \cup {"none"} : DocRoleChange(u, role)

DocsSpec == DocsInit /\ [][DocsNext]_docVars

-----------------------------------------------------------------------------
(* Properties *)

DocSuccess(u) == docReq[u].at = "done" /\ docReq[u].status = "ok"

\* An update or a delete is not carried out for an If-Match that was out of
\* date when the request came in: of two that name one etag, the second is
\* refused unless it was already under way (the etag is compared by a
\* statement before the one that writes).
DocStaleEtagRefused ==
    \A u \in DocUsers :
        DocSuccess(u) /\ docReq[u].call.op \in {"update", "delete"} => docReq[u].current

\* Nobody who was no member of the workspace during the whole request is
\* served, whatever overrides there are for the user.
DocOnlyMembersServed ==
    \A u \in DocUsers : DocSuccess(u) => docReq[u].member

\* A client that reads the list page by page gets every document that was
\* neither changed nor deleted meanwhile, and gets it once: updates of other
\* documents move those to the front and must not shift the rest.
DocWalkComplete ==
    docWalk.ended =>
        \A d \in docWalk.stable :
            Cardinality({i \in DOMAIN docWalk.seen : docWalk.seen[i] = d}) = 1

\* The tests run on the in-memory store, the relay on Postgres: what they do
\* to one table by one request at a time is the same.  They are known to
\* differ where a rename meets a path in use and where an archived document
\* is archived again, where a hard delete meets another workspace or a row
\* with tags or overrides, in the cursor of a list, and in a workspace that
\* has no members.
DocStoresAgree ==
    LET now == docTick + 1 IN
    (\A u \in DocUsers : docReq[u].at \in {"idle", "done"}) =>
    /\ \A ws \in {"w1", "w2"}, prefix \in {"none", "a"}, archived \in {"none", "true", "false"} :
         list_mem(docs, ws, prefix, archived, normalize_limit(1))
           = list_pg(docs, ws, prefix, archived, normalize_limit(1), NoCursor).items
    /\ \A u \in DocUsers :
         (\E v \in DocUsers : docRoles[v] # "none") =>
            workspace_role_for_user_mem(docRoles, u) = workspace_role_for_user_pg(docRoles, u)
    /\ \A ws \in {"w1", "w2"}, d \in DocIds :
        /\ get_mem(docs, ws, d) = get_pg(docs, ws, d)
        /\ \A path \in {"A", "a/b"} : d \notin DOMAIN docs =>
             create_mem(docs, d, ws, path, now) = create_pg(docs, d, ws, path, now)
        /\ \A m \in {0, docTick}, path \in {"none", "A", "a/b"},
              archived \in {"none", "true", "false"} :
             LET c == check_etag_pg(docs, ws, d, m)
                 pg == IF c # "ok" THEN Answer(c, docs)
                       ELSE update_pg(docs, ws, d, path, archived, docs[d].archived, now)
                 mem == update_mem(docs, ws, d, m, path, archived, now)
             IN  \/ pg = mem
                 \/ pg.st = "conflict" /\ mem.st = "ok"
                 \/ /\ archived = "true" /\ docs[d].archived # 0
                    /\ pg.t = [mem.t EXCEPT ![d].archived = docs[d].archived]
        /\ \A hard \in BOOLEAN :
             \/ delete_mem(docs, ws, d, hard, now) = delete_pg(docs, acls, ws, d, hard, now)
             \/ hard /\ d \in DOMAIN docs /\ (docs[d].ws # ws \/ DocReferenced(docs, acls, d))
        /\ \A op \in {"add", "remove"}, tags \in {{"t"}} :
             update_tags_mem(docs, ws, d, op, tags, now) = update_tags_pg(docs, ws, d, op, tags, now)
        /\ \A i \in AclIds :
             delete_acl_override_mem(acls, ws, d, i) = delete_acl_override_pg(acls, ws, d, i)
        /\ DocLive(docs, ws, d) => \A i \in AclIds \ DOMAIN acls :
             LET c == [kind |-> "user", user |-> CHOOSE u \in DocUsers : TRUE,
                       role |-> "viewer", expires |-> 0]
             IN  create_acl_override_mem(docs, acls, i, ws, d, c, now)
                   = create_acl_override_pg(docs, acls, i, ws, d, c, now)
        /\ \A u \in DocUsers :
             acl_override_role_for_user_mem(acls, u, ws, d, docTick)
               = acl_override_role_for_user_pg(acls, u, ws, d, docTick)

=============================================================================
