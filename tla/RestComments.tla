---------------------------- MODULE RestComments ----------------------------
(***************************************************************************)
(* Comment threads behind the HTTP API of the relay                        *)
(* (crates/relay/src/api/comments.rs), by concurrent requests on Postgres, *)
(* and the same operations of the in-memory store.                         *)
(*                                                                         *)
(* A request is at "role", "find" (ensure_document_exists_pg), "op",       *)
(* "look" (the statement that explains why "op" matched no row), "thread"  *)
(* and "messages" (the view of a thread), or "audit".                      *)
(***************************************************************************)
EXTENDS RestCommon

CONSTANTS
    ComUsers,
    ComDocs,
    ComThreads,
    ComCalls,
    ComInitRoles,
    ComMaxCalls,    \* bound on the requests made
    ComMaxDeletes   \* bound on the documents deleted

VARIABLES
    comDocs,     \* documents that are not deleted
    threads,     \* table comment_threads: id -> row
    messages,    \* table comment_messages: a sequence per thread, oldest first
    comRoles,    \* active workspace_members
    comReq,      \* the request of each user
    comMoves,    \* thread and if_version of each status change answered with success
    comCount     \* requests made, messages written: ids and the bound

comVars == <<comDocs, threads, messages, comRoles, comReq, comMoves, comCount>>

-----------------------------------------------------------------------------
(* CommentStatus *)

required_current_status(next) == IF next = "resolved" THEN "open" ELSE "resolved"

\* The anchor and the body of a call are one of these; the others are
\* refused by validate_anchor, validate_markdown_body and parse_status_filter.
validate_anchor(a) ==
    /\ a.start = <<>> <=> a.end = <<>>
    /\ a.start # <<>> => a.start[1] >= 0 /\ a.end[1] >= 0 /\ a.end[1] >= a.start[1]

com_validate(c) ==
    CASE c.op = "create"  -> validate_anchor(c.anchor) /\ c.body # "blank"
      [] c.op = "message" -> c.body # "blank"
      [] c.op = "list"    -> c.filter \in {"none", "open", "resolved"}
      [] OTHER            -> c.version >= 1

-----------------------------------------------------------------------------
(* Statements of the Postgres store *)

Result(st, t, m) == [st |-> st, t |-> t, m |-> m]

ensure_document_exists_pg(d) == d \in comDocs

create_thread_pg(t, m, i, ws, d, n) ==
    Result("ok", Insert(t, i, [ws |-> ws, doc |-> d, status |-> "open", version |-> 1]), Insert(m, i, <<n>>))

\* Newest first.
ThreadsInOrder(S) == Ordered(S, {p \in S \X S : p[1] > p[2]})

list_threads_pg(t, ws, d, filter, limit, cursor) ==
    LET found == {i \in DOMAIN t : /\ t[i].ws = ws /\ t[i].doc = d
                                   /\ filter \in {"none", t[i].status}
                                   /\ cursor # NoCursor => i < cursor[1]}
    IN  paginate(ThreadsInOrder(found), limit)

InThread(t, ws, i) == i \in DOMAIN t /\ t[i].ws = ws

get_thread_with_messages_pg(t, ws, i) == IF InThread(t, ws, i) THEN "ok" ELSE "not_found"

\* INSERT ... SELECT: no row when the thread is missing or not open.
create_message_pg(t, m, ws, i, n) ==
    IF InThread(t, ws, i) /\ t[i].status = "open"
    THEN Result("ok", t, [m EXCEPT ![i] = Append(@, n)])
    ELSE Result("no_row", t, m)

\* Why there was none, by the thread as it is now.
create_message_status_pg(t, ws, i) ==
    IF ~InThread(t, ws, i) THEN "not_found"
    ELSE IF t[i].status = "resolved" THEN "bad_request"
    ELSE "internal"

set_thread_status_pg(t, m, ws, i, version, next) ==
    IF /\ InThread(t, ws, i)
       /\ t[i].version = version
       /\ t[i].status = required_current_status(next)
    THEN Result("ok", [t EXCEPT ![i].status = next, ![i].version = @ + 1], m)
    ELSE Result("no_row", t, m)

set_thread_status_metadata_pg(t, ws, i, version, next) ==
    IF ~InThread(t, ws, i) THEN "not_found"
    ELSE IF t[i].version # version THEN "precondition_failed"
    ELSE IF t[i].status # required_current_status(next) THEN "bad_request"
    ELSE "internal"

-----------------------------------------------------------------------------
(* The in-memory store *)

create_thread_mem(t, m, i, ws, d, n) ==
    Result("ok", Insert(t, i, [ws |-> ws, doc |-> d, status |-> "open", version |-> 1]), Insert(m, i, <<n>>))

list_threads_mem(t, ws, d, filter, limit) ==
    LET found == {i \in DOMAIN t : t[i].ws = ws /\ t[i].doc = d /\ filter \in {"none", t[i].status}}
    IN  paginate(ThreadsInOrder(found), limit)

create_message_mem(t, m, ws, i, n) ==
    IF i \notin DOMAIN t THEN Result("not_found", t, m)
    ELSE IF t[i].ws # ws THEN Result("not_found", t, m)
    ELSE IF t[i].status # "open" THEN Result("bad_request", t, m)
    ELSE Result("ok", t, [m EXCEPT ![i] = Append(@, n)])

get_thread_with_messages_mem(t, ws, i) ==
    IF i \notin DOMAIN t THEN "not_found" ELSE IF t[i].ws # ws THEN "not_found" ELSE "ok"

set_thread_status_mem(t, m, ws, i, version, next) ==
    IF i \notin DOMAIN t THEN Result("not_found", t, m)
    ELSE IF t[i].ws # ws THEN Result("not_found", t, m)
    ELSE IF t[i].version # version THEN Result("precondition_failed", t, m)
    ELSE IF t[i].status # required_current_status(next) THEN Result("bad_request", t, m)
    ELSE Result("ok", [t EXCEPT ![i].status = next, ![i].version = @ + 1], m)

-----------------------------------------------------------------------------
(* Requests *)

ComIdle == [at |-> "idle", call |-> [op |-> "none"], thread |-> 0, msg |-> 0,
            view |-> <<>>, status |-> "none"]

ComFinish(u, st) == [comReq EXCEPT ![u].at = "done", ![u].status = st]
ComGoto(u, at) == [comReq EXCEPT ![u].at = at]

ComBegin(u, c) ==
    /\ comReq[u].at \in {"idle", "done"}
    /\ comCount.calls < ComMaxCalls
    /\ comReq' = [comReq EXCEPT ![u] = [ComIdle EXCEPT !.at = "role", !.call = c]]
    /\ comCount' = [comCount EXCEPT !.calls = @ + 1]
    /\ UNCHANGED <<comDocs, threads, messages, comRoles, comMoves>>

\* require_workspace_role: every route but the list is an editor's.  What
\* the payload is checked for comes next.
com_require_workspace_role(u) ==
    LET c == comReq[u].call
        required == IF c.op = "list" THEN "viewer" ELSE "editor"
    IN  /\ comReq[u].at = "role"
        /\ comReq' =
             IF \/ c.ws # "w1" \/ comRoles[u] = "none"
                \/ ~allows(comRoles[u], required)
             THEN ComFinish(u, "forbidden")
             ELSE IF ~com_validate(c) THEN ComFinish(u, "bad_request")
             ELSE ComGoto(u, IF c.op \in {"create", "list"} THEN "find" ELSE "op")
        /\ UNCHANGED <<comDocs, threads, messages, comRoles, comMoves, comCount>>

com_find_document(u) ==
    /\ comReq[u].at = "find"
    /\ comReq' = IF ensure_document_exists_pg(comReq[u].call.doc) THEN ComGoto(u, "op")
                 ELSE ComFinish(u, "not_found")
    /\ UNCHANGED <<comDocs, threads, messages, comRoles, comMoves, comCount>>

create_comment_thread(u) ==
    LET c == comReq[u].call
        n == comCount.msgs + 1
    IN  /\ comReq[u].at = "op" /\ c.op = "create"
        /\ \E i \in ComThreads \ DOMAIN threads :
             LET r == create_thread_pg(threads, messages, i, c.ws, c.doc, n)
             IN  /\ threads' = r.t /\ messages' = r.m
                 /\ comReq' = [ComGoto(u, "audit") EXCEPT ![u].thread = i]
        /\ comCount' = [comCount EXCEPT !.msgs = n]
        /\ UNCHANGED <<comDocs, comRoles, comMoves>>

\* The threads, and then the messages of each.
list_comments(u) ==
    LET c == comReq[u].call
    IN  /\ comReq[u].at = "op" /\ c.op = "list"
        /\ comReq' = [comReq EXCEPT ![u].view =
                        list_threads_pg(threads, c.ws, c.doc, c.filter,
                                        normalize_limit(c.limit), NoCursor).items,
                      ![u].at = "messages"]
        /\ UNCHANGED <<comDocs, threads, messages, comRoles, comMoves, comCount>>

create_comment_message(u) ==
    LET c == comReq[u].call
        n == comCount.msgs + 1
        r == create_message_pg(threads, messages, c.ws, c.thread, n)
    IN  /\ comReq[u].at = "op" /\ c.op = "message"
        /\ messages' = r.m
        /\ comReq' = IF r.st = "no_row" THEN ComGoto(u, "look")
                     ELSE [ComGoto(u, "thread") EXCEPT ![u].msg = n]
        /\ comCount' = IF r.st = "ok" THEN [comCount EXCEPT !.msgs = n] ELSE comCount
        /\ UNCHANGED <<comDocs, threads, comRoles, comMoves>>

com_explain(u) ==
    LET c == comReq[u].call
        st == IF c.op = "message" THEN create_message_status_pg(threads, c.ws, c.thread)
              ELSE set_thread_status_metadata_pg(threads, c.ws, c.thread, c.version, c.op)
    IN  /\ comReq[u].at = "look"
        /\ comReq' = ComFinish(u, st)
        /\ UNCHANGED <<comDocs, threads, messages, comRoles, comMoves, comCount>>

com_view_thread(u) ==
    LET st == get_thread_with_messages_pg(threads, comReq[u].call.ws, comReq[u].call.thread)
    IN  /\ comReq[u].at = "thread"
        /\ comReq' = IF st = "ok" THEN ComGoto(u, "messages") ELSE ComFinish(u, st)
        /\ UNCHANGED <<comDocs, threads, messages, comRoles, comMoves, comCount>>

\* The message just written has to be among them.
com_view_messages(u) ==
    LET c == comReq[u].call
    IN  /\ comReq[u].at = "messages"
        /\ comReq' = IF c.op = "message" /\ comReq[u].msg \notin ToSet(messages[c.thread])
                     THEN ComFinish(u, "internal") ELSE ComFinish(u, "ok")
        /\ UNCHANGED <<comDocs, threads, messages, comRoles, comMoves, comCount>>

\* resolve_comment_thread and reopen_comment_thread; the operation is named
\* for the status the thread gets.
set_thread_status(u) ==
    LET c == comReq[u].call
        r == set_thread_status_pg(threads, messages, c.ws, c.thread, c.version, c.op)
    IN  /\ comReq[u].at = "op" /\ c.op \in {"resolved", "open"}
        /\ threads' = r.t
        /\ comReq' = IF r.st = "no_row" THEN ComGoto(u, "look")
                     ELSE [ComGoto(u, "audit") EXCEPT ![u].thread = c.thread]
        /\ comMoves' = IF r.st = "ok" THEN Append(comMoves, <<c.thread, c.version>>) ELSE comMoves
        /\ UNCHANGED <<comDocs, messages, comRoles, comCount>>

\* The audit row is written last, and only warned about when it fails.  No
\* route modelled here reads the rows: they are not kept.
try_record_comment_audit_event(u) ==
    /\ comReq[u].at = "audit"
    /\ comReq' = ComFinish(u, "ok")
    /\ UNCHANGED <<comDocs, threads, messages, comRoles, comMoves, comCount>>

\* The documents API deletes a document; its threads stay.
ComDeleteDocument(d) ==
    /\ Cardinality(ComDocs \ comDocs) < ComMaxDeletes
    /\ comDocs' = comDocs \ {d}
    /\ UNCHANGED <<threads, messages, comRoles, comReq, comMoves, comCount>>

-----------------------------------------------------------------------------

ComInit ==
    /\ comDocs = ComDocs
    /\ threads = <<>> /\ messages = <<>>
    /\ comRoles = ComInitRoles
    /\ comReq = [u \in ComUsers |-> ComIdle]
    /\ comMoves = <<>>
    /\ comCount = [calls |-> 0, msgs |-> 0]

ComStep(u) ==
    \/ com_require_workspace_role(u)
    \/ com_find_document(u)
    \/ create_comment_thread(u)
    \/ list_comments(u)
    \/ create_comment_message(u)
    \/ com_explain(u)
    \/ com_view_thread(u)
    \/ com_view_messages(u)
    \/ set_thread_status(u)
    \/ try_record_comment_audit_event(u)

ComNext ==
    \/ \E u \in ComUsers, c \in ComCalls : ComBegin(u, c)
    \/ \E u \in ComUsers : ComStep(u)
    \/ \E d \in comDocs : ComDeleteDocument(d)

ComSpec == ComInit /\ [][ComNext]_comVars

-----------------------------------------------------------------------------
(* Properties *)

\* Two requests that name one version of a thread do not both resolve or
\* reopen it: version and status are compared by the statement that writes,
\* so the version counts the changes and its parity gives the status.
ComVersionOnce ==
    /\ \A j, k \in DOMAIN comMoves : comMoves[j] = comMoves[k] => j = k
    /\ \A i \in DOMAIN threads :
         /\ threads[i].version
              = 1 + Cardinality({k \in DOMAIN comMoves : comMoves[k][1] = i})
         /\ threads[i].status = IF threads[i].version % 2 = 1 THEN "open" ELSE "resolved"

\* A message that was written is in the thread the same request answers with,
\* whatever others do between its statements: "created comment message
\* missing from thread view" is never answered, nor is the thread missing.
ComOwnMessageSeen ==
    \A u \in ComUsers :
        comReq[u].at = "done" /\ comReq[u].msg # 0 => comReq[u].status = "ok"


\* One request at a time, the in-memory store answers and changes its threads
\* as Postgres does; only the cursor of a list is not looked at.
ComStoresAgree ==
    (\A u \in ComUsers : comReq[u].at \in {"idle", "done"}) =>
    \A ws \in {"w1", "w2"}, i \in ComThreads :
        LET n == comCount.msgs + 1
            msg == create_message_pg(threads, messages, ws, i, n)
        IN
        /\ get_thread_with_messages_mem(threads, ws, i) = get_thread_with_messages_pg(threads, ws, i)
        /\ create_message_mem(threads, messages, ws, i, n) =
             IF msg.st = "ok" THEN msg
             ELSE Result(create_message_status_pg(threads, ws, i), msg.t, msg.m)
        /\ \A version \in 1 .. ComMaxCalls, next \in {"open", "resolved"} :
             LET set == set_thread_status_pg(threads, messages, ws, i, version, next)
             IN  set_thread_status_mem(threads, messages, ws, i, version, next) =
                   IF set.st = "ok" THEN set
                   ELSE Result(set_thread_status_metadata_pg(threads, ws, i, version, next),
                               set.t, set.m)
        /\ \A d \in ComDocs :
             /\ i \notin DOMAIN threads =>
                  create_thread_mem(threads, messages, i, ws, d, n)
                    = create_thread_pg(threads, messages, i, ws, d, n)
             /\ \A filter \in {"none", "open", "resolved"}, limit \in 0 .. 2 :
                  list_threads_mem(threads, ws, d, filter, normalize_limit(limit))
                    = list_threads_pg(threads, ws, d, filter, normalize_limit(limit), NoCursor)

=============================================================================
