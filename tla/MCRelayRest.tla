---------------------------- MODULE MCRelayRest ----------------------------
(***************************************************************************)
(* The relay's HTTP API, part by part: documents, comments, the            *)
(* Idempotency-Key and search; workspaces with members and invites, share  *)
(* links, and signing in.  The parts meet only in the members' roles,      *)
(* which documents and search let change under them, so a behaviour is one *)
(* of `part` and the others stay as they were.                             *)
(***************************************************************************)
EXTENDS RestDocuments, RestComments, RestIdempotency, RestSearch,
        RestWorkspaces, RestShareLinks, RelayAuth

VARIABLE part

contentVars == <<docVars, comVars, idemVars, searchVars>>
accessVars == <<wsVars, shVars, authVars>>

MCDocCalls ==
    {[op |-> "create", ws |-> "w1", path |-> "A", tags |-> {"t"}],
     [op |-> "list", ws |-> "w1", limit |-> 1, include |-> "none", archived |-> "none", prefix |-> "none"],
     [op |-> "update", ws |-> "w1", doc |-> 1, match |-> 0, path |-> "a", archived |-> "true"],
     [op |-> "update", ws |-> "w1", doc |-> 2, match |-> AnyIfMatch, path |-> "none", archived |-> "none"],
     [op |-> "delete", ws |-> "w1", doc |-> 1, match |-> 0, hard |-> TRUE],
     [op |-> "delete", ws |-> "w1", doc |-> 1, match |-> 0, hard |-> FALSE],
     [op |-> "tags", ws |-> "w1", doc |-> 1, change |-> "add", tags |-> {"t"}],
     [op |-> "acl_create", ws |-> "w1", doc |-> 1, kind |-> "user", user |-> "u2", role |-> "editor", expires |-> 0],
     [op |-> "acl_delete", ws |-> "w1", doc |-> 1, acl |-> 1],
     [op |-> "get", ws |-> "w1", doc |-> 1], [op |-> "get", ws |-> "w2", doc |-> 3]}

MCDocInit ==
    [d \in 1..3 |-> [ws |-> <<"w1", "w1", "w2">>[d], norm |-> <<"a/b", "b", "a">>[d],
                     etag |-> 0, updated |-> 0, archived |-> 0, deleted |-> 0, tags |-> {}]]

MCDocInitRoles == [u1 |-> "owner", u2 |-> "viewer"]

MCComCalls ==
    LET none == [start |-> <<>>, end |-> <<>>]
    IN {[op |-> "create", ws |-> "w1", doc |-> 1, anchor |-> a, body |-> "x"] : a \in {none, [start |-> <<2>>, end |-> <<1>>]}}
       \union {[op |-> "list", ws |-> "w1", doc |-> 1, filter |-> "open", limit |-> 1]}
       \union {[op |-> "message", ws |-> "w1", thread |-> 1, body |-> t] : t \in {"x", "blank"}}
       \union {[op |-> o, ws |-> "w1", thread |-> 1, version |-> v] : o \in {"open", "resolved"}, v \in 1..2}

MCComInitRoles == [u1 |-> "editor", u2 |-> "owner"]

MCWsCalls ==
    LET call(op) == [op |-> op, ws |-> 1, user |-> 1, match |-> AnyIfMatch, role |-> Keep, status |-> Keep,
                     slug |-> Keep, name |-> Keep, hours |-> 1, invite |-> 1]
    IN {call(op) : op \in {"get", "remove", "accept"}}
       \union {[call("create") EXCEPT !.slug = s] : s \in {"S", "t", "blank"}}
       \union {[call("update") EXCEPT !.slug = "t", !.match = 0], [call("update") EXCEPT !.name = "n"],
               [call("member") EXCEPT !.user = 2, !.role = "editor"],
               [call("member") EXCEPT !.user = 3, !.role = "owner"],
               [call("member") EXCEPT !.status = "suspended"],
               [call("member") EXCEPT !.user = 2, !.status = "suspended", !.match = 0],
               [call("remove") EXCEPT !.user = 3],
               [call("invite") EXCEPT !.role = "editor"]}

MCWsInitMembers ==
    [k \in {<<1, u>> : u \in 1..3} |-> NewMember(IF k[2] = 3 THEN "editor" ELSE "owner", 0)]

MCShCalls ==
    LET call(op) == [op |-> op, ws |-> 1, link |-> 1, match |-> "seen", perm |-> "keep", expires |-> Unset,
                     max |-> Unset, disabled |-> "keep", password |-> FALSE]
    IN {call("list"), call("revoke"), call("redeem"), [call("redeem") EXCEPT !.link = 2],
        [call("create") EXCEPT !.perm = "edit", !.max = 1, !.expires = 2],
        [call("update") EXCEPT !.perm = "edit"], [call("update") EXCEPT !.max = 2, !.match = "any"]}

MCAuthCalls ==
    LET call(op) == [op |-> op, token |-> 1, flow |-> 1, redirect |-> "https", state |-> "s", method |-> "S256",
                     challenge |-> "c", email |-> "a", pw |-> "p", newPw |-> "q"]
    IN {call(op) : op \in {"start", "callback", "register", "login", "change", "refresh", "logout"}}
       \union {[call("refresh") EXCEPT !.token = 2], [call("start") EXCEPT !.challenge = "short"],
               [call("register") EXCEPT !.email = "no_at"]}

-----------------------------------------------------------------------------

RestInit ==
    /\ part \in {"documents", "comments", "idempotency", "search", "workspaces", "links", "auth"}
    /\ DocsInit /\ ComInit /\ IdemInit /\ SearchInit /\ WsInit /\ ShInit /\ AuthInit
    /\ part # "idempotency" => idemStore = "db"
    /\ part # "search" => walk.limit = 1 /\ \A d \in FoundDocs : found[d].score = 0

RestNext ==
    \/ part = "documents"   /\ DocsNext   /\ UNCHANGED <<part, comVars, idemVars, searchVars, accessVars>>
    \/ part = "comments"    /\ ComNext    /\ UNCHANGED <<part, docVars, idemVars, searchVars, accessVars>>
    \/ part = "idempotency" /\ IdemNext   /\ UNCHANGED <<part, docVars, comVars, searchVars, accessVars>>
    \/ part = "search"      /\ SearchNext /\ UNCHANGED <<part, docVars, comVars, idemVars, accessVars>>
    \/ part = "workspaces"  /\ WsNext     /\ UNCHANGED <<part, contentVars, shVars, authVars>>
    \/ part = "links"       /\ ShNext     /\ UNCHANGED <<part, contentVars, wsVars, authVars>>
    \/ part = "auth"        /\ AuthNext   /\ UNCHANGED <<part, contentVars, wsVars, shVars>>

RestSpec == RestInit /\ [][RestNext]_<<part, contentVars, accessVars>>

-----------------------------------------------------------------------------

\* A request that succeeds is justified by the rows it met: the etag of a
\* document it named was current, one version of a comment thread is resolved
\* or reopened once, the caller was a member, and a message just written is in
\* the answer (update_pg, delete_pg, set_thread_status_pg,
\* require_document_role, create_message_pg).
RequestsGuarded ==
    /\ part = "documents" => DocStaleEtagRefused /\ DocOnlyMembersServed
    /\ part = "comments" => ComVersionOnce /\ ComOwnMessageSeen

\* Reading a list page by page gives what was there all along: of documents
\* exactly once, though others move to the front meanwhile (list_pg pages by
\* a cursor), of search results up to as many as were written meanwhile
\* (search_pg pages by an offset).
WalksComplete ==
    /\ part = "documents" => DocWalkComplete
    /\ part = "search" => SearchWalkComplete

\* A retry with the same Idempotency-Key is told what the first answer was,
\* even if two requests with the key ran side by side, and never the answer to
\* another body (idempotency_db_middleware, insert_db_entry).
RetriesTold ==
    part = "idempotency" => IdemReplaysAgree /\ IdemReplayFits

\* Workspace 1 keeps an owner while requests come one at a time and no owner
\* takes an invite (update_member_pg, delete_member_pg), and no update of a
\* workspace is carried out on a state another one has replaced
\* (update_workspace_pg).
WorkspaceKept == part = "workspaces" => WsOwnerRemains /\ WsNoLostUpdate

\* What is counted or good for one use stays within that use: an invite is not
\* taken again, use_count of a share link is the number of redemptions and a
\* dead link is not redeemed, a sign-in flow gives one session, and the
\* limiters hold over any stretch of time (accept_invite_pg,
\* redeem_share_link, callback_github_oauth, SlidingWindowRateLimiter).
UsesBounded ==
    /\ part = "workspaces" => WsInviteNotReused
    /\ part = "links" => ShUsesCounted /\ ShRedeemUsable /\ ShAttemptsBounded
    /\ part = "auth" => AuthFlowOnce /\ AuthWindowBound

\* A refresh token that was rotated, logged out or revoked with its family
\* gets nothing, and a family whose reuse was detected while no refresh of it
\* was under way has no good token again (handle_token_refresh).
TokensDie == part = "auth" => AuthFamilyEnds /\ AuthDeadTokenRefused

\* The in-memory stores that the tests run on change their tables and answer
\* as Postgres does, request by request, but for the listed differences.
StoresAgree ==
    /\ part = "documents" => DocStoresAgree
    /\ part = "comments" => ComStoresAgree
    /\ part = "search" => SearchStoresAgree
    /\ part = "workspaces" => WsStoresAgree
    /\ part = "links" => ShStoresAgree
=============================================================================
