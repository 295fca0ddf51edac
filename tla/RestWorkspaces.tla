--------------------------- MODULE RestWorkspaces ---------------------------
(***************************************************************************)
(* Workspaces, their members and the invites to them, behind the HTTP API  *)
(* of the relay (crates/relay/src/api/mod.rs, workspaces.rs, members.rs):  *)
(* concurrent requests on Postgres, and the same operations of the         *)
(* in-memory store.                                                        *)
(*                                                                         *)
(* A request is at "role" (the middleware of the route), "op" (its first   *)
(* statement), "exists" (why there was no row), "write" or "audit".  Users *)
(* hold tokens for workspace 1.  One counter is the clock: created_at,     *)
(* joined_at and updated_at, of which the etags are made.                  *)
(***************************************************************************)
EXTENDS RestCommon

CONSTANTS
    WsUsers,
    WsIds,
    InviteIds,
    WsCalls,
    WsInitMembers,
    WsMaxCalls    \* bound on the requests made

\* Workspace 1 is there from the start, and somebody owns it.
ASSUME WsAssumption ==
    /\ 1 \in WsIds /\ WsIds \subseteq Int /\ WsUsers \subseteq Int
    /\ IsFiniteSet(DOMAIN WsInitMembers) /\ DOMAIN WsInitMembers \subseteq WsIds \X WsUsers
    /\ \A k \in DOMAIN WsInitMembers :
          WsInitMembers[k] \in [role : Roles, status : {"active", "invited", "suspended"}, joined : Nat]
    /\ \E u \in WsUsers : /\ <<1, u>> \in DOMAIN WsInitMembers
                          /\ WsInitMembers[<<1, u>>].role = "owner" /\ WsInitMembers[<<1, u>>].status = "active"

VARIABLES
    wss,        \* table workspaces: id -> row
    members,    \* table workspace_members: <<workspace, user>> -> row
    invites,    \* table workspace_invites: id, which stands for the token -> row
    wsReq,      \* the request of each user
    wsUpdates,  \* workspace and etag of every update carried out that had a field
    wsPast,     \* [raced, joined]: two requests overlapped; an owner took an invite
    wsTick,     \* the clock
    wsCount     \* requests made

wsVars == <<wss, members, invites, wsReq, wsUpdates, wsPast, wsTick, wsCount>>

-----------------------------------------------------------------------------
(* Values *)

Same(slug, other) == LET fold(s) == IF s = "S" THEN "s" ELSE s IN fold(slug) = fold(other)

\* A field of a patch that is not given.
Keep == "keep"
Coalesce(new, old) == IF new = Keep THEN old ELSE new

validate_member_update(c) ==
    /\ c.role \in Roles \cup {Keep}
    /\ c.status \in {"active", "invited", "suspended", Keep}

validate_invite_request(c) == c.role \in {"editor", "viewer"} /\ c.hours > 0

ws_validate(u, c) ==
    CASE c.op = "create" -> IF c.slug = "blank" THEN "bad_request" ELSE "ok"
      [] c.op = "update" -> IF c.slug = "blank" THEN "bad_request"
                            ELSE IF c.match = NoIfMatch THEN "precondition_required" ELSE "ok"
      [] c.op = "member" -> IF ~validate_member_update(c) \/ c.user = u THEN "bad_request"
                            ELSE IF c.match = NoIfMatch THEN "precondition_required" ELSE "ok"
      [] c.op = "remove" -> IF c.user = u THEN "bad_request"
                            ELSE IF c.match = NoIfMatch THEN "precondition_required" ELSE "ok"
      [] c.op = "invite" -> IF validate_invite_request(c) THEN "ok" ELSE "bad_request"
      [] OTHER -> "ok"

-----------------------------------------------------------------------------
(* Statements of the Postgres store *)

Tables(st, w, m, i) == [st |-> st, w |-> w, m |-> m, i |-> i]
Refuse(st) == Tables(st, wss, members, invites)

\* slug is UNIQUE, and compared without regard to case.
SlugTaken(w, id, slug) == \E v \in DOMAIN w : v # id /\ Same(w[v].slug, slug)

NewMember(role, now) == [role |-> role, status |-> "active", joined |-> now]

NewInvite(w, role, expires) == [ws |-> w, role |-> role, expires |-> expires, accepted |-> 0]

create_workspace_pg(u, w, slug, now) ==
    IF SlugTaken(wss, w, slug) THEN Refuse("conflict")
    ELSE Tables("ok", Insert(wss, w, [slug |-> slug, created |-> now, updated |-> now]),
                Insert(members, <<w, u>>, NewMember("owner", now)), invites)

IsActive(w, u) ==
    w \in DOMAIN wss /\ <<w, u>> \in DOMAIN members /\ members[<<w, u>>].status = "active"

\* Newest first.
WorkspaceBefore(v, w) ==
    \/ wss[v].created > wss[w].created
    \/ wss[v].created = wss[w].created /\ v > w

WorkspacesInOrder(S) == Ordered(S, {p \in S \X S : WorkspaceBefore(p[1], p[2])})

list_workspaces_pg(u, limit, cursor) ==
    LET found == {w \in DOMAIN wss :
                    IsActive(w, u) /\ (cursor # NoCursor => WorkspaceBefore(cursor[1], w))}
    IN  paginate(WorkspacesInOrder(found), limit)

ws_role_for_user_pg(w, u) == IF IsActive(w, u) THEN members[<<w, u>>].role ELSE "none"

workspace_row_for_user(w, u) == IsActive(w, u)

resolve_missing_workspace_access(w) == IF w \in DOMAIN wss THEN "forbidden" ELSE "not_found"

get_workspace_pg(w, u) ==
    IF workspace_row_for_user(w, u) THEN "ok" ELSE resolve_missing_workspace_access(w)

\* What update_workspace_pg decides from the row it reads.
update_workspace_read(w, u, ifMatch) ==
    IF members[<<w, u>>].role # "owner" THEN "forbidden"
    ELSE IF ~etag_matches(ifMatch, wss[w].updated) THEN "precondition_failed"
    ELSE "ok"
\* Mutant: the write does not name what was read.
UpdateWorkspaceBlind(w, slug, name, read, now) ==
    IF slug # Keep /\ SlugTaken(wss, w, slug) THEN Refuse("conflict")
    ELSE Tables("ok", [wss EXCEPT ![w].slug = Coalesce(slug, @),
                                  ![w].updated = IF slug = Keep /\ name = Keep THEN @ ELSE now],
                members, invites)

\* The write names the updated_at that was read.
update_workspace_pg(w, slug, name, read, now) ==
    IF wss[w].updated # read THEN Refuse("precondition_failed")
    ELSE IF slug # Keep /\ SlugTaken(wss, w, slug) THEN Refuse("conflict")
    ELSE Tables("ok", [wss EXCEPT ![w].slug = Coalesce(slug, @),
                                  ![w].updated = IF slug = Keep /\ name = Keep THEN @ ELSE now],
                members, invites)

\* Oldest first.
MemberBefore(a, b) ==
    \/ members[a].joined < members[b].joined
    \/ members[a].joined = members[b].joined /\ a[2] < b[2]

MembersInOrder(S) == Ordered(S, {p \in S \X S : MemberBefore(p[1], p[2])})

list_members_pg(w, limit, cursor) ==
    LET found == {k \in DOMAIN members :
                    k[1] = w /\ (cursor # NoCursor => MemberBefore(cursor[1], k))}
    IN  paginate(MembersInOrder(found), limit)

\* What update_member_pg and delete_member_pg decide from the row they read;
\* the etag is made of joined_at and does not change with the row.
member_read(w, m, ifMatch, op, role) ==
    IF <<w, m>> \notin DOMAIN members THEN "not_found"
    ELSE IF ~etag_matches(ifMatch, members[<<w, m>>].joined) THEN "precondition_failed"
    ELSE IF members[<<w, m>>].role = "owner" /\ (op = "remove" \/ role \notin {"owner", Keep})
    THEN "bad_request"
    ELSE "ok"

update_member_pg(w, m, role, status) ==
    IF <<w, m>> \notin DOMAIN members THEN Refuse("internal")
    ELSE Tables("ok", wss, [members EXCEPT ![<<w, m>>].role = Coalesce(role, @),
                                           ![<<w, m>>].status = Coalesce(status, @)], invites)

delete_member_pg(w, m) ==
    Tables("ok", wss, [k \in DOMAIN members \ {<<w, m>>} |-> members[k]], invites)

create_invite_pg(w, i, role, expires) ==
    Tables("ok", wss, members,
           Insert(invites, i, NewInvite(w, role, expires)))

invite_read(i, now) ==
    IF i \notin DOMAIN invites THEN "not_found"
    ELSE IF invites[i].accepted # 0 THEN "bad_request"
    ELSE IF invites[i].expires < now THEN "bad_request"
    ELSE "ok"

\* A member that is there keeps joined_at and gets the role of the invite.
accept_invite_pg(u, i, now) ==
    LET k == <<invites[i].ws, u>>
    IN  Tables("ok", wss,
               Insert(members, k, [NewMember(invites[i].role, now) EXCEPT
                                     !.joined = IF k \in DOMAIN members THEN members[k].joined ELSE @]),
               [invites EXCEPT ![i].accepted = now])

-----------------------------------------------------------------------------
(* The in-memory store *)

create_workspace_memory(u, w, slug, now) ==
    IF \E v \in DOMAIN wss : Same(wss[v].slug, slug) THEN Refuse("conflict")
    ELSE Tables("ok", Insert(wss, w, [slug |-> slug, created |-> now, updated |-> now]),
                Insert(members, <<w, u>>, NewMember("owner", now)), invites)

list_workspaces_memory(u, limit, cursor) ==
    LET found == {w \in DOMAIN wss : <<w, u>> \in DOMAIN members
                                     /\ members[<<w, u>>].status = "active"}
        after == {w \in DOMAIN wss : WorkspaceBefore(cursor[1], w)}
        all   == WorkspacesInOrder(found)
    IN  paginate(IF cursor = NoCursor THEN all ELSE Retain(all, after), limit)

get_workspace_memory(w, u) ==
    IF w \notin DOMAIN wss THEN "not_found"
    ELSE IF <<w, u>> \notin DOMAIN members THEN "forbidden"
    ELSE IF members[<<w, u>>].status # "active" THEN "forbidden"
    ELSE "ok"

ws_role_for_user_memory(w, u) ==
    IF w \notin DOMAIN wss \/ <<w, u>> \notin DOMAIN members THEN "none"
    ELSE IF members[<<w, u>>].status # "active" THEN "none"
    ELSE members[<<w, u>>].role

\* The slug is looked at before the etag, and updated_at only moves when a
\* value did.
update_workspace_memory(w, u, ifMatch, slug, now) ==
    IF <<w, u>> \notin DOMAIN members THEN Refuse("forbidden")
    ELSE IF members[<<w, u>>].status # "active" THEN Refuse("forbidden")
    ELSE IF members[<<w, u>>].role # "owner" THEN Refuse("forbidden")
    ELSE IF slug # Keep /\ SlugTaken(wss, w, slug) THEN Refuse("conflict")
    ELSE IF w \notin DOMAIN wss THEN Refuse("not_found")
    ELSE IF ~etag_matches(ifMatch, wss[w].updated) THEN Refuse("precondition_failed")
    ELSE Tables("ok", [wss EXCEPT ![w].slug = Coalesce(slug, @),
                                  ![w].updated = IF Coalesce(slug, wss[w].slug) = wss[w].slug
                                                 THEN @ ELSE now],
                members, invites)

list_members_memory(w, limit, cursor) ==
    LET all   == MembersInOrder({k \in DOMAIN members : k[1] = w})
        after == {k \in DOMAIN members : MemberBefore(cursor[1], k)}
    IN  paginate(IF cursor = NoCursor THEN all ELSE Retain(all, after), limit)

update_member_memory(w, m, ifMatch, role, status) ==
    IF <<w, m>> \notin DOMAIN members THEN Refuse("not_found")
    ELSE IF ~etag_matches(ifMatch, members[<<w, m>>].joined) THEN Refuse("precondition_failed")
    ELSE IF members[<<w, m>>].role = "owner" /\ role \notin {"owner", Keep}
    THEN Refuse("bad_request")
    ELSE Tables("ok", wss, [members EXCEPT ![<<w, m>>].role = Coalesce(role, @),
                                           ![<<w, m>>].status = Coalesce(status, @)], invites)

delete_member_memory(w, m, ifMatch) ==
    IF <<w, m>> \notin DOMAIN members THEN Refuse("not_found")
    ELSE IF ~etag_matches(ifMatch, members[<<w, m>>].joined) THEN Refuse("precondition_failed")
    ELSE IF members[<<w, m>>].role = "owner" THEN Refuse("bad_request")
    ELSE Tables("ok", wss, [k \in DOMAIN members \ {<<w, m>>} |-> members[k]], invites)

create_invite_memory(w, i, role, expires) ==
    IF w \notin DOMAIN wss THEN Refuse("not_found")
    ELSE Tables("ok", wss, members,
                Insert(invites, i, NewInvite(w, role, expires)))

accept_invite_memory(u, i, now) ==
    IF i \notin DOMAIN invites THEN Refuse("not_found")
    ELSE IF invites[i].accepted # 0 THEN Refuse("bad_request")
    ELSE IF invites[i].expires < now THEN Refuse("bad_request")
    ELSE Tables("ok", wss, Insert(members, <<invites[i].ws, u>>, NewMember(invites[i].role, now)),
                [invites EXCEPT ![i].accepted = now])

-----------------------------------------------------------------------------
(* Requests *)

WsIdle == [at |-> "idle", call |-> [op |-> "none"], read |-> 0, used |-> FALSE, status |-> "none"]

WsFinish(u, st) == [wsReq EXCEPT ![u].at = "done", ![u].status = st]
WsGoto(u, at) == [wsReq EXCEPT ![u].at = at]
WsBusy(u) == wsReq[u].at \notin {"idle", "done"}

\* Routes without a role: what they check is in their first statement.
OpenRoute(op) == op \in {"create", "list", "accept"}

ws_required_role(op) == IF op \in {"get", "members"} THEN "viewer" ELSE "owner"

WsBegin(u, c) ==
    /\ ~WsBusy(u)
    /\ wsCount < WsMaxCalls
    /\ wsReq' = [wsReq EXCEPT ![u] =
          [WsIdle EXCEPT !.at = IF OpenRoute(c.op) THEN "op" ELSE "role", !.call = c,
                         !.used = /\ c.op = "accept" /\ c.invite \in DOMAIN invites
                                  /\ invites[c.invite].accepted # 0]]
    /\ wsPast' = [wsPast EXCEPT !.raced = @ \/ \E v \in WsUsers : WsBusy(v)]
    /\ wsCount' = wsCount + 1
    /\ UNCHANGED <<wss, members, invites, wsUpdates, wsTick>>

\* require_workspace_role, then what the handler checks of the payload.
ws_require_workspace_role(u) ==
    LET c == wsReq[u].call
        role == ws_role_for_user_pg(c.ws, u)
        checked == ws_validate(u, c)
    IN  /\ wsReq[u].at = "role"
        /\ wsReq' = IF \/ c.ws # 1 \/ role = "none"
                       \/ ~allows(role, ws_required_role(c.op))
                    THEN WsFinish(u, "forbidden")
                    ELSE IF checked # "ok" THEN WsFinish(u, checked)
                    ELSE WsGoto(u, "op")
        /\ UNCHANGED <<wss, members, invites, wsUpdates, wsPast, wsTick, wsCount>>

\* A statement that may change the tables; an audit row follows a success.
WsWrite(u, r) ==
    /\ wss' = r.w /\ members' = r.m /\ invites' = r.i
    /\ wsReq' = IF r.st = "ok" THEN WsGoto(u, "audit") ELSE WsFinish(u, r.st)
    /\ wsTick' = IF r.st = "ok" THEN wsTick + 1 ELSE wsTick
    /\ UNCHANGED <<wsCount>>

create_workspace(u) ==
    LET c == wsReq[u].call
    IN  /\ wsReq[u].at = "op" /\ c.op = "create"
        /\ IF c.slug = "blank"
           THEN /\ wsReq' = WsFinish(u, "bad_request")
                /\ UNCHANGED <<wss, members, invites, wsTick, wsCount>>
           ELSE \E w \in WsIds \ DOMAIN wss :
                    WsWrite(u, create_workspace_pg(u, w, c.slug, wsTick + 1))
        /\ UNCHANGED <<wsUpdates, wsPast>>

\* list_workspaces, list_members, get_workspace: what is read changes nothing.
ws_read(u) ==
    LET c == wsReq[u].call
        found == c.op # "get" \/ workspace_row_for_user(c.ws, u)
    IN  /\ wsReq[u].at = "op" /\ c.op \in {"list", "members", "get"}
        /\ wsReq' = IF found THEN WsFinish(u, "ok") ELSE WsGoto(u, "exists")
        /\ UNCHANGED <<wss, members, invites, wsUpdates, wsPast, wsTick, wsCount>>

ws_missing(u) ==
    /\ wsReq[u].at = "exists"
    /\ wsReq' = WsFinish(u, resolve_missing_workspace_access(wsReq[u].call.ws))
    /\ UNCHANGED <<wss, members, invites, wsUpdates, wsPast, wsTick, wsCount>>

update_workspace_check(u) ==
    LET c == wsReq[u].call
        st == update_workspace_read(c.ws, u, c.match)
    IN  /\ wsReq[u].at = "op" /\ c.op = "update"
        /\ wsReq' = IF ~workspace_row_for_user(c.ws, u) THEN WsGoto(u, "exists")
                    ELSE IF st # "ok" THEN WsFinish(u, st)
                    ELSE [WsGoto(u, "write") EXCEPT ![u].read = wss[c.ws].updated]
        /\ UNCHANGED <<wss, members, invites, wsUpdates, wsPast, wsTick, wsCount>>

update_workspace(u) ==
    LET c == wsReq[u].call
        r == update_workspace_pg(c.ws, c.slug, c.name, wsReq[u].read, wsTick + 1)
    IN  /\ wsReq[u].at = "write" /\ c.op = "update"
        /\ WsWrite(u, r)
        /\ wsUpdates' = IF r.st = "ok" /\ (c.slug # Keep \/ c.name # Keep)
                        THEN Append(wsUpdates, <<c.ws, wsReq[u].read>>) ELSE wsUpdates
        /\ UNCHANGED wsPast

member_check(u) ==
    LET c == wsReq[u].call
        st == member_read(c.ws, c.user, c.match, c.op, c.role)
    IN  /\ wsReq[u].at = "op" /\ c.op \in {"member", "remove"}
        /\ wsReq' = IF st # "ok" THEN WsFinish(u, st) ELSE WsGoto(u, "write")
        /\ UNCHANGED <<wss, members, invites, wsUpdates, wsPast, wsTick, wsCount>>

update_member(u) ==
    LET c == wsReq[u].call
    IN  /\ wsReq[u].at = "write" /\ c.op = "member"
        /\ WsWrite(u, update_member_pg(c.ws, c.user, c.role, c.status))
        /\ UNCHANGED <<wsUpdates, wsPast>>

delete_member(u) ==
    LET c == wsReq[u].call
    IN  /\ wsReq[u].at = "write" /\ c.op = "remove"
        /\ WsWrite(u, delete_member_pg(c.ws, c.user))
        /\ UNCHANGED <<wsUpdates, wsPast>>

create_invite(u) ==
    LET c == wsReq[u].call
    IN  /\ wsReq[u].at = "op" /\ c.op = "invite"
        /\ \E i \in InviteIds \ DOMAIN invites :
             WsWrite(u, create_invite_pg(c.ws, i, c.role, wsTick + 1 + c.hours))
        /\ UNCHANGED <<wsUpdates, wsPast>>

accept_invite_check(u) ==
    LET st == invite_read(wsReq[u].call.invite, wsTick)
    IN  /\ wsReq[u].at = "op" /\ wsReq[u].call.op = "accept"
        /\ wsReq' = IF st # "ok" THEN WsFinish(u, st) ELSE WsGoto(u, "write")
        /\ UNCHANGED <<wss, members, invites, wsUpdates, wsPast, wsTick, wsCount>>

accept_invite(u) ==
    LET i == wsReq[u].call.invite
        k == <<invites[i].ws, u>>
    IN  /\ wsReq[u].at = "write" /\ wsReq[u].call.op = "accept"
        /\ WsWrite(u, accept_invite_pg(u, i, wsTick + 1))
        /\ wsPast' = [wsPast EXCEPT !.joined =
                        @ \/ (k \in DOMAIN members /\ members[k].role = "owner")]
        /\ UNCHANGED wsUpdates

\* The audit row is written last, and only warned about when it fails.  No
\* route modelled here reads the rows: they are not kept.
try_record_audit_event(u) ==
    /\ wsReq[u].at = "audit"
    /\ wsReq' = WsFinish(u, "ok")
    /\ UNCHANGED <<wss, members, invites, wsUpdates, wsPast, wsTick, wsCount>>

-----------------------------------------------------------------------------

WsInit ==
    /\ wss = [w \in {1} |-> [slug |-> "s", created |-> 0, updated |-> 0]]
    /\ members = WsInitMembers
    /\ invites = <<>>
    /\ wsReq = [u \in WsUsers |-> WsIdle]
    /\ wsUpdates = <<>>
    /\ wsPast = [raced |-> FALSE, joined |-> FALSE]
    /\ wsTick = 0
    /\ wsCount = 0

WsStep(u) ==
    \/ ws_require_workspace_role(u)
    \/ create_workspace(u)
    \/ ws_read(u)
    \/ ws_missing(u)
    \/ update_workspace_check(u)
    \/ update_workspace(u)
    \/ member_check(u)
    \/ update_member(u)
    \/ delete_member(u)
    \/ create_invite(u)
    \/ accept_invite_check(u)
    \/ accept_invite(u)
    \/ try_record_audit_event(u)

WsNext ==
    \/ \E u \in WsUsers, c \in WsCalls : WsBegin(u, c)
    \/ \E u \in WsUsers : WsStep(u)

WsSpec == WsInit /\ [][WsNext]_wsVars

-----------------------------------------------------------------------------
(* Properties *)

\* No update of a workspace is lost: of the updates that give a name or a
\* slug, no two were carried out on the same state of the workspace, whatever
\* happened between the statement that compared the etag and the one that
\* wrote.
WsNoLostUpdate ==
    \A j, k \in DOMAIN wsUpdates : wsUpdates[j] = wsUpdates[k] => j = k

\* While requests come one at a time and no owner takes an invite, workspace 1
\* has an active owner: owners are not demoted or removed, and nobody changes
\* the own membership, so the owner who asks remains.
WsOwnerRemains ==
    ~wsPast.raced /\ ~wsPast.joined =>
        \E u \in WsUsers : IsActive(1, u) /\ members[<<1, u>>].role = "owner"

\* An invite is not taken by a request that came in after it had been taken.
WsInviteNotReused ==
    \A u \in WsUsers :
        wsReq[u].call.op = "accept" /\ wsReq[u].status = "ok" => ~wsReq[u].used

\* One request at a time, the in-memory store answers and changes its tables
\* as Postgres does, but for: joined_at of a member who takes another invite;
\* an update that is both out of date and on a slug in use; updated_at after
\* an update that changes no value; and an update by somebody who is no member
\* of a workspace that does not exist.
WsStoresAgree ==
    LET now == wsTick + 1 IN
    (\A u \in WsUsers : ~WsBusy(u)) =>
    /\ \A w \in WsIds, cursor \in {NoCursor} \cup {<<k>> : k \in DOMAIN members} :
         list_members_memory(w, normalize_limit(1), cursor)
           = list_members_pg(w, normalize_limit(1), cursor)
    /\ \A u \in WsUsers :
        /\ \A slug \in {"S", "t"}, w \in WsIds \ DOMAIN wss :
             create_workspace_memory(u, w, slug, now) = create_workspace_pg(u, w, slug, now)
        /\ \A cursor \in {NoCursor} \cup {<<w>> : w \in DOMAIN wss} :
             list_workspaces_memory(u, normalize_limit(1), cursor)
               = list_workspaces_pg(u, normalize_limit(1), cursor)
        /\ \A w \in WsIds :
             /\ get_workspace_memory(w, u) = get_workspace_pg(w, u)
             /\ ws_role_for_user_memory(w, u) = ws_role_for_user_pg(w, u)
             /\ w \in DOMAIN wss => \A slug \in {"S", "t", Keep}, m \in {0, wsTick} :
                  LET st == IF ~IsActive(w, u) THEN "forbidden" ELSE update_workspace_read(w, u, m)
                      pg == IF st # "ok" THEN Refuse(st)
                            ELSE update_workspace_pg(w, slug, Keep, wss[w].updated, now)
                      mem == update_workspace_memory(w, u, m, slug, now)
                  IN  \/ pg = mem
                      \/ pg.st = "precondition_failed" /\ mem.st = "conflict"
                      \/ /\ slug = wss[w].slug
                         /\ pg.w = [mem.w EXCEPT ![w].updated = now]
             /\ \A m \in {0, wsTick}, role \in Roles \cup {Keep}, status \in {"suspended", Keep} :
                  LET st == member_read(w, u, m, "member", role)
                  IN  update_member_memory(w, u, m, role, status)
                        = IF st # "ok" THEN Refuse(st) ELSE update_member_pg(w, u, role, status)
             /\ \A m \in {0, wsTick} :
                  LET st == member_read(w, u, m, "remove", Keep)
                  IN  delete_member_memory(w, u, m)
                        = IF st # "ok" THEN Refuse(st) ELSE delete_member_pg(w, u)
             /\ w \in DOMAIN wss => \A i \in InviteIds \ DOMAIN invites :
                  create_invite_memory(w, i, "viewer", now) = create_invite_pg(w, i, "viewer", now)
        /\ \A i \in InviteIds :
             LET st == invite_read(i, wsTick)
                 pg == IF st # "ok" THEN Refuse(st) ELSE accept_invite_pg(u, i, wsTick)
                 mem == accept_invite_memory(u, i, wsTick)
             IN  \/ pg = mem
                 \/ /\ <<invites[i].ws, u>> \in DOMAIN members
                    /\ mem.m = [pg.m EXCEPT ![<<invites[i].ws, u>>].joined = wsTick]

=============================================================================
