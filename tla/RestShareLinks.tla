--------------------------- MODULE RestShareLinks ---------------------------
(***************************************************************************)
(* Share links behind the HTTP API of the relay                            *)
(* (crates/relay/src/api/mod.rs): create, list, update and revoke by       *)
(* members, redeem by anybody who has the token, on Postgres; and the same *)
(* operations of the in-memory store.                                      *)
(*                                                                         *)
(* The id of a link stands for its token.  The etag of a link is made of   *)
(* everything in it that can change; a client that sends If-Match has read *)
(* the link before.  Time passes in steps of its own.                      *)
(***************************************************************************)
EXTENDS RestCommon

CONSTANTS
    ShUsers,
    LinkIds,
    ShCalls,
    ShMaxCalls,     \* bound on the requests made
    ShMaxTime,      \* bound on the clock
    RedeemMax,      \* REDEEM_RATE_LIMIT_MAX
    RedeemWindow    \* REDEEM_RATE_LIMIT_WINDOW_SECS

\* A redemption names a token; times and limits are numbers.
ASSUME ShAssumption ==
    /\ RedeemMax \in Nat /\ RedeemWindow \in Nat
    /\ \A c \in ShCalls :
          /\ c.op = "redeem" => c.link \in LinkIds
          /\ c.op \in {"create", "update"} => c.expires \in Int /\ c.max \in Int

VARIABLES
    links,      \* table share_links: id -> row
    limiter,    \* redeem_limiter: token -> [count, start]
    shRoles,    \* the role of each member
    shReq,      \* the request of each client
    redeemed,   \* redemptions answered with success, or about to be, of each link
    attempts,   \* the times at which the limiter let a redemption pass
    shTime,
    shCount

shVars == <<links, limiter, shRoles, shReq, redeemed, attempts, shTime, shCount>>

-----------------------------------------------------------------------------
(* Rows.  A limit that is not set is 0: validation refuses 0 and less. *)

Unset == -1
OrElse(new, old) == IF new = Unset THEN old ELSE new

share_link_etag(row) == <<row.perm, row.expires, row.max, row.uses, row.disabled, row.revoked>>

NoTag == <<>>      \* no If-Match
AnyTag == <<"*">>
link_etag_matches(tag, row) == tag = AnyTag \/ tag = share_link_etag(row)

validate_share_link_request(c, now) ==
    c.perm \in {"view", "edit"} /\ c.max >= 0 /\ (c.expires = 0 \/ c.expires > now)

validate_share_link_update_request(c, now) ==
    /\ ~(c.perm = "keep" /\ c.expires = Unset /\ c.max = Unset /\ c.disabled = "keep")
    /\ c.perm \in {"view", "edit", "keep"}
    /\ c.expires \in {Unset, 0} \/ c.expires > now

sh_validate(c, tag, now) ==
    CASE c.op = "create" -> IF validate_share_link_request(c, now) THEN "ok" ELSE "bad_request"
      [] c.op = "update" -> IF ~validate_share_link_update_request(c, now) THEN "bad_request"
                            ELSE IF tag = NoTag THEN "precondition_required" ELSE "ok"
      [] c.op = "revoke" -> IF tag = NoTag THEN "precondition_required" ELSE "ok"
      [] OTHER -> "ok"

NewLink(c) ==
    [ws |-> c.ws, perm |-> c.perm, password |-> c.password, expires |-> c.expires,
     max |-> c.max, uses |-> 0, disabled |-> FALSE, revoked |-> FALSE]

-----------------------------------------------------------------------------
(* Statements of the Postgres store *)

Found(st, t) == [st |-> st, t |-> t]

create_share_link_pg(t, i, c) == Found("ok", Insert(t, i, NewLink(c)))

\* Newest first.
LinksInOrder(S) == Ordered(S, {p \in S \X S : p[1] > p[2]})

list_share_links_pg(t, ws) == LinksInOrder({i \in DOMAIN t : t[i].ws = ws})

share_link_record_by_id_pg(t, ws, i) == i \in DOMAIN t /\ t[i].ws = ws

\* The first statement of an update and of a revocation.
check_link_etag_pg(t, ws, i, tag) ==
    IF ~share_link_record_by_id_pg(t, ws, i) THEN "not_found"
    ELSE IF ~link_etag_matches(tag, t[i]) THEN "precondition_failed"
    ELSE "ok"

\* The second of an update writes all four fields, those that were not given
\* as they were read.
update_share_link_pg(t, ws, i, c, read) ==
    IF ~share_link_record_by_id_pg(t, ws, i) THEN Found("not_found", t)
    ELSE Found("ok",
           [t EXCEPT ![i].perm = IF c.perm = "keep" THEN read.perm ELSE c.perm,
                     ![i].expires = OrElse(c.expires, read.expires),
                     ![i].max = OrElse(c.max, read.max),
                     ![i].disabled = IF c.disabled = "keep" THEN read.disabled
                                     ELSE c.disabled = "true"])

revoke_share_link_pg(t, ws, i) ==
    IF ~share_link_record_by_id_pg(t, ws, i) THEN Found("not_found", t)
    ELSE Found("ok", [t EXCEPT ![i].disabled = TRUE, ![i].revoked = TRUE])

find_share_link_by_token_hash_pg(t, i) == i \in DOMAIN t

increment_share_link_use_count_pg(t, i) ==
    IF i \in DOMAIN t THEN [t EXCEPT ![i].uses = @ + 1] ELSE t

-----------------------------------------------------------------------------
(* The in-memory store; workspace 1 exists, and its members are active *)

create_share_link_memory(t, i, c) ==
    IF c.ws # 1 THEN Found("not_found", t) ELSE Found("ok", Insert(t, i, NewLink(c)))

list_share_links_memory(t, ws) ==
    IF ws # 1 THEN <<>> ELSE LinksInOrder({i \in DOMAIN t : t[i].ws = ws})

update_share_link_memory(t, ws, i, tag, c) ==
    IF ws # 1 THEN Found("not_found", t)
    ELSE IF i \notin DOMAIN t THEN Found("not_found", t)
    ELSE IF t[i].ws # ws THEN Found("not_found", t)
    ELSE IF ~link_etag_matches(tag, t[i]) THEN Found("precondition_failed", t)
    ELSE Found("ok", [t EXCEPT ![i].perm = IF c.perm = "keep" THEN @ ELSE c.perm,
                               ![i].expires = OrElse(c.expires, @),
                               ![i].max = OrElse(c.max, @),
                               ![i].disabled = IF c.disabled = "keep" THEN @
                                               ELSE c.disabled = "true"])

revoke_share_link_memory(t, ws, i, tag) ==
    IF ws # 1 THEN Found("not_found", t)
    ELSE IF i \notin DOMAIN t THEN Found("not_found", t)
    ELSE IF t[i].ws # ws THEN Found("not_found", t)
    ELSE IF ~link_etag_matches(tag, t[i]) THEN Found("precondition_failed", t)
    ELSE Found("ok", [t EXCEPT ![i].disabled = TRUE, ![i].revoked = TRUE])

find_share_link_by_token_hash_memory(t, i) == i \in DOMAIN t
\* Mutant: the memory store counts nothing.
UsesNotCounted(t, i) == t

increment_share_link_use_count_memory(t, i) ==
    IF i \in DOMAIN t THEN [t EXCEPT ![i].uses = @ + 1] ELSE t

-----------------------------------------------------------------------------
(* Requests *)

ShIdle == [at |-> "idle", call |-> [op |-> "none"], tag |-> NoTag, read |-> <<>>,
           usable |-> FALSE, status |-> "none"]

ShFinish(u, st) == [shReq EXCEPT ![u].at = "done", ![u].status = st]
ShGoto(u, at) == [shReq EXCEPT ![u].at = at]

\* What a holder of the token may count on.
Usable(t, i, now) ==
    /\ i \in DOMAIN t
    /\ ~t[i].disabled /\ ~t[i].revoked
    /\ t[i].expires = 0 \/ t[i].expires >= now
    /\ t[i].max = 0 \/ t[i].uses < t[i].max

\* Whether the link of a redemption under way has been usable since it began.
ShObserve(req, t, now) ==
    [u \in ShUsers |->
        IF req[u].at \in {"limit", "find"}
        THEN [req[u] EXCEPT !.usable = @ \/ Usable(t, req[u].call.link, now)]
        ELSE req[u]]

ShBegin(u, c) ==
    LET tag == CASE c.op \notin {"update", "revoke"} -> NoTag
                 [] c.match = "none" -> NoTag
                 [] c.match = "any" -> AnyTag
                 [] c.match = "seen" -> IF c.link \in DOMAIN links
                                        THEN share_link_etag(links[c.link]) ELSE AnyTag
    IN  /\ shReq[u].at \in {"idle", "done"}
        /\ shCount < ShMaxCalls
        /\ shReq' = ShObserve([shReq EXCEPT ![u] =
                        [ShIdle EXCEPT !.at = IF c.op = "redeem" THEN "limit" ELSE "role",
                                       !.call = c, !.tag = tag]], links, shTime)
        /\ shCount' = shCount + 1
        /\ UNCHANGED <<links, limiter, shRoles, redeemed, attempts, shTime>>

\* Editors make, list and change links; only an owner revokes one.
sh_require_workspace_role(u) ==
    LET c == shReq[u].call
        checked == sh_validate(c, shReq[u].tag, shTime)
    IN  /\ shReq[u].at = "role"
        /\ shReq' = IF \/ c.ws # 1 \/ shRoles[u] = "none"
                       \/ ~allows(shRoles[u], IF c.op = "revoke" THEN "owner" ELSE "editor")
                    THEN ShFinish(u, "forbidden")
                    ELSE IF checked # "ok" THEN ShFinish(u, checked)
                    ELSE ShGoto(u, "op")
        /\ UNCHANGED <<links, limiter, shRoles, redeemed, attempts, shTime, shCount>>

ShWrite(u, r) ==
    /\ links' = r.t
    /\ shReq' = ShObserve(IF r.st = "ok" THEN ShGoto(u, "audit") ELSE ShFinish(u, r.st),
                          r.t, shTime)
    /\ UNCHANGED <<limiter, shRoles, attempts, shTime, shCount>>

create_share_link(u) ==
    /\ shReq[u].at = "op" /\ shReq[u].call.op = "create"
    /\ \E i \in LinkIds \ DOMAIN links :
         /\ ShWrite(u, create_share_link_pg(links, i, shReq[u].call))
         /\ redeemed' = Insert(redeemed, i, 0)

list_share_links(u) ==
    /\ shReq[u].at = "op" /\ shReq[u].call.op = "list"
    /\ shReq' = [ShFinish(u, "ok") EXCEPT ![u].read =
                    list_share_links_pg(links, shReq[u].call.ws)]
    /\ UNCHANGED <<links, limiter, shRoles, redeemed, attempts, shTime, shCount>>

share_link_check(u) ==
    LET c == shReq[u].call
        st == check_link_etag_pg(links, c.ws, c.link, shReq[u].tag)
    IN  /\ shReq[u].at = "op" /\ c.op \in {"update", "revoke"}
        /\ shReq' = IF st # "ok" THEN ShFinish(u, st)
                    ELSE [ShGoto(u, "write") EXCEPT ![u].read = links[c.link]]
        /\ UNCHANGED <<links, limiter, shRoles, redeemed, attempts, shTime, shCount>>

update_share_link(u) ==
    LET c == shReq[u].call
    IN  /\ shReq[u].at = "write" /\ c.op = "update"
        /\ ShWrite(u, update_share_link_pg(links, c.ws, c.link, c, shReq[u].read))
        /\ UNCHANGED redeemed

revoke_share_link(u) ==
    LET c == shReq[u].call
    IN  /\ shReq[u].at = "write" /\ c.op = "revoke"
        /\ ShWrite(u, revoke_share_link_pg(links, c.ws, c.link))
        /\ UNCHANGED redeemed

\* The audit row is written last, and only warned about when it fails.  No
\* route modelled here reads the rows: they are not kept.
sh_audit(u) ==
    /\ shReq[u].at = "audit"
    /\ shReq' = ShFinish(u, "ok")
    /\ UNCHANGED <<links, limiter, shRoles, redeemed, attempts, shTime, shCount>>

\* The entry of the token after another attempt now: a window that is over
\* makes way for a new one, and refused attempts count.
limiter_entry(i, now) ==
    LET old == IF i \in DOMAIN limiter THEN limiter[i] ELSE [count |-> 0, start |-> now]
        over == now - old.start > RedeemWindow
    IN  [count |-> 1 + IF over THEN 0 ELSE old.count,
         start |-> IF over THEN now ELSE old.start]

redeem_limit(u) ==
    LET i == shReq[u].call.link
        entry == limiter_entry(i, shTime)
    IN  /\ shReq[u].at = "limit"
        /\ limiter' = Insert(limiter, i, entry)
        /\ IF entry.count > RedeemMax
           THEN shReq' = ShFinish(u, "rate_limited") /\ UNCHANGED attempts
           ELSE /\ shReq' = ShGoto(u, "find")
                /\ attempts' = Append(attempts, <<i, shTime>>)
        /\ UNCHANGED <<links, shRoles, redeemed, shTime, shCount>>

\* What the handler answers from the row it found.
redeem_check(row, c, now) ==
    IF row.disabled THEN "disabled"
    ELSE IF row.revoked THEN "revoked"
    ELSE IF row.expires # 0 /\ row.expires < now THEN "expired"
    ELSE IF row.max # 0 /\ row.uses >= row.max THEN "exhausted"
    ELSE IF row.password /\ ~c.password THEN "invalid_password"
    ELSE "ok"

redeem_find(u) ==
    LET c == shReq[u].call
        st == IF find_share_link_by_token_hash_pg(links, c.link)
              THEN redeem_check(links[c.link], c, shTime) ELSE "not_found"
    IN  /\ shReq[u].at = "find"
        /\ shReq' = IF st # "ok" THEN ShFinish(u, st) ELSE ShGoto(u, "count")
        /\ UNCHANGED <<links, limiter, shRoles, redeemed, attempts, shTime, shCount>>

redeem_share_link(u) ==
    LET i == shReq[u].call.link
    IN  /\ shReq[u].at = "count"
        /\ links' = increment_share_link_use_count_pg(links, i)
        /\ shReq' = ShObserve(ShFinish(u, "ok"), links', shTime)
        /\ redeemed' = [redeemed EXCEPT ![i] = @ + 1]
        /\ UNCHANGED <<limiter, shRoles, attempts, shTime, shCount>>

ShTick ==
    /\ shTime < ShMaxTime
    /\ shTime' = shTime + 1
    /\ UNCHANGED <<links, limiter, shRoles, shReq, redeemed, attempts, shCount>>

-----------------------------------------------------------------------------

ShInit ==
    /\ links = [i \in {1} |-> NewLink([ws |-> 1, perm |-> "view", password |-> FALSE, expires |-> 0, max |-> 1])]
    /\ limiter = <<>>
    /\ shRoles \in [ShUsers -> {"owner"}]
    /\ shReq = [u \in ShUsers |-> ShIdle]
    /\ redeemed = [i \in {1} |-> 0]
    /\ attempts = <<>>
    /\ shTime = 1
    /\ shCount = 0

ShStep(u) ==
    \/ sh_require_workspace_role(u)
    \/ create_share_link(u)
    \/ list_share_links(u)
    \/ share_link_check(u)
    \/ update_share_link(u)
    \/ revoke_share_link(u)
    \/ sh_audit(u)
    \/ redeem_limit(u)
    \/ redeem_find(u)
    \/ redeem_share_link(u)

ShNext ==
    \/ \E u \in ShUsers, c \in ShCalls : ShBegin(u, c)
    \/ \E u \in ShUsers : ShStep(u)
    \/ ShTick

ShSpec == ShInit /\ [][ShNext]_shVars

-----------------------------------------------------------------------------
(* Properties *)

\* A redemption succeeds only if the link was good at some moment of the
\* request: not after it was revoked, even when an update that was under way
\* puts the old value of disabled back; not after it expired or its uses were
\* taken.
ShRedeemUsable ==
    \A u \in ShUsers :
        shReq[u].call.op = "redeem" /\ shReq[u].status = "ok" => shReq[u].usable

\* use_count is the number of redemptions: no update of the link that is under
\* way writes back a count it read.
ShUsesCounted ==
    \A i \in DOMAIN links : links[i].uses = redeemed[i]

\* A token is tried at most twice the limit within any stretch of time as long
\* as the window, wherever the windows of the limiter fall.
ShAttemptsBounded ==
    \A i \in LinkIds, from \in 0 .. ShMaxTime :
        Cardinality({k \in DOMAIN attempts :
            attempts[k][1] = i /\ attempts[k][2] \in from .. from + RedeemWindow})
          <= 2 * RedeemMax

\* One request at a time, the in-memory store answers and changes its links as
\* Postgres does (in a workspace that exists; the middleware lets no request
\* for another one through).
ShStoresAgree ==
    (\A u \in ShUsers : shReq[u].at \in {"idle", "done"}) =>
    \A i \in LinkIds :
        LET tags == {AnyTag} \cup {share_link_etag(links[j]) : j \in DOMAIN links} IN
        /\ list_share_links_memory(links, 1) = list_share_links_pg(links, 1)
        /\ find_share_link_by_token_hash_memory(links, i) = find_share_link_by_token_hash_pg(links, i)
        /\ i \in DOMAIN links =>
             increment_share_link_use_count_memory(links, i)
               = increment_share_link_use_count_pg(links, i)
        /\ \A c \in ShCalls :
             /\ c.op = "create" /\ c.ws = 1 /\ i \notin DOMAIN links =>
                  create_share_link_memory(links, i, c) = create_share_link_pg(links, i, c)
             /\ c.op = "update" => \A tag \in tags :
                  update_share_link_memory(links, 1, i, tag, c) =
                    LET st == check_link_etag_pg(links, 1, i, tag)
                    IN  IF st # "ok" THEN Found(st, links)
                        ELSE update_share_link_pg(links, 1, i, c, links[i])
        /\ \A tag \in tags :
             revoke_share_link_memory(links, 1, i, tag) =
               LET st == check_link_etag_pg(links, 1, i, tag)
               IN  IF st # "ok" THEN Found(st, links) ELSE revoke_share_link_pg(links, 1, i)

=============================================================================
