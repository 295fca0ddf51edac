----------------------------- MODULE RelayAuth ------------------------------
(***************************************************************************)
(* How a client of the relay gets and keeps its tokens                     *)
(* (crates/relay/src/auth/oauth.rs, jwt.rs, middleware.rs): the GitHub     *)
(* flow, accounts with a password, rotation of refresh tokens with reuse   *)
(* detection, logout.                                                      *)
(*                                                                         *)
(* A handler is a sequence of steps, one for each lock it takes: what it   *)
(* read under one lock may be old when it takes the next.  A refresh token *)
(* is the number of its session; an access token is [user, exp].           *)
(***************************************************************************)
EXTENDS Integers, Sequences, FiniteSets, Maps

CONSTANTS
    AuthClients,
    AuthCalls,
    AuthMaxCalls,   \* bound on the requests made
    AuthMaxTime,    \* bound on the clock
    RateMax,        \* max_requests of the limiters
    RateWindow,     \* window of the limiters
    FlowTtl,        \* flow_ttl
    RefreshTtl,     \* DEFAULT_REFRESH_TOKEN_TTL_DAYS
    AccessTtl       \* ACCESS_TOKEN_TTL_SECONDS

\* The routes of the router.
ASSUME AuthCallsAssumption ==
    \A c \in AuthCalls :
        c.op \in {"start", "callback", "register", "login", "change", "refresh", "logout"}

\* Sizes and times are unsigned in the code.
ASSUME RateAssumption == RateMax \in Nat /\ RateWindow \in Nat

VARIABLES
    refresh,    \* RefreshTokenStore.sessions: id -> session
    flows,      \* OAuthFlowStore.flows: id -> flow
    nextFlow,   \* ids are random and new; here, they are numbers
    accounts,   \* PasswordUserStore: email -> [id, pw]
    requests,   \* the queues of the three limiters
    authReq,    \* the request of each client
    allowed,    \* history: the requests each limiter let through
    consumed,   \* history: the flow of every session a callback issued
    settled,    \* history: families revoked while no refresh of theirs was under way
    authTime,
    authCount

authVars == <<refresh, flows, nextFlow, accounts, requests, authReq, allowed, consumed, settled,
              authTime, authCount>>

-----------------------------------------------------------------------------
(* The stores *)

NewSession(user, family, expires) ==
    [user |-> user, family |-> family, expires |-> expires, revoked |-> FALSE]

insert_session(s, user, family, now) == Insert(refresh, s, NewSession(user, family, now + RefreshTtl))

\* Sessions are numbered as they come; none is ever removed.
NextSession == 1 + Cardinality(DOMAIN refresh)

find_by_hash(token) == token \in DOMAIN refresh

revoke_session(s) == [refresh EXCEPT ![s].revoked = TRUE]
\* Mutant: only the first session of the family is revoked.
RevokeOldest(f) ==
    [s \in DOMAIN refresh |->
        IF refresh[s].family = f /\ \A o \in DOMAIN refresh : refresh[o].family = f => s <= o
        THEN [refresh[s] EXCEPT !.revoked = TRUE] ELSE refresh[s]]

revoke_family(f) ==
    [s \in DOMAIN refresh |->
        IF refresh[s].family = f THEN [refresh[s] EXCEPT !.revoked = TRUE] ELSE refresh[s]]

Pick(f, keep(_)) == [x \in {y \in DOMAIN f : keep(f[y])} |-> f[x]]

prune_expired_flows(now) == Pick(flows, LAMBDA r : r.expires > now)

insert_flow(f, record, now) == Insert(prune_expired_flows(now), f, record)
\* Mutant: the flow stays for another callback.
PeekFlow(f, now) == prune_expired_flows(now)

take_flow(f, now) ==
    LET live == prune_expired_flows(now)
    IN  [x \in DOMAIN live \ {f} |-> live[x]]

create_account(email, pw) ==
    Insert(accounts, email, [id |-> <<"account", email>>, pw |-> pw])

find_by_user_id(user) == {e \in DOMAIN accounts : accounts[e].id = user}

update_password_hash(user, pw) ==
    [e \in DOMAIN accounts |->
        IF accounts[e].id = user THEN [accounts[e] EXCEPT !.pw = pw] ELSE accounts[e]]

-----------------------------------------------------------------------------
(* Limiters *)

prune_old_requests(queue, now) ==
    LET dead == {k \in 1 .. Len(queue) : \A j \in 1 .. k : now - queue[j] >= RateWindow}
    IN  SubSeq(queue, 1 + Cardinality(dead), Len(queue))

rate_limited(which, now) == Len(prune_old_requests(requests[which], now)) >= RateMax

rate_check(which, now) ==
    LET kept == prune_old_requests(requests[which], now)
    IN  [requests EXCEPT ![which] = IF Len(kept) >= RateMax THEN kept ELSE Append(kept, now)]

-----------------------------------------------------------------------------
(* Tokens and what is checked of a request *)

issue_workspace_token_at(user, now) == [user |-> user, exp |-> now + AccessTtl]

\* The library refuses a token whose exp is past; leeway is 0.
validate_workspace_token(token, now) == token.exp >= now

NoToken == [user |-> <<>>, exp |-> -1]

extract_user_id_from_bearer(token, now) == validate_workspace_token(token, now)

validate_start(c) == c.redirect = "https" \/ c.redirect = "http_loopback"
validate_state(c) == c.state # "empty"
validate_code_challenge_method(c) == c.method = "S256"
validate_code_challenge(c) == c.challenge # "short"
verify_pkce_s256(c, flow) == c.challenge = flow.challenge

normalize_email(c) == c.email # "no_at"
validate_password(pw) == pw # "short"

-----------------------------------------------------------------------------
(* Requests *)

NoCall == [op |-> "none", token |-> 0, flow |-> 0]

AuthIdle == [at |-> "idle", call |-> NoCall, access |-> NoToken, user |-> <<>>, family |-> 0,
             dead |-> FALSE, status |-> "none", got |-> 0]

AuthTo(r, at) == [authReq EXCEPT ![r].at = at]
AuthEnd(r, st) == [authReq EXCEPT ![r].at = "done", ![r].status = st]

\* A client presents the access token of its last answer.  dead records that
\* the refresh token of the request was revoked before the request was made.
AuthBegin(r, c) ==
    /\ authReq[r].at \in {"idle", "done"}
    /\ authCount < AuthMaxCalls
    /\ authReq' = [authReq EXCEPT ![r] =
          [AuthIdle EXCEPT !.at = IF c.op \in {"start", "callback", "refresh"} THEN "rate" ELSE c.op,
                           !.call = c,
                           !.access = authReq[r].access,
                           !.dead = /\ c.op = "refresh" /\ c.token \in DOMAIN refresh
                                    /\ refresh[c.token].revoked]]
    /\ authCount' = authCount + 1
    /\ UNCHANGED <<refresh, flows, nextFlow, accounts, requests, allowed, consumed, settled, authTime>>

rate_limiter_check(r) ==
    LET op == authReq[r].call.op
    IN  /\ authReq[r].at = "rate"
        /\ requests' = rate_check(op, authTime)
        /\ IF rate_limited(op, authTime)
           THEN authReq' = AuthEnd(r, "rate_limited") /\ UNCHANGED allowed
           ELSE /\ authReq' = AuthTo(r, op)
                /\ allowed' = Append(allowed, <<op, authTime>>)
        /\ UNCHANGED <<refresh, flows, nextFlow, accounts, consumed, settled, authTime, authCount>>

start_github_oauth(r) ==
    LET c == authReq[r].call
    IN  /\ authReq[r].at = "start"
        /\ IF validate_start(c) /\ validate_state(c) /\ validate_code_challenge_method(c)
                /\ validate_code_challenge(c)
           THEN /\ flows' = insert_flow(nextFlow, [state |-> c.state, challenge |-> c.challenge,
                                                   expires |-> authTime + FlowTtl], authTime)
                /\ nextFlow' = nextFlow + 1
                /\ authReq' = [AuthEnd(r, "ok") EXCEPT ![r].got = nextFlow]
           ELSE authReq' = AuthEnd(r, "bad_request") /\ UNCHANGED <<flows, nextFlow>>
        /\ UNCHANGED <<refresh, accounts, requests, allowed, consumed, settled, authTime, authCount>>

\* The flow is gone whatever becomes of the request.
callback_take(r) ==
    LET c == authReq[r].call
        live == prune_expired_flows(authTime)
    IN  /\ authReq[r].at = "callback"
        /\ flows' = take_flow(c.flow, authTime)
        /\ authReq' = IF c.flow \notin DOMAIN live THEN AuthEnd(r, "unknown_flow")
                      ELSE IF live[c.flow].state # c.state THEN AuthEnd(r, "state_mismatch")
                      ELSE IF ~verify_pkce_s256(c, live[c.flow]) THEN AuthEnd(r, "code_invalid")
                      ELSE AuthTo(r, "exchange")
        /\ UNCHANGED <<refresh, nextFlow, accounts, requests, allowed, consumed, settled, authTime,
                       authCount>>

\* exchange_code and get_user_info call GitHub; either may fail.  The user is
\* a new one every time.
callback_github_oauth(r) ==
    /\ authReq[r].at = "exchange"
    /\ \/ authReq' = AuthEnd(r, "github_failed")
       \/ authReq' = [AuthTo(r, "issue") EXCEPT ![r].user = <<"github", authReq[r].call.flow>>]
    /\ UNCHANGED <<refresh, flows, nextFlow, accounts, requests, allowed, consumed, settled, authTime,
                   authCount>>

register_password_user(r) ==
    LET c == authReq[r].call
    IN  /\ authReq[r].at = "register"
        /\ IF ~(normalize_email(c) /\ validate_password(c.pw))
           THEN authReq' = AuthEnd(r, "bad_request") /\ UNCHANGED accounts
           ELSE IF c.email \in DOMAIN accounts
           THEN authReq' = AuthEnd(r, "taken") /\ UNCHANGED accounts
           ELSE /\ accounts' = create_account(c.email, c.pw)
                /\ authReq' = [AuthTo(r, "issue") EXCEPT ![r].user = accounts'[c.email].id]
        /\ UNCHANGED <<refresh, flows, nextFlow, requests, allowed, consumed, settled, authTime, authCount>>

login_password_user(r) ==
    LET c == authReq[r].call
    IN  /\ authReq[r].at = "login"
        /\ authReq' = IF ~normalize_email(c) THEN AuthEnd(r, "bad_request")
                      ELSE IF c.email \notin DOMAIN accounts THEN AuthEnd(r, "invalid")
                      ELSE IF accounts[c.email].pw # c.pw THEN AuthEnd(r, "invalid")
                      ELSE [AuthTo(r, "issue") EXCEPT ![r].user = accounts[c.email].id]
        /\ UNCHANGED <<refresh, flows, nextFlow, accounts, requests, allowed, consumed, settled, authTime,
                       authCount>>

\* A session in a family of its own; the family has the number of its first
\* session.
issue_auth_session(r) ==
    /\ authReq[r].at = "issue"
    /\ LET s == NextSession IN
         /\ refresh' = insert_session(s, authReq[r].user, s, authTime)
         /\ authReq' = [AuthEnd(r, "ok") EXCEPT
                           ![r].got = s,
                           ![r].access = issue_workspace_token_at(authReq[r].user, authTime)]
         /\ consumed' = IF authReq[r].call.op = "callback"
                        THEN Insert(consumed, s, authReq[r].call.flow) ELSE consumed
    /\ UNCHANGED <<flows, nextFlow, accounts, requests, allowed, settled, authTime, authCount>>

\* The password is checked against a copy of the account; the account is
\* written under another lock.
change_password_check(r) ==
    LET c == authReq[r].call
        own == find_by_user_id(authReq[r].access.user)
    IN  /\ authReq[r].at = "change"
        /\ authReq' = IF ~extract_user_id_from_bearer(authReq[r].access, authTime)
                      THEN AuthEnd(r, "unauthorized")
                      ELSE IF own = {} THEN AuthEnd(r, "no_account")
                      ELSE LET e == CHOOSE e \in own : TRUE
                           IN  IF accounts[e].pw # c.pw THEN AuthEnd(r, "invalid")
                               ELSE IF ~validate_password(c.newPw) \/ accounts[e].pw = c.newPw
                               THEN AuthEnd(r, "bad_request")
                               ELSE AuthTo(r, "write")
        /\ UNCHANGED <<refresh, flows, nextFlow, accounts, requests, allowed, consumed, settled, authTime,
                       authCount>>

change_password(r) ==
    /\ authReq[r].at = "write"
    /\ accounts' = update_password_hash(authReq[r].access.user, authReq[r].call.newPw)
    /\ authReq' = AuthEnd(r, "ok")
    /\ UNCHANGED <<refresh, flows, nextFlow, requests, allowed, consumed, settled, authTime, authCount>>

refresh_find(r) ==
    LET token == authReq[r].call.token
    IN  /\ authReq[r].at = "refresh"
        /\ authReq' = IF ~find_by_hash(token) THEN AuthEnd(r, "invalid")
                      ELSE IF refresh[token].revoked
                      THEN [AuthTo(r, "reuse") EXCEPT ![r].family = refresh[token].family]
                      ELSE IF refresh[token].expires < authTime THEN AuthEnd(r, "expired")
                      ELSE [AuthTo(r, "rotate") EXCEPT ![r].family = refresh[token].family,
                                                       ![r].user = refresh[token].user]
        /\ UNCHANGED <<refresh, flows, nextFlow, accounts, requests, allowed, consumed, settled, authTime,
                       authCount>>

refresh_reuse(r) ==
    LET f == authReq[r].family
    IN  /\ authReq[r].at = "reuse"
        /\ refresh' = revoke_family(f)
        /\ authReq' = AuthEnd(r, "revoked")
        /\ settled' = IF \E x \in AuthClients :
                            authReq[x].family = f /\ authReq[x].at \in {"rotate", "reissue"}
                      THEN settled ELSE settled \cup {f}
        /\ UNCHANGED <<flows, nextFlow, accounts, requests, allowed, consumed, authTime, authCount>>

\* What revoke_session returns is not looked at.
refresh_rotate(r) ==
    /\ authReq[r].at = "rotate"
    /\ refresh' = revoke_session(authReq[r].call.token)
    /\ authReq' = AuthTo(r, "reissue")
    /\ UNCHANGED <<flows, nextFlow, accounts, requests, allowed, consumed, settled, authTime, authCount>>

handle_token_refresh(r) ==
    /\ authReq[r].at = "reissue"
    /\ LET s == NextSession IN
         /\ refresh' = insert_session(s, authReq[r].user, authReq[r].family, authTime)
         /\ authReq' = [AuthEnd(r, "ok") EXCEPT
                           ![r].got = s,
                           ![r].access = issue_workspace_token_at(authReq[r].user, authTime)]
    /\ UNCHANGED <<flows, nextFlow, accounts, requests, allowed, consumed, settled, authTime, authCount>>

logout_find(r) ==
    LET token == authReq[r].call.token
    IN  /\ authReq[r].at = "logout"
        /\ authReq' = IF ~extract_user_id_from_bearer(authReq[r].access, authTime)
                      THEN AuthEnd(r, "unauthorized")
                      ELSE IF ~find_by_hash(token) THEN AuthEnd(r, "invalid")
                      ELSE AuthTo(r, "leave")
        /\ UNCHANGED <<refresh, flows, nextFlow, accounts, requests, allowed, consumed, settled, authTime,
                       authCount>>

handle_logout(r) ==
    /\ authReq[r].at = "leave"
    /\ refresh' = revoke_session(authReq[r].call.token)
    /\ authReq' = AuthEnd(r, "ok")
    /\ UNCHANGED <<flows, nextFlow, accounts, requests, allowed, consumed, settled, authTime, authCount>>

AuthTick ==
    /\ authTime < AuthMaxTime
    /\ authTime' = authTime + 1
    /\ UNCHANGED <<refresh, flows, nextFlow, accounts, requests, authReq, allowed, consumed, settled,
                   authCount>>

-----------------------------------------------------------------------------

AuthInit ==
    /\ refresh = <<>>
    /\ flows = <<>>
    /\ nextFlow = 1
    /\ accounts = <<>>
    /\ requests = [op \in {"start", "callback", "refresh"} |-> <<>>]
    /\ authReq = [r \in AuthClients |-> AuthIdle]
    /\ allowed = <<>>
    /\ consumed = <<>>
    /\ settled = {}
    /\ authTime = 0
    /\ authCount = 0

AuthStep(r) ==
    \/ rate_limiter_check(r)
    \/ start_github_oauth(r)
    \/ callback_take(r)
    \/ callback_github_oauth(r)
    \/ register_password_user(r)
    \/ login_password_user(r)
    \/ issue_auth_session(r)
    \/ change_password_check(r)
    \/ change_password(r)
    \/ refresh_find(r)
    \/ refresh_reuse(r)
    \/ refresh_rotate(r)
    \/ handle_token_refresh(r)
    \/ logout_find(r)
    \/ handle_logout(r)

AuthNext ==
    \/ \E r \in AuthClients, c \in AuthCalls : AuthBegin(r, c)
    \/ \E r \in AuthClients : AuthStep(r)
    \/ AuthTick

AuthSpec == AuthInit /\ [][AuthNext]_authVars

-----------------------------------------------------------------------------
(* Properties *)

\* A refresh token that was revoked (rotated, logged out, or killed with its
\* family) before a request was made gets that request nothing.
AuthDeadTokenRefused ==
    \A r \in AuthClients : authReq[r].dead => authReq[r].status # "ok"

\* When reuse of a token is detected and no other refresh of the family is
\* under way, the family is over: none of its tokens is ever good again, none
\* is issued.  (A refresh that is under way still adds a good one.)
AuthFamilyEnds ==
    \A s \in DOMAIN refresh : refresh[s].family \in settled => refresh[s].revoked

\* However many callbacks race with one flow, it gives one session at most.
AuthFlowOnce ==
    \A s, x \in DOMAIN consumed : consumed[s] = consumed[x] => s = x

\* A limiter lets at most RateMax requests through in any stretch of time as
\* long as its window, wherever it begins.
AuthWindowBound ==
    \A op \in DOMAIN requests, from \in 0 .. AuthMaxTime :
        Cardinality({k \in DOMAIN allowed : allowed[k][1] = op
                        /\ allowed[k][2] \in from .. from + RateWindow - 1}) <= RateMax

=============================================================================
