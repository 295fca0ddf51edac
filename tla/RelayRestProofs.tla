-------------------------- MODULE RelayRestProofs ---------------------------
(***************************************************************************)
(* Proofs about the relay's HTTP API, for any number of clients,           *)
(* workspaces, documents, threads, calls and ticks of the clock: a token   *)
(* that was revoked is good for nothing (RelayAuth); a retry is told what  *)
(* the first answer was (RestIdempotency); a workspace keeps an owner and  *)
(* loses no update, and an invite is accepted once (RestWorkspaces); a     *)
(* document or a thread is changed only by a request that was checked      *)
(* against what it changes (RestDocuments, RestComments); links, flows and *)
(* limiters give no more than they should (RestShareLinks, RelayAuth); and *)
(* a listing read page by page is complete (RestDocuments, RestSearch).    *)
(* The parts of the API share no state, so that the invariant of one is    *)
(* kept by the steps of the others.                                        *)
(***************************************************************************)
EXTENDS MCRelayRest, FiniteSetTheorems, SequenceTheorems, WellFoundedInduction, TLAPS

-----------------------------------------------------------------------------
(* Tokens.  A refresh is several steps, and the session it found may be    *)
(* revoked in between; the invariant says at which of its steps a request  *)
(* may still be when its token is dead, or its family over.                *)

AuthFields == {"at", "call", "access", "user", "family", "dead", "status", "got"}

SessionFields == {"user", "family", "expires", "revoked"}

AuthTypeOK ==
    /\ \E n \in Nat : DOMAIN refresh = 1..n
    /\ \A s \in DOMAIN refresh : DOMAIN refresh[s] = SessionFields
    /\ DOMAIN authReq = AuthClients
    /\ \A r \in AuthClients : DOMAIN authReq[r] = AuthFields /\ authReq[r].call \in AuthCalls \cup {NoCall}

\* A family has the number of its first session.
AuthFamilies ==
    /\ \A s \in DOMAIN refresh : refresh[s].family \in DOMAIN refresh
    /\ \A r \in AuthClients : authReq[r].at \in {"reuse", "rotate", "reissue"} =>
          authReq[r].family \in DOMAIN refresh
    /\ \A f \in settled : f \in DOMAIN refresh

\* No refresh of a family that is over is past the point where it looks.
AuthNoneUnderWay ==
    \A r \in AuthClients : authReq[r].at \in {"rotate", "reissue"} => authReq[r].family \notin settled

\* A request with a dead token is on its way to being refused.
AuthDead ==
    \A r \in AuthClients : authReq[r].dead =>
        /\ authReq[r].at \in {"rate", "refresh", "reuse", "done"}
        /\ authReq[r].status # "ok"
        /\ authReq[r].call.op = "refresh"
        /\ authReq[r].call.token \in DOMAIN refresh
        /\ refresh[authReq[r].call.token].revoked

AuthInv == AuthTypeOK /\ AuthFamilies /\ AuthNoneUnderWay /\ AuthDead /\ AuthFamilyEnds

LEMMA AuthInitInv == AuthInit => AuthInv
<1> SUFFICES ASSUME AuthInit PROVE AuthInv
  OBVIOUS
<1>1. DOMAIN refresh = 1..0 /\ DOMAIN refresh = {} /\ 0 \in Nat
  BY DEF AuthInit
<1>2. /\ DOMAIN authReq = AuthClients /\ settled = {}
      /\ \A r \in AuthClients : /\ DOMAIN authReq[r] = AuthFields /\ authReq[r].call = NoCall
                               /\ authReq[r].at = "idle" /\ authReq[r].dead = FALSE
  BY DEF AuthInit, AuthIdle, AuthFields
<1> QED
  BY <1>1, <1>2 DEF AuthInv, AuthTypeOK, AuthFamilies, AuthNoneUnderWay, AuthDead, AuthFamilyEnds

\* The request of r alone changes.
AuthOnly(r) ==
    /\ DOMAIN authReq' = AuthClients
    /\ DOMAIN authReq'[r] = AuthFields
    /\ authReq'[r].call \in AuthCalls \cup {NoCall}
    /\ \A x \in AuthClients : x # r => authReq'[x] = authReq[x]

\* A request moves on, or ends, and no session changes.
LEMMA AuthMoveInv ==
    ASSUME AuthInv, NEW r \in AuthClients, UNCHANGED <<refresh, settled>>,
           AuthOnly(r),
           authReq'[r].at \in {"reuse", "rotate", "reissue"} => authReq'[r].family \in DOMAIN refresh,
           authReq'[r].at \in {"rotate", "reissue"} => authReq'[r].family \notin settled,
           authReq'[r].dead => /\ authReq'[r].at \in {"rate", "refresh", "reuse", "done"}
                     /\ authReq'[r].status # "ok"
                     /\ authReq'[r].call.op = "refresh"
                     /\ authReq'[r].call.token \in DOMAIN refresh
                     /\ refresh[authReq'[r].call.token].revoked
    PROVE  AuthInv'
<1>1. /\ DOMAIN authReq' = AuthClients /\ DOMAIN authReq'[r] = AuthFields
      /\ authReq'[r].call \in AuthCalls \cup {NoCall}
      /\ \A x \in AuthClients : x # r => authReq'[x] = authReq[x]
  BY DEF AuthOnly
<1>2. AuthTypeOK'
  BY <1>1 DEF AuthInv, AuthTypeOK
<1>3. AuthFamilies'
  BY <1>1 DEF AuthInv, AuthFamilies
<1>4. AuthNoneUnderWay'
  BY <1>1 DEF AuthInv, AuthNoneUnderWay
<1>5. AuthDead'
  BY <1>1 DEF AuthInv, AuthDead
<1>6. AuthFamilyEnds'
  BY DEF AuthInv, AuthFamilyEnds
<1> QED
  BY <1>2, <1>3, <1>4, <1>5, <1>6 DEF AuthInv

\* Sessions are revoked, and their families as well if nothing of them is under way; a request ends.
LEMMA AuthRevokeInv ==
    ASSUME AuthInv, NEW r \in AuthClients, NEW F, settled' = settled \cup F,
           AuthOnly(r),
           DOMAIN refresh' = DOMAIN refresh,
           \A s \in DOMAIN refresh :
              /\ DOMAIN refresh'[s] = SessionFields
              /\ refresh'[s].family = refresh[s].family
              /\ refresh[s].revoked => refresh'[s].revoked,
           \A f \in F :
              /\ f \in DOMAIN refresh
              /\ \A x \in AuthClients : authReq[x].at \in {"rotate", "reissue"} => authReq[x].family # f
              /\ \A s \in DOMAIN refresh : refresh[s].family = f => refresh'[s].revoked,
           authReq'[r].at \in {"done", "reissue"},
           authReq'[r].at = "reissue" => /\ authReq'[r].family = authReq[r].family
                               /\ authReq[r].at \in {"rotate", "reissue"},
           authReq'[r].dead => /\ authReq'[r].at = "done"
                     /\ authReq'[r].status # "ok"
                     /\ authReq'[r].call.op = "refresh"
                     /\ authReq'[r].call.token \in DOMAIN refresh
                     /\ refresh[authReq'[r].call.token].revoked
    PROVE  AuthInv'
<1>1. /\ DOMAIN authReq' = AuthClients /\ DOMAIN authReq'[r] = AuthFields
      /\ authReq'[r].call \in AuthCalls \cup {NoCall}
      /\ \A x \in AuthClients : x # r => authReq'[x] = authReq[x]
  BY DEF AuthOnly
<1>2. AuthTypeOK'
  BY <1>1 DEF AuthInv, AuthTypeOK
<1>3. AuthFamilies'
  BY <1>1 DEF AuthInv, AuthFamilies
<1>4. AuthNoneUnderWay'
  BY <1>1 DEF AuthInv, AuthNoneUnderWay
<1>5. AuthDead'
  BY <1>1 DEF AuthInv, AuthDead
<1>6. AuthFamilyEnds'
  BY DEF AuthInv, AuthFamilyEnds
<1> QED
  BY <1>2, <1>3, <1>4, <1>5, <1>6 DEF AuthInv

\* A new session, in a family of its own or one that is not over.
LEMMA AuthIssueInv ==
    ASSUME AuthInv, NEW r \in AuthClients, NEW user, NEW f, NEW now, UNCHANGED settled,
           AuthOnly(r),
           authReq'[r].call \in AuthCalls \cup {NoCall}, authReq'[r].at = "done", ~authReq'[r].dead,
           refresh' = insert_session(NextSession, user, f, now),
           f = NextSession \/ (f \in DOMAIN refresh /\ f \notin settled)
    PROVE  AuthInv'
<1>1. /\ DOMAIN authReq' = AuthClients /\ DOMAIN authReq'[r] = AuthFields
      /\ authReq'[r].call \in AuthCalls \cup {NoCall}
      /\ \A x \in AuthClients : x # r => authReq'[x] = authReq[x]
  BY DEF AuthOnly
<1>2. PICK n \in Nat : DOMAIN refresh = 1..n
  BY DEF AuthInv, AuthTypeOK
<1>3. NextSession = n + 1
  <2>1. Cardinality(1..n) = n
    BY FS_Interval
  <2> QED
    BY <1>2, <2>1 DEF NextSession
<1> DEFINE k == n + 1
           session == NewSession(user, f, now + RefreshTtl)
<1>4. DOMAIN session = SessionFields /\ session.family = f
  BY DEF NewSession, SessionFields
<1>5. refresh' = Insert(refresh, k, session)
  BY <1>3 DEF insert_session
<1> HIDE DEF session
<1>6. /\ DOMAIN refresh' = 1..k /\ k \in Nat /\ k \notin DOMAIN refresh /\ k \in DOMAIN refresh'
      /\ refresh'[k] = session
      /\ \A s \in DOMAIN refresh : s \in DOMAIN refresh' /\ refresh'[s] = refresh[s]
      /\ \A s \in DOMAIN refresh' : s = k \/ s \in DOMAIN refresh
  BY <1>2, <1>5 DEF Insert
<1> HIDE DEF k
<1>7. f \in DOMAIN refresh' /\ f \notin settled
  BY <1>3, <1>6 DEF AuthInv, AuthFamilies, k
<1>8. AuthTypeOK'
  BY <1>1, <1>4, <1>6 DEF AuthInv, AuthTypeOK
<1>9. AuthFamilies'
  <2>1. \A s \in DOMAIN refresh' : refresh'[s].family \in DOMAIN refresh'
    BY <1>4, <1>6, <1>7 DEF AuthInv, AuthFamilies
  <2>2. \A x \in AuthClients : authReq'[x].at \in {"reuse", "rotate", "reissue"} =>
          authReq'[x].family \in DOMAIN refresh'
    BY <1>1, <1>6 DEF AuthInv, AuthFamilies
  <2> QED
    BY <1>6, <2>1, <2>2 DEF AuthInv, AuthFamilies
<1>10. AuthNoneUnderWay'
  BY <1>1 DEF AuthInv, AuthNoneUnderWay
<1>11. AuthDead'
  BY <1>1, <1>6 DEF AuthInv, AuthDead
<1>12. AuthFamilyEnds'
  BY <1>4, <1>6, <1>7 DEF AuthInv, AuthFamilyEnds
<1> QED
  BY <1>8, <1>9, <1>10, <1>11, <1>12 DEF AuthInv

\* Most steps are neither part of a refresh nor taken with a dead token.
LEMMA AuthPlainInv ==
    ASSUME AuthInv, NEW r \in AuthClients, UNCHANGED <<refresh, settled>>,
           AuthOnly(r),
           authReq'[r].dead = authReq[r].dead, authReq'[r].call = authReq[r].call,
           authReq[r].at \notin {"rate", "refresh", "reuse", "done"},
           authReq'[r].at \notin {"reuse", "rotate", "reissue"}
    PROVE  AuthInv'
<1>1. ~authReq'[r].dead
  BY DEF AuthInv, AuthDead
<1> QED
  BY <1>1, AuthMoveInv

LEMMA AuthBeginInv == ASSUME AuthInv, NEW r \in AuthClients, NEW c \in AuthCalls, AuthBegin(r, c) PROVE AuthInv'
<1>1. r \in DOMAIN authReq /\ DOMAIN authReq = AuthClients
  BY DEF AuthInv, AuthTypeOK
<1> DEFINE q == [AuthIdle EXCEPT !.at = IF c.op \in {"start", "callback", "refresh"} THEN "rate" ELSE c.op,
                                 !.call = c,
                                 !.access = authReq[r].access,
                                 !.dead = /\ c.op = "refresh" /\ c.token \in DOMAIN refresh
                                          /\ refresh[c.token].revoked]
<1>2. authReq' = [authReq EXCEPT ![r] = q] /\ UNCHANGED <<refresh, settled>>
  BY DEF AuthBegin
<1>3. /\ DOMAIN q = AuthFields /\ q.call = c /\ q.status = "none"
      /\ q.at = (IF c.op \in {"start", "callback", "refresh"} THEN "rate" ELSE c.op)
      /\ q.dead = (c.op = "refresh" /\ c.token \in DOMAIN refresh /\ refresh[c.token].revoked)
  BY DEF AuthIdle, AuthFields
<1> HIDE DEF q
<1>4. authReq'[r] = q /\ AuthOnly(r)
  BY <1>1, <1>2, <1>3 DEF AuthOnly
<1>5. q.at \notin {"reuse", "rotate", "reissue"}
  BY <1>3, AuthCallsAssumption
<1>6. q.dead => /\ q.at = "rate" /\ q.call.op = "refresh" /\ q.call.token \in DOMAIN refresh
                /\ refresh[q.call.token].revoked
  BY <1>3
<1> QED
  BY <1>2, <1>3, <1>4, <1>5, <1>6, AuthMoveInv

LEMMA AuthRateInv == ASSUME AuthInv, NEW r \in AuthClients, rate_limiter_check(r) PROVE AuthInv'
<1>1. r \in DOMAIN authReq /\ DOMAIN authReq = AuthClients /\ DOMAIN authReq[r] = AuthFields
      /\ authReq[r].call \in AuthCalls \cup {NoCall}
  BY DEF AuthInv, AuthTypeOK
<1>2. UNCHANGED <<refresh, settled>> /\ authReq[r].at = "rate"
  BY DEF rate_limiter_check
<1>3. authReq[r].call.op \notin {"reuse", "rotate", "reissue"}
  BY <1>1, AuthCallsAssumption DEF NoCall
<1>4. AuthOnly(r) /\ authReq'[r].dead = authReq[r].dead /\ authReq'[r].call = authReq[r].call
      /\ \/ authReq'[r].at = "done" /\ authReq'[r].status = "rate_limited"
         \/ authReq'[r].at = authReq[r].call.op /\ authReq'[r].status = authReq[r].status
  BY <1>1 DEF rate_limiter_check, AuthOnly, AuthEnd, AuthTo, AuthFields
<1> QED
  BY <1>2, <1>3, <1>4, AuthMoveInv DEF AuthInv, AuthDead

\* Signing in, up to the session that is issued, and the steps about passwords.
LEMMA AuthSignInInv ==
    ASSUME AuthInv, NEW r \in AuthClients,
           \/ start_github_oauth(r) \/ callback_take(r) \/ callback_github_oauth(r)
           \/ register_password_user(r) \/ login_password_user(r)
           \/ change_password_check(r) \/ change_password(r) \/ logout_find(r)
    PROVE  AuthInv'
<1>1. r \in DOMAIN authReq /\ DOMAIN authReq = AuthClients /\ DOMAIN authReq[r] = AuthFields
      /\ authReq[r].call \in AuthCalls \cup {NoCall}
  BY DEF AuthInv, AuthTypeOK
<1>2. UNCHANGED <<refresh, settled>>
  BY DEF start_github_oauth, callback_take, callback_github_oauth, register_password_user,
         login_password_user, change_password_check, change_password, logout_find
<1>3. authReq[r].at \in {"start", "callback", "exchange", "register", "login", "change", "write", "logout"}
  BY DEF start_github_oauth, callback_take, callback_github_oauth, register_password_user,
         login_password_user, change_password_check, change_password, logout_find
<1>4. \/ \E st : authReq' = AuthEnd(r, st)
      \/ \E st, got : authReq' = [AuthEnd(r, st) EXCEPT ![r].got = got]
      \/ \E at \in {"exchange", "write", "leave"} : authReq' = AuthTo(r, at)
      \/ \E user : authReq' = [AuthTo(r, "issue") EXCEPT ![r].user = user]
  <2>1. CASE start_github_oauth(r)
    BY <2>1 DEF start_github_oauth
  <2>2. CASE callback_take(r)
    BY <2>2 DEF callback_take
  <2>3. CASE callback_github_oauth(r)
    BY <2>3 DEF callback_github_oauth
  <2>4. CASE register_password_user(r)
    BY <2>4 DEF register_password_user
  <2>5. CASE login_password_user(r)
    BY <2>5 DEF login_password_user
  <2>6. CASE change_password_check(r)
    BY <2>6 DEF change_password_check
  <2>7. CASE change_password(r)
    BY <2>7 DEF change_password
  <2>8. CASE logout_find(r)
    BY <2>8 DEF logout_find
  <2> QED
    BY <2>1, <2>2, <2>3, <2>4, <2>5, <2>6, <2>7, <2>8
<1>5. /\ AuthOnly(r) /\ authReq'[r].dead = authReq[r].dead /\ authReq'[r].call = authReq[r].call
      /\ authReq'[r].at \in {"done", "exchange", "write", "leave", "issue"}
  <2>1. CASE \E st : authReq' = AuthEnd(r, st)
    BY <1>1, <2>1 DEF AuthOnly, AuthEnd, AuthFields
  <2>2. CASE \E st, got : authReq' = [AuthEnd(r, st) EXCEPT ![r].got = got]
    BY <1>1, <2>2 DEF AuthOnly, AuthEnd, AuthFields
  <2>3. CASE \E at \in {"exchange", "write", "leave"} : authReq' = AuthTo(r, at)
    BY <1>1, <2>3 DEF AuthOnly, AuthTo, AuthFields
  <2>4. CASE \E user : authReq' = [AuthTo(r, "issue") EXCEPT ![r].user = user]
    BY <1>1, <2>4 DEF AuthOnly, AuthTo, AuthFields
  <2> QED
    BY <1>4, <2>1, <2>2, <2>3, <2>4
<1> QED
  BY <1>2, <1>3, <1>5, AuthPlainInv

\* A session is issued: to someone who signed in, or in place of the one that was rotated.
LEMMA AuthGrantInv ==
    ASSUME AuthInv, NEW r \in AuthClients, issue_auth_session(r) \/ handle_token_refresh(r)
    PROVE  AuthInv'
<1>1. r \in DOMAIN authReq /\ DOMAIN authReq = AuthClients /\ DOMAIN authReq[r] = AuthFields
      /\ authReq[r].call \in AuthCalls \cup {NoCall}
  BY DEF AuthInv, AuthTypeOK
<1> DEFINE q == [AuthEnd(r, "ok") EXCEPT
                    ![r].got = NextSession,
                    ![r].access = issue_workspace_token_at(authReq[r].user, authTime)]
<1>2. authReq' = q /\ UNCHANGED settled /\ authReq[r].at \in {"issue", "reissue"}
  BY DEF issue_auth_session, handle_token_refresh
<1>3. AuthOnly(r) /\ authReq'[r].at = "done" /\ authReq'[r].dead = authReq[r].dead
  BY <1>1, <1>2 DEF AuthOnly, AuthEnd, AuthFields
<1>4. ~authReq[r].dead
  BY <1>2 DEF AuthInv, AuthDead
<1>5. CASE issue_auth_session(r)
  <2>1. refresh' = insert_session(NextSession, authReq[r].user, NextSession, authTime)
    BY <1>5 DEF issue_auth_session
  <2> QED
    BY <1>2, <1>3, <1>4, <2>1, AuthIssueInv DEF AuthOnly
<1>6. CASE handle_token_refresh(r)
  <2>1. /\ refresh' = insert_session(NextSession, authReq[r].user, authReq[r].family, authTime)
        /\ authReq[r].at = "reissue"
    BY <1>6 DEF handle_token_refresh
  <2>2. authReq[r].family \in DOMAIN refresh /\ authReq[r].family \notin settled
    BY <2>1 DEF AuthInv, AuthFamilies, AuthNoneUnderWay
  <2> QED
    BY <1>2, <1>3, <1>4, <2>1, <2>2, AuthIssueInv DEF AuthOnly
<1> QED
  BY <1>5, <1>6

\* The session is looked up: a dead one takes the request to the end of its family.
LEMMA AuthFindInv == ASSUME AuthInv, NEW r \in AuthClients, refresh_find(r) PROVE AuthInv'
<1>1. r \in DOMAIN authReq /\ DOMAIN authReq = AuthClients /\ DOMAIN authReq[r] = AuthFields
      /\ authReq[r].call \in AuthCalls \cup {NoCall}
  BY DEF AuthInv, AuthTypeOK
<1>2. UNCHANGED <<refresh, settled>>
  BY DEF refresh_find
<1> DEFINE token == authReq[r].call.token
<1>3. CASE \/ authReq' = AuthEnd(r, "invalid") /\ token \notin DOMAIN refresh
           \/ authReq' = AuthEnd(r, "expired")
  <2>1. /\ AuthOnly(r) /\ authReq'[r].dead = authReq[r].dead /\ authReq'[r].call = authReq[r].call
        /\ authReq'[r].at = "done" /\ authReq'[r].status # "ok"
    BY <1>1, <1>3 DEF AuthOnly, AuthEnd, AuthFields
  <2> QED
    BY <1>2, <2>1, AuthMoveInv DEF AuthInv, AuthDead
<1>4. CASE /\ token \in DOMAIN refresh
           /\ authReq' = [AuthTo(r, "reuse") EXCEPT ![r].family = refresh[token].family]
  <2>1. /\ AuthOnly(r) /\ authReq'[r].dead = authReq[r].dead /\ authReq'[r].call = authReq[r].call
        /\ authReq'[r].at = "reuse" /\ authReq'[r].status = authReq[r].status
        /\ authReq'[r].family = refresh[token].family
    BY <1>1, <1>4 DEF AuthOnly, AuthTo, AuthFields
  <2>2. refresh[token].family \in DOMAIN refresh
    BY <1>4 DEF AuthInv, AuthFamilies
  <2> QED
    BY <1>2, <2>1, <2>2, AuthMoveInv DEF AuthInv, AuthDead
<1>5. CASE /\ token \in DOMAIN refresh /\ ~refresh[token].revoked
           /\ authReq' = [AuthTo(r, "rotate") EXCEPT ![r].family = refresh[token].family,
                                                     ![r].user = refresh[token].user]
  <2>1. /\ AuthOnly(r) /\ authReq'[r].dead = authReq[r].dead /\ authReq'[r].call = authReq[r].call
        /\ authReq'[r].at = "rotate" /\ authReq'[r].family = refresh[token].family
    BY <1>1, <1>5 DEF AuthOnly, AuthTo, AuthFields
  <2>2. refresh[token].family \in DOMAIN refresh /\ refresh[token].family \notin settled
    BY <1>5 DEF AuthInv, AuthFamilies, AuthFamilyEnds
  <2>3. ~authReq[r].dead
    BY <1>5 DEF AuthInv, AuthDead
  <2> QED
    BY <1>2, <2>1, <2>2, <2>3, AuthMoveInv
<1> QED
  BY <1>3, <1>4, <1>5 DEF refresh_find, find_by_hash

\* The family of a token that was used again is over, unless a refresh of it is under way.
LEMMA AuthReuseInv == ASSUME AuthInv, NEW r \in AuthClients, refresh_reuse(r) PROVE AuthInv'
<1>1. r \in DOMAIN authReq /\ DOMAIN authReq = AuthClients /\ DOMAIN authReq[r] = AuthFields
      /\ authReq[r].call \in AuthCalls \cup {NoCall}
  BY DEF AuthInv, AuthTypeOK
<1> DEFINE f == authReq[r].family
           underWay == \E x \in AuthClients :
                          authReq[x].family = f /\ authReq[x].at \in {"rotate", "reissue"}
           F == IF underWay THEN {} ELSE {f}
<1>2. /\ AuthOnly(r) /\ authReq'[r].dead = authReq[r].dead /\ authReq'[r].call = authReq[r].call
      /\ authReq'[r].at = "done" /\ authReq'[r].status # "ok"
  BY <1>1 DEF refresh_reuse, AuthOnly, AuthEnd, AuthFields
<1>3. /\ DOMAIN refresh' = DOMAIN refresh
      /\ \A s \in DOMAIN refresh :
            /\ DOMAIN refresh'[s] = SessionFields
            /\ refresh'[s].family = refresh[s].family
            /\ refresh[s].revoked => refresh'[s].revoked
            /\ refresh[s].family = f => refresh'[s].revoked
  BY DEF refresh_reuse, revoke_family, SessionFields, AuthInv, AuthTypeOK
<1>4. settled' = settled \cup F
  BY DEF refresh_reuse
<1>5. f \in DOMAIN refresh
  BY DEF refresh_reuse, AuthInv, AuthFamilies
<1>6. \A g \in F :
         /\ g \in DOMAIN refresh
         /\ \A x \in AuthClients : authReq[x].at \in {"rotate", "reissue"} => authReq[x].family # g
         /\ \A s \in DOMAIN refresh : refresh[s].family = g => refresh'[s].revoked
  BY <1>3, <1>5
<1>7. authReq'[r].dead => /\ authReq'[r].call.op = "refresh"
                         /\ authReq'[r].call.token \in DOMAIN refresh
                         /\ refresh[authReq'[r].call.token].revoked
  BY <1>2 DEF AuthInv, AuthDead
<1> HIDE DEF F
<1> QED
  BY <1>2, <1>3, <1>4, <1>6, <1>7, AuthRevokeInv

\* One session is revoked: the one that is rotated, or logged out.
LEMMA AuthLeaveInv ==
    ASSUME AuthInv, NEW r \in AuthClients, refresh_rotate(r) \/ handle_logout(r)
    PROVE  AuthInv'
<1>1. r \in DOMAIN authReq /\ DOMAIN authReq = AuthClients /\ DOMAIN authReq[r] = AuthFields
      /\ authReq[r].call \in AuthCalls \cup {NoCall}
  BY DEF AuthInv, AuthTypeOK
<1>2. refresh' = revoke_session(authReq[r].call.token) /\ UNCHANGED settled
  BY DEF refresh_rotate, handle_logout
<1>3. /\ DOMAIN refresh' = DOMAIN refresh
      /\ \A s \in DOMAIN refresh :
            /\ DOMAIN refresh'[s] = SessionFields
            /\ refresh'[s].family = refresh[s].family
            /\ refresh[s].revoked => refresh'[s].revoked
  BY <1>2 DEF revoke_session, SessionFields, AuthInv, AuthTypeOK
<1>4. /\ AuthOnly(r) /\ authReq'[r].dead = authReq[r].dead
      /\ authReq'[r].at \in {"done", "reissue"}
      /\ authReq'[r].at = "reissue" => /\ authReq'[r].family = authReq[r].family
                                       /\ authReq[r].at \in {"rotate", "reissue"}
  BY <1>1 DEF refresh_rotate, handle_logout, AuthOnly, AuthTo, AuthEnd, AuthFields
<1>5. ~authReq[r].dead
  BY DEF refresh_rotate, handle_logout, AuthInv, AuthDead
<1> DEFINE F == {}
<1>6. settled' = settled \cup F /\ \A f \in F : FALSE
  BY <1>2
<1> HIDE DEF F
<1> QED
  BY <1>3, <1>4, <1>5, <1>6, AuthRevokeInv

LEMMA AuthNextInv == AuthInv /\ [AuthNext]_authVars => AuthInv'
<1>1. ASSUME AuthInv, UNCHANGED <<refresh, settled, authReq>> PROVE AuthInv'
  BY <1>1 DEF AuthInv, AuthTypeOK, AuthFamilies, AuthNoneUnderWay, AuthDead, AuthFamilyEnds
<1>2. ASSUME AuthInv, NEW r \in AuthClients, AuthStep(r) PROVE AuthInv'
  BY <1>2, AuthRateInv, AuthSignInInv, AuthGrantInv, AuthFindInv, AuthReuseInv, AuthLeaveInv DEF AuthStep
<1> QED
  BY <1>1, <1>2, AuthBeginInv DEF AuthNext, AuthTick, authVars

\* A refresh token that was rotated, logged out or revoked with its family
\* before a request was made gets that request nothing, and a family whose
\* reuse was detected while no refresh of it was under way never again has a
\* good token (handle_token_refresh, RefreshTokenStore::revoke_family).
THEOREM TokensDieHolds == RestSpec => []TokensDie
<1>1. RestInit => AuthInv
  BY AuthInitInv DEF RestInit
<1>2. AuthInv /\ [RestNext]_<<part, contentVars, accessVars>> => AuthInv'
  <2>1. ASSUME UNCHANGED authVars, AuthInv PROVE AuthInv'
    BY <2>1, AuthNextInv
  <2> QED
    BY <2>1, AuthNextInv DEF RestNext, accessVars
<1>3. AuthInv => TokensDie
  BY DEF AuthInv, AuthDead, AuthDeadTokenRefused, TokensDie
<1> QED
  BY <1>1, <1>2, <1>3, PTL DEF RestSpec

-----------------------------------------------------------------------------
(* Retries.  Two requests with one key may both run; which answer is kept  *)
(* depends on when each inserts its row, and on the clock.  The invariant  *)
(* ties every row to the run it answers, and every answer that was         *)
(* replayed to a row that is there until it expires.                       *)

IdemRun == [scope : IdemScopes, key : IdemKeys, body : IdemBodies]

IdemFields == {"at", "scope", "key", "body", "answer", "status"}

IdemTypeOK ==
    /\ idemStore \in {"db", "memory"}
    /\ idemTime \in Nat
    /\ idemRuns \in Seq(IdemRun)
    /\ DOMAIN idemReq = IdemClients
    /\ \A r \in IdemClients :
          /\ DOMAIN idemReq[r] = IdemFields
          /\ idemReq[r].at # "idle" => /\ idemReq[r].scope \in IdemScopes
                                       /\ idemReq[r].key \in IdemKeys
                                       /\ idemReq[r].body \in IdemBodies

\* A request that ran has the answer of its own run.
IdemRan ==
    \A r \in IdemClients : idemReq[r].at \in {"store", "insert"} =>
        /\ idemReq[r].answer \in DOMAIN idemRuns
        /\ idemRuns[idemReq[r].answer].scope = idemReq[r].scope
        /\ idemRuns[idemReq[r].answer].key = idemReq[r].key
        /\ idemRuns[idemReq[r].answer].body = idemReq[r].body

\* A row has the answer of a run that went by its key, with the body it was given.
IdemRowsFit ==
    \A k \in DOMAIN idemRows :
        /\ idemRows[k].expires \in Int
        /\ idemRows[k].answer \in DOMAIN idemRuns
        /\ idemRuns[idemRows[k].answer].key = k[2]
        /\ idemRuns[idemRows[k].answer].body = idemRows[k].hash
        /\ idemStore = "db" => idemRuns[idemRows[k].answer].scope = k[1]

\* The row that an answer was replayed from stays until it expires.
IdemReplaysKept ==
    \A x \in replays :
        /\ x.at \in Int /\ x.until \in Int /\ x.at <= idemTime /\ x.at < x.until
        /\ idemStore = "db" /\ x.until > idemTime =>
              /\ <<x.scope, x.key>> \in DOMAIN idemRows
              /\ idemRows[<<x.scope, x.key>>].answer = x.answer
              /\ idemRows[<<x.scope, x.key>>].expires = x.until

IdemInv ==
    IdemTypeOK /\ IdemRan /\ IdemRowsFit /\ IdemReplaysKept /\ IdemReplaysAgree /\ IdemReplayFits

LEMMA IdemInitInv == IdemInit => IdemInv
<1> SUFFICES ASSUME IdemInit PROVE IdemInv
  OBVIOUS
<1>1. /\ DOMAIN idemRows = {} /\ replays = {} /\ idemRuns = <<>> /\ idemTime = 0
      /\ idemStore \in {"db", "memory"}
  BY DEF IdemInit
<1>2. /\ DOMAIN idemReq = IdemClients
      /\ \A r \in IdemClients : DOMAIN idemReq[r] = IdemFields /\ idemReq[r].at = "idle"
  BY DEF IdemInit, IdemIdle, IdemFields
<1>3. IdemTypeOK
  BY <1>1, <1>2 DEF IdemTypeOK
<1>4. IdemRan
  BY <1>2 DEF IdemRan
<1> QED
  BY <1>1, <1>3, <1>4 DEF IdemInv, IdemRowsFit, IdemReplaysKept, IdemReplaysAgree, IdemReplayFits

\* The request of r alone changes, and stays what it asks.
IdemOnly(r) ==
    /\ DOMAIN idemReq' = IdemClients
    /\ DOMAIN idemReq'[r] = IdemFields
    /\ idemReq'[r].scope = idemReq[r].scope /\ idemReq'[r].key = idemReq[r].key
    /\ idemReq'[r].body = idemReq[r].body
    /\ \A x \in IdemClients : x # r => idemReq'[x] = idemReq[x]

\* A request moves on without a new run.
LEMMA IdemMoveTyped ==
    ASSUME IdemInv, NEW r \in IdemClients, IdemOnly(r), UNCHANGED <<idemStore, idemTime, idemRuns>>,
           idemReq[r].at # "idle",
           idemReq'[r].at \in {"store", "insert"} => /\ idemReq[r].at \in {"store", "insert"}
                                                    /\ idemReq'[r].answer = idemReq[r].answer
    PROVE  IdemTypeOK' /\ IdemRan'
<1>1. IdemTypeOK'
  BY DEF IdemInv, IdemTypeOK, IdemOnly
<1>2. IdemRan'
  BY DEF IdemInv, IdemRan, IdemOnly
<1> QED
  BY <1>1, <1>2

\* The rows and the answers told are as they were, but for rows that came or expired.
LEMMA IdemRowsInv ==
    ASSUME IdemInv, UNCHANGED <<idemStore, idemTime, idemRuns, replays>>,
           IdemTypeOK', IdemRan', IdemRowsFit',
           idemStore = "db" => \A k \in DOMAIN idemRows : idemRows[k].expires > idemTime =>
                                  k \in DOMAIN idemRows' /\ idemRows'[k] = idemRows[k]
    PROVE  IdemInv'
<1>1. IdemReplaysKept'
  BY DEF IdemInv, IdemReplaysKept
<1>2. IdemReplaysAgree' /\ IdemReplayFits'
  BY DEF IdemInv, IdemReplaysAgree, IdemReplayFits
<1> QED
  BY <1>1, <1>2 DEF IdemInv

LEMMA IdemBeginInv ==
    ASSUME IdemInv, NEW r \in IdemClients, NEW s \in IdemScopes, NEW k \in IdemKeys, NEW b \in IdemBodies,
           IdemBegin(r, s, k, b)
    PROVE  IdemInv'
<1>1. /\ DOMAIN idemReq' = IdemClients
      /\ DOMAIN idemReq'[r] = IdemFields /\ idemReq'[r].at = "lookup"
      /\ idemReq'[r].scope = s /\ idemReq'[r].key = k /\ idemReq'[r].body = b
      /\ \A x \in IdemClients : x # r => idemReq'[x] = idemReq[x]
  BY DEF IdemBegin, IdemIdle, IdemFields, IdemInv, IdemTypeOK
<1>2. UNCHANGED <<idemStore, idemRows, idemRuns, replays, idemTime>>
  BY DEF IdemBegin
<1>3. IdemTypeOK' /\ IdemRan'
  <2>1. IdemTypeOK'
    BY <1>1, <1>2 DEF IdemInv, IdemTypeOK
  <2>2. IdemRan'
    BY <1>1, <1>2 DEF IdemInv, IdemRan
  <2> QED
    BY <2>1, <2>2
<1>4. IdemRowsFit'
  BY <1>2 DEF IdemInv, IdemRowsFit
<1> QED
  BY <1>2, <1>3, <1>4, IdemRowsInv

\* The answer of a live row is told to a request with the body it was given.
LEMMA IdemReplayInv ==
    ASSUME IdemInv, NEW r \in IdemClients, UNCHANGED <<idemStore, idemRows, idemTime, idemRuns>>,
           IdemTypeOK', IdemRan', NEW k, k = request_scope(r), k \in DOMAIN idemRows,
           idemRows[k].expires > idemTime, idemRows[k].hash = idemReq[r].body,
           NEW y, replays' = replays \cup {y},
           y.scope = idemReq[r].scope, y.key = idemReq[r].key, y.body = idemReq[r].body,
           y.at = idemTime, y.answer = idemRows[k].answer, y.until = idemRows[k].expires
    PROVE  IdemInv'
<1>1. IdemRowsFit'
  BY DEF IdemInv, IdemRowsFit
<1>2. k[2] = y.key /\ (idemStore = "db" => k = <<y.scope, y.key>> /\ k[1] = y.scope)
  BY DEF request_scope
<1>3. idemTime \in Int /\ idemRows[k].expires \in Int
  BY DEF IdemInv, IdemTypeOK, IdemRowsFit
<1>4. IdemReplaysKept'
  <2>1. \A x \in replays' : x \in replays \/ x = y
    OBVIOUS
  <2>2. y.at \in Int /\ y.until \in Int /\ y.at <= idemTime /\ y.at < y.until
    BY <1>3
  <2>3. idemStore = "db" => /\ <<y.scope, y.key>> \in DOMAIN idemRows
                            /\ idemRows[<<y.scope, y.key>>].answer = y.answer
                            /\ idemRows[<<y.scope, y.key>>].expires = y.until
    BY <1>2
  <2> QED
    BY <2>1, <2>2, <2>3 DEF IdemInv, IdemReplaysKept
<1>5. IdemReplayFits'
  <2>1. y.answer \in DOMAIN idemRuns /\ idemRuns[y.answer].key = y.key /\ idemRuns[y.answer].body = y.body
        /\ (idemStore = "db" => idemRuns[y.answer].scope = y.scope)
    BY <1>2 DEF IdemInv, IdemRowsFit
  <2> QED
    BY <2>1 DEF IdemInv, IdemReplayFits
<1>6. IdemReplaysAgree'
  <2> SUFFICES ASSUME idemStore = "db", NEW u \in replays', NEW v \in replays',
                      u.scope = v.scope, u.key = v.key, u.at <= v.at, v.at < u.until
               PROVE  u.answer = v.answer
    BY DEF IdemReplaysAgree
  <2>1. \A x \in replays : x.scope = y.scope /\ x.key = y.key /\ x.until > idemTime => x.answer = y.answer
    BY <1>2 DEF IdemInv, IdemReplaysKept
  <2>2. CASE u \in replays /\ v \in replays
    BY <2>2 DEF IdemInv, IdemReplaysAgree
  <2>3. CASE u \in replays /\ v = y
    BY <2>1, <2>3, <1>3 DEF IdemInv, IdemReplaysKept
  <2>4. CASE u = y /\ v \in replays
    <3>1. v.at \in Int /\ v.until \in Int /\ v.at <= idemTime /\ v.at < v.until
      BY <2>4 DEF IdemInv, IdemReplaysKept
    <3>2. idemTime <= v.at
      BY <2>4
    <3>3. v.until > idemTime
      BY <3>1, <3>2, <1>3
    <3> QED
      BY <2>1, <2>4, <3>3
  <2> QED
    BY <2>2, <2>3, <2>4
<1> QED
  BY <1>1, <1>4, <1>5, <1>6 DEF IdemInv

LEMMA IdemLookupInv == ASSUME IdemInv, NEW r \in IdemClients, idem_lookup(r) PROVE IdemInv'
<1> DEFINE k == request_scope(r)
           hit == load_entry(k)
<1>1. r \in DOMAIN idemReq /\ DOMAIN idemReq = IdemClients /\ DOMAIN idemReq[r] = IdemFields
  BY DEF IdemInv, IdemTypeOK
<1>2. UNCHANGED <<idemStore, idemRows, idemRuns, idemTime>> /\ idemReq[r].at = "lookup"
  BY DEF idem_lookup
<1>3. CASE hit /\ idemRows[k].hash = idemReq[r].body
  <2> DEFINE y == [scope |-> idemReq[r].scope, key |-> idemReq[r].key,
                   body |-> idemReq[r].body, at |-> idemTime,
                   answer |-> idemRows[k].answer, until |-> idemRows[k].expires]
  <2>1. /\ idemReq' = [IdemEnd(r, "replay") EXCEPT ![r].answer = idemRows[k].answer]
        /\ replays' = replays \cup {y}
    BY <1>3 DEF idem_lookup
  <2>2. IdemOnly(r) /\ idemReq'[r].at = "done"
    BY <1>1, <2>1 DEF IdemOnly, IdemEnd, IdemFields
  <2>3. IdemTypeOK' /\ IdemRan'
    BY <1>2, <2>2, IdemMoveTyped
  <2>4. /\ y.scope = idemReq[r].scope /\ y.key = idemReq[r].key /\ y.body = idemReq[r].body
        /\ y.at = idemTime /\ y.answer = idemRows[k].answer /\ y.until = idemRows[k].expires
    OBVIOUS
  <2>5. k = request_scope(r) /\ k \in DOMAIN idemRows /\ idemRows[k].expires > idemTime
        /\ idemRows[k].hash = idemReq[r].body
    BY <1>3 DEF load_entry, Live
  <2> HIDE DEF y, k
  <2> QED
    BY <1>2, <2>1, <2>3, <2>4, <2>5, IdemReplayInv
<1>4. CASE ~(hit /\ idemRows[k].hash = idemReq[r].body)
  <2>1. UNCHANGED replays
        /\ (idemReq' = IdemEnd(r, "conflict") \/ idemReq' = IdemTo(r, "handler"))
    BY <1>4 DEF idem_lookup
  <2>2. IdemOnly(r) /\ idemReq'[r].at \in {"done", "handler"}
    BY <1>1, <2>1 DEF IdemOnly, IdemEnd, IdemTo, IdemFields
  <2>3. IdemTypeOK' /\ IdemRan'
    BY <1>2, <2>2, IdemMoveTyped
  <2>4. IdemRowsFit'
    BY <1>2 DEF IdemInv, IdemRowsFit
  <2> QED
    BY <1>2, <2>1, <2>3, <2>4, IdemRowsInv
<1> QED
  BY <1>3, <1>4

\* The middleware goes on without its table.
LEMMA IdemWithoutInv ==
    ASSUME IdemInv, NEW r \in IdemClients, idem_lookup_fails(r) \/ idem_not_kept(r)
    PROVE  IdemInv'
<1>1. r \in DOMAIN idemReq /\ DOMAIN idemReq = IdemClients /\ DOMAIN idemReq[r] = IdemFields
  BY DEF IdemInv, IdemTypeOK
<1>2. UNCHANGED <<idemStore, idemRows, idemRuns, replays, idemTime>> /\ idemReq[r].at # "idle"
  BY DEF idem_lookup_fails, idem_not_kept
<1>3. IdemOnly(r) /\ idemReq'[r].at \in {"done", "handler"}
  BY <1>1 DEF IdemOnly, idem_lookup_fails, idem_not_kept, IdemEnd, IdemTo, IdemFields
<1>4. IdemTypeOK' /\ IdemRan'
  BY <1>2, <1>3, IdemMoveTyped
<1>5. IdemRowsFit'
  BY <1>2 DEF IdemInv, IdemRowsFit
<1> QED
  BY <1>2, <1>4, <1>5, IdemRowsInv

LEMMA IdemHandlerInv == ASSUME IdemInv, NEW r \in IdemClients, idem_handler(r) PROVE IdemInv'
<1>1. /\ r \in DOMAIN idemReq /\ DOMAIN idemReq = IdemClients /\ DOMAIN idemReq[r] = IdemFields
      /\ idemReq[r].at = "handler" /\ idemRuns \in Seq(IdemRun)
  BY DEF IdemInv, IdemTypeOK, idem_handler
<1>2. UNCHANGED <<idemStore, idemRows, replays, idemTime>>
  BY DEF idem_handler
<1> DEFINE run == [scope |-> idemReq[r].scope, key |-> idemReq[r].key, body |-> idemReq[r].body]
<1>3. run \in IdemRun /\ run.scope = idemReq[r].scope /\ run.key = idemReq[r].key /\ run.body = idemReq[r].body
  BY <1>1 DEF IdemInv, IdemTypeOK, IdemRun
<1>4. idemRuns' = Append(idemRuns, run)
  BY DEF idem_handler
<1> HIDE DEF run
<1>5. /\ idemRuns' \in Seq(IdemRun) /\ Len(idemRuns') \in DOMAIN idemRuns'
      /\ idemRuns'[Len(idemRuns')] = run
      /\ \A a \in DOMAIN idemRuns : a \in DOMAIN idemRuns' /\ idemRuns'[a] = idemRuns[a]
  BY <1>1, <1>3, <1>4
<1>6. IdemOnly(r) /\ idemReq'[r].at = "store" /\ idemReq'[r].answer = Len(idemRuns')
  <2> DEFINE n == Len(idemRuns')
  <2>1. idemReq' = [IdemTo(r, "store") EXCEPT ![r].answer = n]
    BY DEF idem_handler
  <2> HIDE DEF n
  <2>2. IdemOnly(r) /\ idemReq'[r].at = "store" /\ idemReq'[r].answer = n
    BY <1>1, <2>1 DEF IdemOnly, IdemTo, IdemFields
  <2> QED
    BY <2>2 DEF n
<1>7. IdemTypeOK'
  BY <1>1, <1>2, <1>5, <1>6 DEF IdemInv, IdemTypeOK, IdemOnly
<1>8. IdemRan'
  BY <1>1, <1>3, <1>5, <1>6 DEF IdemInv, IdemRan, IdemOnly
<1>9. IdemRowsFit'
  BY <1>2, <1>5 DEF IdemInv, IdemRowsFit
<1>10. IdemReplaysKept' /\ IdemReplaysAgree'
  BY <1>2 DEF IdemInv, IdemReplaysKept, IdemReplaysAgree
<1>11. IdemReplayFits'
  BY <1>2, <1>5 DEF IdemInv, IdemReplayFits
<1> QED
  BY <1>7, <1>8, <1>9, <1>10, <1>11 DEF IdemInv

\* Only a row that has expired makes room.
LEMMA IdemDeleteInv == ASSUME IdemInv, NEW r \in IdemClients, idem_delete_expired(r) PROVE IdemInv'
<1>1. r \in DOMAIN idemReq /\ DOMAIN idemReq = IdemClients /\ DOMAIN idemReq[r] = IdemFields
  BY DEF IdemInv, IdemTypeOK
<1>2. UNCHANGED <<idemStore, idemRuns, replays, idemTime>> /\ idemReq[r].at = "store"
  BY DEF idem_delete_expired
<1>3. IdemOnly(r) /\ idemReq'[r].at = "insert" /\ idemReq'[r].answer = idemReq[r].answer
  BY <1>1 DEF IdemOnly, idem_delete_expired, IdemTo, IdemFields
<1>4. IdemTypeOK' /\ IdemRan'
  BY <1>2, <1>3, IdemMoveTyped
<1>5. /\ \A k \in DOMAIN idemRows : idemRows[k].expires > idemTime =>
             k \in DOMAIN idemRows' /\ idemRows'[k] = idemRows[k]
      /\ \A k \in DOMAIN idemRows' : k \in DOMAIN idemRows /\ idemRows'[k] = idemRows[k]
  BY DEF idem_delete_expired, Without, Live
<1>6. IdemRowsFit'
  BY <1>2, <1>5 DEF IdemInv, IdemRowsFit
<1> QED
  BY <1>2, <1>4, <1>5, <1>6, IdemRowsInv

\* In Postgres a row that is there stays; the map takes the later answer.
LEMMA IdemInsertInv == ASSUME IdemInv, NEW r \in IdemClients, idem_insert(r) PROVE IdemInv'
<1>1. r \in DOMAIN idemReq /\ DOMAIN idemReq = IdemClients /\ DOMAIN idemReq[r] = IdemFields
  BY DEF IdemInv, IdemTypeOK
<1>2. UNCHANGED <<idemStore, idemRuns, replays, idemTime>> /\ idemReq[r].at \in {"store", "insert"}
  BY DEF idem_insert
<1>3. IdemOnly(r) /\ idemReq'[r].at = "done"
  BY <1>1 DEF IdemOnly, idem_insert, IdemEnd, IdemFields
<1>4. IdemTypeOK' /\ IdemRan'
  BY <1>2, <1>3, IdemMoveTyped
<1> DEFINE k == request_scope(r)
           row == NewRow(r)
<1>5. /\ row.expires \in Int /\ row.answer = idemReq[r].answer /\ row.hash = idemReq[r].body
      /\ k[2] = idemReq[r].key /\ (idemStore = "db" => k[1] = idemReq[r].scope)
  <2>1. idemTime + IdemTtl \in Int
    BY IdemTtlAssumption DEF IdemInv, IdemTypeOK
  <2> QED
    BY <2>1 DEF NewRow, request_scope
<1>6. /\ idemStore = "db" => idemRows' = insert_db_entry(k, row)
      /\ idemStore # "db" => idemRows' = Insert(idemRows, k, row)
  BY DEF idem_insert, insert_memory
<1> HIDE DEF k, row
<1>7. /\ idemStore = "db" => \A x \in DOMAIN idemRows : x \in DOMAIN idemRows' /\ idemRows'[x] = idemRows[x]
      /\ \A x \in DOMAIN idemRows' : \/ x = k /\ idemRows'[x] = row
                                     \/ x \in DOMAIN idemRows /\ idemRows'[x] = idemRows[x]
  BY <1>6 DEF insert_db_entry, Insert
<1>8. IdemRowsFit'
  BY <1>2, <1>5, <1>7 DEF IdemInv, IdemRowsFit, IdemRan
<1> QED
  BY <1>2, <1>4, <1>7, <1>8, IdemRowsInv

LEMMA IdemEvictInv == ASSUME IdemInv, evict_expired PROVE IdemInv'
<1>1. UNCHANGED <<idemStore, idemReq, idemRuns, replays, idemTime>> /\ idemStore = "memory"
  BY DEF evict_expired
<1>2. \A k \in DOMAIN idemRows' : k \in DOMAIN idemRows /\ idemRows'[k] = idemRows[k]
  BY DEF evict_expired
<1>3. IdemTypeOK' /\ IdemRan'
  BY <1>1 DEF IdemInv, IdemTypeOK, IdemRan
<1>4. IdemRowsFit'
  BY <1>1, <1>2 DEF IdemInv, IdemRowsFit
<1> QED
  BY <1>1, <1>3, <1>4, IdemRowsInv

LEMMA IdemTickInv == ASSUME IdemInv, IdemTick PROVE IdemInv'
<1>1. /\ UNCHANGED <<idemStore, idemRows, idemReq, idemRuns, replays>>
      /\ idemTime \in Nat /\ idemTime' = idemTime + 1
  BY DEF IdemTick, IdemInv, IdemTypeOK
<1>2. IdemTypeOK' /\ IdemRan' /\ IdemRowsFit' /\ IdemReplaysAgree' /\ IdemReplayFits'
  BY <1>1 DEF IdemInv, IdemTypeOK, IdemRan, IdemRowsFit, IdemReplaysAgree, IdemReplayFits
<1>3. IdemReplaysKept'
  <2>1. \A x \in replays : /\ x.at \in Int /\ x.until \in Int /\ x.at <= idemTime' /\ x.at < x.until
                           /\ x.until > idemTime' => x.until > idemTime
    <3> SUFFICES ASSUME NEW x \in replays
                 PROVE  /\ x.at \in Int /\ x.until \in Int /\ x.at <= idemTime' /\ x.at < x.until
                        /\ x.until > idemTime' => x.until > idemTime
      OBVIOUS
    <3>1. x.at \in Int /\ x.until \in Int /\ x.at <= idemTime /\ x.at < x.until
      BY DEF IdemInv, IdemReplaysKept
    <3> QED
      BY <1>1, <3>1
  <2> QED
    BY <1>1, <2>1 DEF IdemInv, IdemReplaysKept
<1> QED
  BY <1>2, <1>3 DEF IdemInv

LEMMA IdemNextInv == IdemInv /\ [IdemNext]_idemVars => IdemInv'
<1>1. ASSUME IdemInv, UNCHANGED idemVars PROVE IdemInv'
  BY <1>1 DEF idemVars, IdemInv, IdemTypeOK, IdemRan, IdemRowsFit, IdemReplaysKept, IdemReplaysAgree,
              IdemReplayFits
<1>2. ASSUME IdemInv, NEW r \in IdemClients, IdemStep(r) PROVE IdemInv'
  BY <1>2, IdemLookupInv, IdemWithoutInv, IdemHandlerInv, IdemDeleteInv, IdemInsertInv DEF IdemStep
<1> QED
  BY <1>1, <1>2, IdemBeginInv, IdemEvictInv, IdemTickInv DEF IdemNext

\* Once an answer was replayed from Postgres, every later replay for the key
\* gives the same one until it expires, though requests with the key run side
\* by side and a statement of the middleware may fail anywhere; and an answer
\* is only ever replayed to a request like the one that was run
\* (idempotency_db_middleware, insert_db_entry).
THEOREM RetriesToldHolds == RestSpec => []RetriesTold
<1>1. RestInit => IdemInv
  BY IdemInitInv DEF RestInit
<1>2. IdemInv /\ [RestNext]_<<part, contentVars, accessVars>> => IdemInv'
  <2>1. ASSUME UNCHANGED idemVars, IdemInv PROVE IdemInv'
    BY <2>1, IdemNextInv
  <2> QED
    BY <2>1, IdemNextInv DEF RestNext, contentVars
<1>3. IdemInv => RetriesTold
  BY DEF IdemInv, RetriesTold
<1> QED
  BY <1>1, <1>2, <1>3, PTL DEF RestSpec

-----------------------------------------------------------------------------
(* Workspaces.  An update is lost if two were made of one updated_at; the  *)
(* invariant is that every update carried out is older than the workspace  *)
(* as it is.  The owner who asks for a change of a member is an owner      *)
(* still when it is made, if nobody else is at work.                       *)

WsFields == {"at", "call", "read", "used", "status"}

WsTypeOK ==
    /\ wsTick \in Nat
    /\ DOMAIN wss \subseteq WsIds /\ 1 \in DOMAIN wss
    /\ \A w \in DOMAIN wss : DOMAIN wss[w] = {"slug", "created", "updated"} /\ wss[w].updated \in 0..wsTick
    /\ \A k \in DOMAIN members : DOMAIN members[k] = {"role", "status", "joined"} /\ members[k].role \in Roles
    /\ \A i \in DOMAIN invites :
          DOMAIN invites[i] = {"ws", "role", "expires", "accepted"} /\ invites[i].role \in {"editor", "viewer"}
    /\ wsUpdates \in Seq(WsIds \X Nat)
    /\ DOMAIN wsReq = WsUsers
    /\ \A u \in WsUsers : DOMAIN wsReq[u] = WsFields /\ wsReq[u].used \in BOOLEAN
    /\ wsPast \in [raced : BOOLEAN, joined : BOOLEAN]

\* What was updated has been replaced.
WsUpdatesOld ==
    \A j \in DOMAIN wsUpdates :
        wsUpdates[j][1] \in DOMAIN wss /\ wsUpdates[j][2] < wss[wsUpdates[j][1]].updated

WsOneAtATime ==
    ~wsPast.raced => \A u, v \in WsUsers : WsBusy(u) /\ WsBusy(v) => u = v

WsOwner(u) == IsActive(1, u) /\ members[<<1, u>>].role = "owner"

WsCalm == ~wsPast.raced /\ ~wsPast.joined

WsTaken(i) == i \in DOMAIN invites /\ invites[i].accepted # 0

\* What a request has been checked for before it writes.
WsReqOK(u) ==
    LET at == wsReq[u].at
        c == wsReq[u].call
    IN /\ at = "write" /\ c.op = "update" => c.ws \in DOMAIN wss
       /\ at \in {"op", "write"} /\ c.op = "member" => c.role \in Roles \cup {Keep}
       /\ at = "op" /\ c.op = "invite" => c.role \in {"editor", "viewer"}
       /\ at = "write" /\ c.op = "accept" => c.invite \in DOMAIN invites
       /\ wsReq[u].used => /\ c.op = "accept" /\ WsTaken(c.invite)
                           /\ at \in {"op", "done"} /\ wsReq[u].status # "ok"
       /\ WsCalm /\ at \in {"op", "write"} /\ c.op \in {"member", "remove"} => WsOwner(u) /\ c.user # u

WsReqsOK == \A u \in WsUsers : WsReqOK(u)

WsInv == WsTypeOK /\ WsUpdatesOld /\ WsNoLostUpdate /\ WsOneAtATime /\ WsOwnerRemains /\ WsReqsOK

LEMMA WsInitInv == WsInit => WsInv
<1> SUFFICES ASSUME WsInit PROVE WsInv
  OBVIOUS
<1>1. /\ DOMAIN wsReq = WsUsers
      /\ \A u \in WsUsers : /\ DOMAIN wsReq[u] = WsFields /\ wsReq[u].at = "idle" /\ wsReq[u].used = FALSE
  BY DEF WsInit, WsIdle, WsFields
<1>2. DOMAIN wss = {1} /\ DOMAIN wss[1] = {"slug", "created", "updated"} /\ wss[1].updated = 0
  BY DEF WsInit
<1>3. wsTick = 0 /\ wsUpdates = <<>> /\ DOMAIN invites = {} /\ members = WsInitMembers
  BY DEF WsInit
<1>4. wsPast \in [raced : BOOLEAN, joined : BOOLEAN]
  BY DEF WsInit
<1>5. \A k \in DOMAIN members : DOMAIN members[k] = {"role", "status", "joined"} /\ members[k].role \in Roles
  BY <1>3, WsAssumption
<1>6. WsTypeOK
  <2>1. \A w \in DOMAIN wss : DOMAIN wss[w] = {"slug", "created", "updated"} /\ wss[w].updated \in 0..wsTick
    BY <1>2, <1>3
  <2>2. \A i \in DOMAIN invites :
          DOMAIN invites[i] = {"ws", "role", "expires", "accepted"} /\ invites[i].role \in {"editor", "viewer"}
    BY <1>3
  <2>3. wsUpdates \in Seq(WsIds \X Nat)
    BY <1>3
  <2> QED
    BY <1>1, <1>2, <1>3, <1>4, <1>5, <2>1, <2>2, <2>3, WsAssumption DEF WsTypeOK
<1>7. WsUpdatesOld /\ WsNoLostUpdate
  BY <1>3 DEF WsUpdatesOld, WsNoLostUpdate
<1>8. WsOneAtATime /\ WsReqsOK
  BY <1>1 DEF WsOneAtATime, WsBusy, WsReqsOK, WsReqOK
<1>9. WsOwnerRemains
  BY <1>2, <1>3, WsAssumption DEF WsOwnerRemains, IsActive
<1> QED
  BY <1>6, <1>7, <1>8, <1>9 DEF WsInv

\* The request of u alone changes.
WsOnly(u) ==
    /\ DOMAIN wsReq' = WsUsers
    /\ DOMAIN wsReq'[u] = WsFields /\ wsReq'[u].used \in BOOLEAN
    /\ \A v \in WsUsers : v # u => wsReq'[v] = wsReq[v]

WsSame(u) == wsReq'[u].call = wsReq[u].call /\ wsReq'[u].used = wsReq[u].used

LEMMA WsGotoFacts ==
  ASSUME WsTypeOK, NEW u \in WsUsers, NEW at, wsReq' = WsGoto(u, at)
  PROVE  WsOnly(u) /\ WsSame(u) /\ wsReq'[u].at = at /\ wsReq'[u].status = wsReq[u].status
BY DEF WsTypeOK, WsOnly, WsSame, WsGoto, WsFields

LEMMA WsFinishFacts ==
  ASSUME WsTypeOK, NEW u \in WsUsers, NEW st, wsReq' = WsFinish(u, st)
  PROVE  WsOnly(u) /\ WsSame(u) /\ wsReq'[u].at = "done" /\ wsReq'[u].status = st
BY DEF WsTypeOK, WsOnly, WsSame, WsFinish, WsFields

\* Workspaces and invites stay, and a taken invite stays taken.
WsGrows ==
    /\ DOMAIN wss \subseteq DOMAIN wss'
    /\ DOMAIN invites \subseteq DOMAIN invites'
    /\ \A i \in DOMAIN invites : WsTaken(i) => WsTaken(i)'
    /\ wsPast'.raced = wsPast.raced /\ (wsPast.joined => wsPast'.joined)

\* What a step of u leaves as it was for the others.
LEMMA WsOthersKept ==
  ASSUME WsInv, NEW u \in WsUsers, WsBusy(u), WsOnly(u), WsGrows, WsReqOK(u)'
  PROVE  WsReqsOK' /\ WsOneAtATime'
<1>1. ASSUME NEW v \in WsUsers, v # u PROVE WsReqOK(v)'
  <2>1. wsReq'[v] = wsReq[v] /\ WsReqOK(v)
    BY <1>1 DEF WsOnly, WsInv, WsReqsOK
  <2>2. WsCalm' => ~WsBusy(v)
    BY <1>1 DEF WsCalm, WsGrows, WsInv, WsOneAtATime
  <2>3. ~(WsCalm' /\ wsReq'[v].at \in {"op", "write"})
    BY <2>1, <2>2 DEF WsBusy
  <2>4. \A i : WsTaken(i) => WsTaken(i)'
    BY DEF WsGrows, WsTaken
  <2> QED
    BY <2>1, <2>3, <2>4 DEF WsReqOK, WsGrows
<1>2. WsReqsOK'
  BY <1>1 DEF WsReqsOK
<1>3. WsOneAtATime'
  <2>1. \A v \in WsUsers : WsBusy(v)' => WsBusy(v)
    BY DEF WsOnly, WsBusy
  <2> QED
    BY <2>1 DEF WsGrows, WsInv, WsOneAtATime
<1> QED
  BY <1>2, <1>3

\* A step that only reads.
LEMMA WsReadInv ==
  ASSUME WsInv, NEW u \in WsUsers, WsBusy(u), WsOnly(u), WsReqOK(u)',
         UNCHANGED <<wss, members, invites, wsUpdates, wsPast, wsTick>>
  PROVE  WsInv'
<1>1. WsGrows
  BY DEF WsGrows, WsTaken
<1>2. WsReqsOK' /\ WsOneAtATime'
  BY <1>1, WsOthersKept
<1>3. WsTypeOK'
  BY DEF WsInv, WsTypeOK, WsOnly
<1>4. WsUpdatesOld' /\ WsNoLostUpdate'
  BY DEF WsInv, WsUpdatesOld, WsNoLostUpdate
<1>5. WsOwnerRemains'
  BY DEF WsInv, WsOwnerRemains, IsActive
<1> QED
  BY <1>2, <1>3, <1>4, <1>5 DEF WsInv

LEMMA WsBeginInv ==
  ASSUME WsInv, NEW u \in WsUsers, NEW c \in WsCalls, WsBegin(u, c)
  PROVE  WsInv'
<1>1. PICK k : k = [WsIdle EXCEPT !.at = IF OpenRoute(c.op) THEN "op" ELSE "role", !.call = c,
                                 !.used = /\ c.op = "accept" /\ c.invite \in DOMAIN invites
                                          /\ invites[c.invite].accepted # 0]
  OBVIOUS
<1>2. /\ DOMAIN k = WsFields /\ k.call = c /\ k.status = "none"
      /\ k.at = IF OpenRoute(c.op) THEN "op" ELSE "role"
      /\ k.used = (c.op = "accept" /\ WsTaken(c.invite))
  BY <1>1 DEF WsIdle, WsFields, WsTaken
<1>3. wsReq' = [wsReq EXCEPT ![u] = k]
  BY <1>1 DEF WsBegin
<1>4. /\ UNCHANGED <<wss, members, invites, wsUpdates, wsTick>>
      /\ wsPast' = [wsPast EXCEPT !.raced = @ \/ \E v \in WsUsers : WsBusy(v)]
  BY DEF WsBegin
<1>5. wsReq'[u] = k /\ WsOnly(u)
  BY <1>2, <1>3 DEF WsInv, WsTypeOK, WsOnly
<1>6. /\ wsPast' \in [raced : BOOLEAN, joined : BOOLEAN]
      /\ wsPast.raced => wsPast'.raced
      /\ wsPast'.joined = wsPast.joined
      /\ ~wsPast'.raced => \A v \in WsUsers : ~WsBusy(v)
  BY <1>4 DEF WsInv, WsTypeOK
<1>7. WsTypeOK'
  BY <1>4, <1>5, <1>6 DEF WsInv, WsTypeOK, WsOnly
<1>8. WsUpdatesOld' /\ WsNoLostUpdate' /\ WsOwnerRemains'
  BY <1>4, <1>6 DEF WsInv, WsUpdatesOld, WsNoLostUpdate, WsOwnerRemains, IsActive
<1>9. WsOneAtATime'
  BY <1>5, <1>6 DEF WsOneAtATime, WsOnly, WsBusy
<1>10. WsReqOK(u)'
  <2>1. k.at = "op" => c.op \in {"create", "list", "accept"}
    BY <1>2 DEF OpenRoute
  <2>2. k.at \in {"op", "role"}
    BY <1>2
  <2>3. \A i : WsTaken(i) => WsTaken(i)'
    BY <1>4 DEF WsTaken
  <2>4. k.used => k.at = "op" /\ c.op = "accept" /\ WsTaken(c.invite)
    BY <1>2 DEF OpenRoute
  <2> QED
    BY <1>2, <1>5, <2>1, <2>2, <2>3, <2>4 DEF WsReqOK
<1>11. ASSUME NEW v \in WsUsers, v # u PROVE WsReqOK(v)'
  <2>1. wsReq'[v] = wsReq[v] /\ WsReqOK(v)
    BY <1>11, <1>5 DEF WsOnly, WsInv, WsReqsOK
  <2>2. ~(WsCalm' /\ wsReq'[v].at \in {"op", "write"})
    BY <2>1, <1>6 DEF WsCalm, WsBusy
  <2>3. \A i : WsTaken(i) => WsTaken(i)'
    BY <1>4 DEF WsTaken
  <2> QED
    BY <2>1, <2>2, <2>3, <1>4 DEF WsReqOK
<1> QED
  BY <1>7, <1>8, <1>9, <1>10, <1>11 DEF WsInv, WsReqsOK

\* A request that ends, without having written for a token that was taken.
LEMMA WsEndOK ==
  ASSUME WsInv, NEW u \in WsUsers, NEW st, wsReq' = WsFinish(u, st), WsGrows, wsReq[u].used => st # "ok"
  PROVE  WsReqOK(u)'
<1>1. WsSame(u) /\ wsReq'[u].at = "done" /\ wsReq'[u].status = st
  BY WsFinishFacts DEF WsInv
<1>2. WsReqOK(u)
  BY DEF WsInv, WsReqsOK
<1>3. \A i : WsTaken(i) => WsTaken(i)'
  BY DEF WsGrows, WsTaken
<1> QED
  BY <1>1, <1>2, <1>3 DEF WsSame, WsReqOK

LEMMA AllowsOwner ==
  ASSUME NEW role \in Roles, allows(role, "owner")
  PROVE  role = "owner"
BY DEF Roles, allows, RoleLevel

LEMMA WsRequireRoleInv ==
  ASSUME WsInv, NEW u \in WsUsers, ws_require_workspace_role(u)
  PROVE  WsInv'
<1> DEFINE c == wsReq[u].call
           role == ws_role_for_user_pg(c.ws, u)
           checked == ws_validate(u, c)
<1>1. /\ wsReq[u].at = "role"
      /\ UNCHANGED <<wss, members, invites, wsUpdates, wsPast, wsTick>>
  BY DEF ws_require_workspace_role
<1>2. WsBusy(u) /\ WsGrows /\ WsTypeOK /\ WsReqOK(u)
  BY <1>1 DEF WsBusy, WsGrows, WsTaken, WsInv, WsReqsOK
<1>3. ~wsReq[u].used
  BY <1>1, <1>2 DEF WsReqOK
<1>4. ASSUME NEW st, wsReq' = WsFinish(u, st) PROVE WsInv'
  BY <1>1, <1>2, <1>3, <1>4, WsFinishFacts, WsEndOK, WsReadInv
<1>5. CASE c.ws # 1 \/ role = "none" \/ ~allows(role, ws_required_role(c.op)) \/ checked # "ok"
  BY <1>4, <1>5 DEF ws_require_workspace_role
<1>6. CASE ~(c.ws # 1 \/ role = "none" \/ ~allows(role, ws_required_role(c.op)) \/ checked # "ok")
  <2>1. wsReq' = WsGoto(u, "op")
    BY <1>6 DEF ws_require_workspace_role
  <2>2. WsOnly(u) /\ WsSame(u) /\ wsReq'[u].at = "op"
    BY <1>2, <2>1, WsGotoFacts
  <2>3. c.op = "member" => c.role \in Roles \cup {Keep} /\ c.user # u
    BY <1>6 DEF ws_validate, validate_member_update
  <2>4. c.op = "remove" => c.user # u
    BY <1>6 DEF ws_validate
  <2>5. c.op = "invite" => c.role \in {"editor", "viewer"}
    BY <1>6 DEF ws_validate, validate_invite_request
  <2>6. c.op \in {"member", "remove"} => WsOwner(u)
    <3> SUFFICES ASSUME c.op \in {"member", "remove"} PROVE WsOwner(u)
      OBVIOUS
    <3>1. IsActive(1, u) /\ role = members[<<1, u>>].role /\ c.ws = 1
      BY <1>6 DEF ws_role_for_user_pg
    <3>2. role \in Roles
      BY <3>1, <1>2 DEF IsActive, WsTypeOK
    <3>3. ws_required_role(c.op) = "owner"
      BY DEF ws_required_role
    <3> HIDE DEF role
    <3>4. role = "owner"
      BY <1>6, <3>2, <3>3, AllowsOwner
    <3> QED
      BY <3>1, <3>4 DEF WsOwner
  <2>7. WsOwner(u) => WsOwner(u)'
    BY <1>1 DEF WsOwner, IsActive
  <2>8. WsReqOK(u)'
    BY <1>3, <2>2, <2>3, <2>4, <2>5, <2>6, <2>7 DEF WsSame, WsReqOK
  <2> QED
    BY <1>1, <1>2, <2>2, <2>8, WsReadInv
<1> QED
  BY <1>5, <1>6

\* A handler that reads: get, list, the row an update is checked against.
LEMMA WsReadsInv ==
  ASSUME WsInv, NEW u \in WsUsers,
         ws_read(u) \/ ws_missing(u) \/ update_workspace_check(u) \/ member_check(u) \/ accept_invite_check(u)
            \/ try_record_audit_event(u)
  PROVE  WsInv'
<1> DEFINE c == wsReq[u].call
<1>1. UNCHANGED <<wss, members, invites, wsUpdates, wsPast, wsTick>>
  BY DEF ws_read, ws_missing, update_workspace_check, member_check, accept_invite_check, try_record_audit_event
<1>2. WsBusy(u)
  BY DEF WsBusy, ws_read, ws_missing, update_workspace_check, member_check, accept_invite_check, try_record_audit_event
<1>3. WsGrows /\ WsTypeOK /\ WsReqOK(u)
  BY <1>1 DEF WsGrows, WsTaken, WsInv, WsReqsOK
<1>4. ASSUME NEW st, wsReq' = WsFinish(u, st), wsReq[u].used => st # "ok" PROVE WsInv'
  BY <1>1, <1>2, <1>3, <1>4, WsFinishFacts, WsEndOK, WsReadInv
<1>5. ASSUME WsOnly(u), WsReqOK(u)' PROVE WsInv'
  BY <1>1, <1>2, <1>5, WsReadInv
<1>6. WsOwner(u) => WsOwner(u)'
  BY <1>1 DEF WsOwner, IsActive
<1>7. CASE ws_read(u)
  <2>1. ~wsReq[u].used
    BY <1>3, <1>7 DEF ws_read, WsReqOK
  <2>2. CASE wsReq' = WsFinish(u, "ok")
    BY <1>4, <2>1, <2>2
  <2>3. CASE wsReq' = WsGoto(u, "exists")
    <3>1. WsOnly(u) /\ WsSame(u) /\ wsReq'[u].at = "exists"
      BY <1>3, <2>3, WsGotoFacts
    <3> QED
      BY <1>5, <2>1, <3>1 DEF WsReqOK, WsSame
  <2> QED
    BY <1>7, <2>2, <2>3 DEF ws_read
<1>8. CASE ws_missing(u)
  <2>1. ~wsReq[u].used
    BY <1>3, <1>8 DEF ws_missing, WsReqOK
  <2> QED
    BY <1>4, <1>8, <2>1 DEF ws_missing
<1>9. CASE update_workspace_check(u)
  <2>1. wsReq[u].at = "op" /\ c.op = "update" /\ ~wsReq[u].used
    BY <1>3, <1>9 DEF update_workspace_check, WsReqOK
  <2>2. CASE ~workspace_row_for_user(c.ws, u)
    <3>1. wsReq' = WsGoto(u, "exists")
      BY <1>9, <2>2 DEF update_workspace_check
    <3>2. WsOnly(u) /\ WsSame(u) /\ wsReq'[u].at = "exists"
      BY <1>3, <3>1, WsGotoFacts
    <3> QED
      BY <1>5, <2>1, <3>2 DEF WsReqOK, WsSame
  <2>3. CASE workspace_row_for_user(c.ws, u) /\ update_workspace_read(c.ws, u, c.match) # "ok"
    BY <1>4, <1>9, <2>1, <2>3 DEF update_workspace_check
  <2>4. CASE workspace_row_for_user(c.ws, u) /\ update_workspace_read(c.ws, u, c.match) = "ok"
    <3>1. wsReq' = [WsGoto(u, "write") EXCEPT ![u].read = wss[c.ws].updated]
      BY <1>9, <2>4 DEF update_workspace_check
    <3>2. WsOnly(u) /\ WsSame(u) /\ wsReq'[u].at = "write"
      BY <1>3, <3>1 DEF WsGoto, WsTypeOK, WsFields, WsOnly, WsSame
    <3>3. c.ws \in DOMAIN wss
      BY <2>4 DEF workspace_row_for_user, IsActive
    <3> QED
      BY <1>1, <1>5, <2>1, <3>2, <3>3 DEF WsReqOK, WsSame
  <2> QED
    BY <2>2, <2>3, <2>4
<1>10. CASE member_check(u)
  <2>1. wsReq[u].at = "op" /\ c.op \in {"member", "remove"} /\ ~wsReq[u].used
    BY <1>3, <1>10 DEF member_check, WsReqOK
  <2>2. CASE member_read(c.ws, c.user, c.match, c.op, c.role) # "ok"
    BY <1>4, <1>10, <2>1, <2>2 DEF member_check
  <2>3. CASE member_read(c.ws, c.user, c.match, c.op, c.role) = "ok"
    <3>1. wsReq' = WsGoto(u, "write")
      BY <1>10, <2>3 DEF member_check
    <3>2. WsOnly(u) /\ WsSame(u) /\ wsReq'[u].at = "write"
      BY <1>3, <3>1, WsGotoFacts
    <3>3. WsCalm' => WsCalm
      BY <1>1 DEF WsCalm
    <3> QED
      BY <1>3, <1>5, <1>6, <2>1, <3>2, <3>3 DEF WsReqOK, WsSame
  <2> QED
    BY <2>2, <2>3
<1>11. CASE accept_invite_check(u)
  <2>1. wsReq[u].at = "op" /\ c.op = "accept"
    BY <1>11 DEF accept_invite_check
  <2>2. CASE invite_read(c.invite, wsTick) # "ok"
    BY <1>4, <1>11, <2>2 DEF accept_invite_check
  <2>3. CASE invite_read(c.invite, wsTick) = "ok"
    <3>1. wsReq' = WsGoto(u, "write")
      BY <1>11, <2>3 DEF accept_invite_check
    <3>2. WsOnly(u) /\ WsSame(u) /\ wsReq'[u].at = "write"
      BY <1>3, <3>1, WsGotoFacts
    <3>3. c.invite \in DOMAIN invites /\ ~WsTaken(c.invite)
      BY <2>3 DEF invite_read, WsTaken
    <3>4. ~wsReq[u].used
      BY <1>3, <3>3 DEF WsReqOK
    <3> QED
      BY <1>1, <1>5, <2>1, <3>2, <3>3, <3>4 DEF WsReqOK, WsSame
  <2> QED
    BY <2>2, <2>3
<1>12. CASE try_record_audit_event(u)
  <2>1. ~wsReq[u].used
    BY <1>3, <1>12 DEF try_record_audit_event, WsReqOK
  <2> QED
    BY <1>4, <1>12, <2>1 DEF try_record_audit_event
<1> QED
  BY <1>7, <1>8, <1>9, <1>10, <1>11, <1>12

\* What a statement leaves of the request that made it.
LEMMA WsWriteFacts ==
  ASSUME WsInv, NEW u \in WsUsers, NEW r, WsWrite(u, r), wsReq[u].at \in {"op", "write"}, WsGrows,
         ~wsReq[u].used
  PROVE  /\ wss' = r.w /\ members' = r.m /\ invites' = r.i
         /\ wsTick' = IF r.st = "ok" THEN wsTick + 1 ELSE wsTick
         /\ WsOnly(u) /\ WsReqsOK' /\ WsOneAtATime'
<1>1. WsTypeOK
  BY DEF WsInv
<1>2. WsBusy(u)
  BY DEF WsBusy
<1>3. WsOnly(u) /\ WsReqOK(u)'
  <2>1. CASE wsReq' = WsGoto(u, "audit")
    <3>1. WsOnly(u) /\ WsSame(u) /\ wsReq'[u].at = "audit"
      BY <1>1, <2>1, WsGotoFacts
    <3> QED
      BY <3>1 DEF WsReqOK, WsSame
  <2>2. CASE wsReq' = WsFinish(u, r.st)
    BY <1>1, <2>2, WsFinishFacts, WsEndOK
  <2> QED
    BY <2>1, <2>2 DEF WsWrite
<1>4. WsReqsOK' /\ WsOneAtATime'
  BY <1>2, <1>3, WsOthersKept
<1> QED
  BY <1>3, <1>4 DEF WsWrite

\* A statement that changes nothing.
LEMMA WsRefusedInv ==
  ASSUME WsInv, NEW u \in WsUsers, NEW st, WsWrite(u, Refuse(st)), wsReq[u].at \in {"op", "write"}, ~wsReq[u].used,
         st # "ok", UNCHANGED <<wsUpdates, wsPast>>
  PROVE  WsInv'
<1>1. UNCHANGED <<wss, members, invites, wsUpdates, wsPast, wsTick>> /\ wsReq' = WsFinish(u, st)
  BY DEF WsWrite, Refuse, Tables
<1>2. WsGrows /\ WsBusy(u) /\ WsTypeOK
  BY <1>1 DEF WsGrows, WsTaken, WsBusy, WsInv
<1> QED
  BY <1>1, <1>2, WsEndOK, WsFinishFacts, WsReadInv

\* What makes a step that writes one of the tables keep the invariant.
LEMMA WsWriteInv ==
  ASSUME WsInv, NEW u \in WsUsers, NEW r, WsWrite(u, r), wsReq[u].at \in {"op", "write"}, ~wsReq[u].used, WsGrows,
         r.st = "ok",
         DOMAIN wss' \subseteq WsIds, wsPast' \in [raced : BOOLEAN, joined : BOOLEAN],
         \A w \in DOMAIN wss' : DOMAIN wss'[w] = {"slug", "created", "updated"} /\ wss'[w].updated \in 0..wsTick + 1,
         \A k \in DOMAIN members' : DOMAIN members'[k] = {"role", "status", "joined"} /\ members'[k].role \in Roles,
         \A i \in DOMAIN invites' :
            DOMAIN invites'[i] = {"ws", "role", "expires", "accepted"} /\ invites'[i].role \in {"editor", "viewer"},
         wsUpdates' \in Seq(WsIds \X Nat), WsUpdatesOld', WsNoLostUpdate',
         WsCalm' => \E v \in WsUsers : WsOwner(v)'
  PROVE  WsInv'
<1>1. wsTick' = wsTick + 1 /\ WsOnly(u) /\ WsReqsOK' /\ WsOneAtATime'
  BY WsWriteFacts
<1>2. WsTypeOK'
  <2>1. wsTick' \in Nat /\ 1 \in DOMAIN wss'
    BY <1>1 DEF WsInv, WsTypeOK, WsGrows
  <2>2. DOMAIN wsReq' = WsUsers /\ \A v \in WsUsers : DOMAIN wsReq'[v] = WsFields /\ wsReq'[v].used \in BOOLEAN
    BY <1>1 DEF WsInv, WsTypeOK, WsOnly
  <2>3. \A w \in DOMAIN wss' : wss'[w].updated \in 0..wsTick'
    BY <1>1
  <2> QED
    BY <2>1, <2>2, <2>3 DEF WsTypeOK
<1>3. WsOwnerRemains'
  BY DEF WsOwnerRemains, WsCalm, WsOwner
<1> QED
  BY <1>1, <1>2, <1>3 DEF WsInv

\* No member is touched.
LEMMA WsOwnerStays ==
  ASSUME WsInv, WsGrows, UNCHANGED members
  PROVE  WsCalm' => \E v \in WsUsers : WsOwner(v)'
BY DEF WsInv, WsOwnerRemains, WsOwner, WsCalm, WsGrows, IsActive

\* No update is carried out.
LEMMA WsUpdatesStay ==
  ASSUME WsInv, UNCHANGED wsUpdates, DOMAIN wss \subseteq DOMAIN wss', \A w \in DOMAIN wss : wss'[w] = wss[w]
  PROVE  wsUpdates' \in Seq(WsIds \X Nat) /\ WsUpdatesOld' /\ WsNoLostUpdate'
BY DEF WsInv, WsTypeOK, WsUpdatesOld, WsNoLostUpdate

LEMMA CreateWorkspaceInv ==
  ASSUME WsInv, NEW u \in WsUsers, create_workspace(u)
  PROVE  WsInv'
<1> DEFINE c == wsReq[u].call
<1>1. wsReq[u].at = "op" /\ c.op = "create" /\ UNCHANGED <<wsUpdates, wsPast>>
  BY DEF create_workspace
<1>2. WsTypeOK /\ ~wsReq[u].used
  BY <1>1 DEF WsInv, WsReqsOK, WsReqOK
<1>3. CASE c.slug = "blank"
  <2>1. UNCHANGED <<wss, members, invites, wsUpdates, wsPast, wsTick>> /\ wsReq' = WsFinish(u, "bad_request")
    BY <1>1, <1>3 DEF create_workspace
  <2>2. WsGrows /\ WsBusy(u)
    BY <1>1, <2>1 DEF WsGrows, WsTaken, WsBusy
  <2> QED
    BY <1>2, <2>1, <2>2, WsEndOK, WsFinishFacts, WsReadInv
<1>4. CASE c.slug # "blank"
  <2>1. PICK w \in WsIds \ DOMAIN wss : WsWrite(u, create_workspace_pg(u, w, c.slug, wsTick + 1))
    BY <1>4 DEF create_workspace
  <2>2. CASE SlugTaken(wss, w, c.slug)
    <3>1. WsWrite(u, Refuse("conflict"))
      BY <2>1, <2>2 DEF create_workspace_pg
    <3> QED
      BY <1>1, <1>2, <3>1, WsRefusedInv
  <2>3. CASE ~SlugTaken(wss, w, c.slug)
    <3>1. PICK row : row = [slug |-> c.slug, created |-> wsTick + 1, updated |-> wsTick + 1]
      OBVIOUS
    <3>2. PICK r : r = Tables("ok", Insert(wss, w, row), Insert(members, <<w, u>>, NewMember("owner", wsTick + 1)), invites)
      OBVIOUS
    <3>3. WsWrite(u, r)
      BY <2>1, <2>3, <3>1, <3>2 DEF create_workspace_pg
    <3>4. /\ r.st = "ok" /\ wss' = Insert(wss, w, row) /\ invites' = invites
          /\ members' = Insert(members, <<w, u>>, NewMember("owner", wsTick + 1))
      BY <3>2, <3>3 DEF WsWrite, Tables
    <3>5. DOMAIN wss' = DOMAIN wss \cup {w} /\ wss'[w] = row /\ \A v \in DOMAIN wss : wss'[v] = wss[v]
      BY <3>4 DEF Insert
    <3>6. /\ DOMAIN members' = DOMAIN members \cup {<<w, u>>}
          /\ members'[<<w, u>>] = NewMember("owner", wsTick + 1)
          /\ \A k \in DOMAIN members : k # <<w, u>> => members'[k] = members[k]
      BY <3>4 DEF Insert
    <3>7. WsGrows
      BY <1>1, <3>4, <3>5 DEF WsGrows, WsTaken
    <3>8. \A v \in DOMAIN wss' : DOMAIN wss'[v] = {"slug", "created", "updated"} /\ wss'[v].updated \in 0..wsTick + 1
      <4>1. DOMAIN row = {"slug", "created", "updated"} /\ row.updated = wsTick + 1
        BY <3>1
      <4> QED
        BY <1>2, <3>5, <4>1 DEF WsTypeOK
    <3>9. \A k \in DOMAIN members' : DOMAIN members'[k] = {"role", "status", "joined"} /\ members'[k].role \in Roles
      <4>1. /\ DOMAIN members'[<<w, u>>] = {"role", "status", "joined"}
            /\ members'[<<w, u>>].role = "owner" /\ "owner" \in Roles
        BY <3>6 DEF NewMember, Roles
      <4> QED
        BY <1>2, <3>6, <4>1 DEF WsTypeOK
    <3>10. WsCalm' => \E v \in WsUsers : WsOwner(v)'
      <4>1. \A v \in WsUsers : WsOwner(v) => WsOwner(v)'
        <5>1. w # 1 /\ 1 \in DOMAIN wss'
          BY <1>2, <2>1, <3>5 DEF WsTypeOK
        <5>2. \A v : <<1, v>> # <<w, u>>
          BY <5>1
        <5> QED
          BY <3>6, <5>1, <5>2 DEF WsOwner, IsActive
      <4> QED
        BY <1>1, <4>1 DEF WsInv, WsOwnerRemains, WsOwner, WsCalm
    <3>11. wsUpdates' \in Seq(WsIds \X Nat) /\ WsUpdatesOld' /\ WsNoLostUpdate'
      BY <1>1, <3>5, WsUpdatesStay
    <3>12. DOMAIN wss' \subseteq WsIds /\ wsPast' \in [raced : BOOLEAN, joined : BOOLEAN]
      BY <1>1, <1>2, <3>5 DEF WsTypeOK
    <3>13. \A i \in DOMAIN invites' :
             DOMAIN invites'[i] = {"ws", "role", "expires", "accepted"} /\ invites'[i].role \in {"editor", "viewer"}
      BY <1>2, <3>4 DEF WsTypeOK
    <3>14. r.st = "ok" /\ wsReq[u].at \in {"op", "write"} /\ ~wsReq[u].used
      BY <1>1, <1>2, <3>4
    <3> QED
      BY <3>3, <3>7, <3>8, <3>9, <3>10, <3>11, <3>12, <3>13, <3>14, WsWriteInv
  <2> QED
    BY <2>2, <2>3
<1> QED
  BY <1>3, <1>4

LEMMA UpdateWorkspaceInv ==
  ASSUME WsInv, NEW u \in WsUsers, update_workspace(u)
  PROVE  WsInv'
<1> DEFINE c == wsReq[u].call
           read == wsReq[u].read
           named == c.slug # Keep \/ c.name # Keep
<1>1. PICK r : r = update_workspace_pg(c.ws, c.slug, c.name, read, wsTick + 1)
  OBVIOUS
<1>2. /\ wsReq[u].at = "write" /\ c.op = "update" /\ WsWrite(u, r) /\ UNCHANGED wsPast
      /\ wsUpdates' = IF r.st = "ok" /\ named THEN Append(wsUpdates, <<c.ws, read>>) ELSE wsUpdates
  BY <1>1 DEF update_workspace
<1>3. WsTypeOK /\ ~wsReq[u].used /\ c.ws \in DOMAIN wss
  BY <1>2 DEF WsInv, WsReqsOK, WsReqOK
<1>4. ASSUME NEW st, st # "ok", r = Refuse(st) PROVE WsInv'
  <2>1. UNCHANGED <<wsUpdates, wsPast>>
    BY <1>2, <1>4 DEF Refuse, Tables
  <2>2. WsWrite(u, Refuse(st)) /\ wsReq[u].at \in {"op", "write"}
    BY <1>2, <1>4
  <2> QED
    BY <1>3, <1>4, <2>1, <2>2, WsRefusedInv
<1>5. CASE wss[c.ws].updated # read
  BY <1>1, <1>4, <1>5 DEF update_workspace_pg
<1>6. CASE wss[c.ws].updated = read /\ c.slug # Keep /\ SlugTaken(wss, c.ws, c.slug)
  BY <1>1, <1>4, <1>6 DEF update_workspace_pg
<1>7. CASE wss[c.ws].updated = read /\ ~(c.slug # Keep /\ SlugTaken(wss, c.ws, c.slug))
  <2>1. r = Tables("ok", [wss EXCEPT ![c.ws].slug = Coalesce(c.slug, @),
                                     ![c.ws].updated = IF c.slug = Keep /\ c.name = Keep THEN @ ELSE wsTick + 1],
                   members, invites)
    BY <1>1, <1>7 DEF update_workspace_pg
  <2>2. /\ r.st = "ok" /\ UNCHANGED <<members, invites>>
        /\ wss' = [wss EXCEPT ![c.ws].slug = Coalesce(c.slug, @),
                              ![c.ws].updated = IF c.slug = Keep /\ c.name = Keep THEN @ ELSE wsTick + 1]
    BY <1>2, <2>1 DEF WsWrite, Tables
  <2>3. /\ DOMAIN wss' = DOMAIN wss /\ \A v \in DOMAIN wss : v # c.ws => wss'[v] = wss[v]
        /\ DOMAIN wss'[c.ws] = {"slug", "created", "updated"}
        /\ wss'[c.ws].updated = IF named THEN wsTick + 1 ELSE wss[c.ws].updated
    BY <1>3, <2>2 DEF WsTypeOK
  <2>4. wsTick \in Nat /\ read \in Nat /\ read <= wsTick
    BY <1>3, <1>7 DEF WsTypeOK
  <2>5. WsGrows
    BY <1>2, <2>2, <2>3 DEF WsGrows, WsTaken
  <2>6. \A v \in DOMAIN wss' : DOMAIN wss'[v] = {"slug", "created", "updated"} /\ wss'[v].updated \in 0..wsTick + 1
    BY <1>3, <2>3, <2>4 DEF WsTypeOK
  <2>7. wsUpdates' \in Seq(WsIds \X Nat) /\ WsUpdatesOld' /\ WsNoLostUpdate'
    <3>1. CASE ~named
      <4>1. UNCHANGED wsUpdates /\ \A w \in DOMAIN wss : wss'[w].updated = wss[w].updated
        BY <1>2, <2>3, <3>1
      <4> QED
        BY <1>3, <2>3, <4>1 DEF WsInv, WsTypeOK, WsUpdatesOld, WsNoLostUpdate
    <3>2. CASE named
      <4>1. PICK e \in WsIds \X Nat : e = <<c.ws, read>>
        BY <1>3, <2>4 DEF WsTypeOK
      <4>2. wsUpdates' = Append(wsUpdates, e) /\ wsUpdates \in Seq(WsIds \X Nat)
        BY <1>2, <1>3, <2>2, <3>2, <4>1 DEF WsTypeOK
      <4>3. /\ wsUpdates' \in Seq(WsIds \X Nat) /\ DOMAIN wsUpdates' = 1..Len(wsUpdates) + 1
            /\ wsUpdates'[Len(wsUpdates) + 1] = e /\ \A j \in 1..Len(wsUpdates) : wsUpdates'[j] = wsUpdates[j]
            /\ DOMAIN wsUpdates = 1..Len(wsUpdates) /\ Len(wsUpdates) \in Nat
        BY <4>2
      <4>4. e[1] = c.ws /\ e[2] = read
        BY <4>1
      <4>5. ASSUME NEW j \in DOMAIN wsUpdates
            PROVE  /\ wsUpdates[j][1] \in DOMAIN wss /\ wsUpdates[j][1] \in DOMAIN wss'
                   /\ wsUpdates[j][2] < wss'[wsUpdates[j][1]].updated
                   /\ wsUpdates[j] # e
        <5>1. wsUpdates[j] \in WsIds \X Nat /\ wsUpdates[j][2] \in Nat
          BY <4>2
        <5>2. wsUpdates[j][1] \in DOMAIN wss /\ wsUpdates[j][2] < wss[wsUpdates[j][1]].updated
          BY DEF WsInv, WsUpdatesOld
        <5>3. wss[wsUpdates[j][1]].updated \in Nat /\ wss[wsUpdates[j][1]].updated <= wsTick
          BY <1>3, <5>2 DEF WsTypeOK
        <5>4. wsUpdates[j] = e => wsUpdates[j][2] = read /\ wss[wsUpdates[j][1]].updated = read
          BY <1>7, <4>4
        <5>5. wsUpdates[j] # e
          BY <5>1, <5>2, <5>3, <5>4, <2>4
        <5>6. wsUpdates[j][2] < wss'[wsUpdates[j][1]].updated
          <6>1. CASE wsUpdates[j][1] = c.ws
            BY <5>1, <5>2, <5>3, <6>1, <2>3, <2>4, <3>2
          <6>2. CASE wsUpdates[j][1] # c.ws
            BY <5>2, <6>2, <2>3
          <6> QED
            BY <6>1, <6>2
        <5> QED
          BY <5>2, <5>5, <5>6, <2>3
      <4>6. WsUpdatesOld'
        <5>1. e[1] \in DOMAIN wss' /\ e[2] < wss'[e[1]].updated
          BY <1>3, <2>3, <2>4, <3>2, <4>4
        <5> QED
          BY <4>3, <4>5, <5>1 DEF WsUpdatesOld
      <4>7. WsNoLostUpdate'
        <5>1. \A j, k \in DOMAIN wsUpdates : wsUpdates[j] = wsUpdates[k] => j = k
          BY DEF WsInv, WsNoLostUpdate
        <5> QED
          BY <4>3, <4>5, <5>1 DEF WsNoLostUpdate
      <4> QED
        BY <4>3, <4>6, <4>7
    <3> QED
      BY <3>1, <3>2
  <2>8. WsCalm' => \E v \in WsUsers : WsOwner(v)'
    BY <2>2, <2>5, WsOwnerStays
  <2>9. /\ DOMAIN wss' \subseteq WsIds /\ wsPast' \in [raced : BOOLEAN, joined : BOOLEAN]
        /\ \A k \in DOMAIN members' : DOMAIN members'[k] = {"role", "status", "joined"} /\ members'[k].role \in Roles
        /\ \A i \in DOMAIN invites' :
             DOMAIN invites'[i] = {"ws", "role", "expires", "accepted"} /\ invites'[i].role \in {"editor", "viewer"}
    BY <1>2, <1>3, <2>2, <2>3 DEF WsTypeOK
  <2>10. WsWrite(u, r) /\ r.st = "ok" /\ wsReq[u].at \in {"op", "write"}
    BY <1>2, <2>2
  <2> QED
    BY <1>3, <2>5, <2>6, <2>7, <2>8, <2>9, <2>10, WsWriteInv
<1> QED
  BY <1>5, <1>6, <1>7

LEMMA MembersInv ==
  ASSUME WsInv, NEW u \in WsUsers, update_member(u) \/ delete_member(u)
  PROVE  WsInv'
<1> DEFINE c == wsReq[u].call
           k == <<c.ws, c.user>>
<1>1. PICK r : /\ r = IF c.op = "member" THEN update_member_pg(c.ws, c.user, c.role, c.status)
                      ELSE delete_member_pg(c.ws, c.user)
               /\ WsWrite(u, r)
  BY DEF update_member, delete_member
<1>2. wsReq[u].at = "write" /\ c.op \in {"member", "remove"} /\ UNCHANGED <<wsUpdates, wsPast>>
  BY DEF update_member, delete_member
<1>3. WsTypeOK /\ ~wsReq[u].used /\ (c.op = "member" => c.role \in Roles \cup {Keep}) /\ (WsCalm => WsOwner(u) /\ c.user # u)
  BY <1>2 DEF WsInv, WsReqsOK, WsReqOK
<1>4. CASE c.op = "member" /\ k \notin DOMAIN members
  <2>1. r = Refuse("internal")
    BY <1>1, <1>4 DEF update_member_pg
  <2>2. WsWrite(u, Refuse("internal")) /\ wsReq[u].at \in {"op", "write"}
    BY <1>1, <1>2, <2>1
  <2> QED
    BY <1>2, <1>3, <2>2, WsRefusedInv
<1>5. CASE ~(c.op = "member" /\ k \notin DOMAIN members)
  <2>1. /\ r.st = "ok" /\ UNCHANGED <<wss, invites>>
        /\ members' = IF c.op = "member"
                      THEN [members EXCEPT ![k].role = Coalesce(c.role, @), ![k].status = Coalesce(c.status, @)]
                      ELSE [x \in DOMAIN members \ {k} |-> members[x]]
    BY <1>1, <1>2, <1>5 DEF WsWrite, update_member_pg, delete_member_pg, Tables
  <2>2. \A x \in DOMAIN members' : x \in DOMAIN members
    BY <2>1
  <2>3. \A x \in DOMAIN members : x # k => x \in DOMAIN members' /\ members'[x] = members[x]
    BY <2>1
  <2>4. k \in DOMAIN members' => DOMAIN members'[k] = {"role", "status", "joined"} /\ members'[k].role \in Roles
    <3> SUFFICES ASSUME k \in DOMAIN members' PROVE DOMAIN members'[k] = {"role", "status", "joined"} /\ members'[k].role \in Roles
      OBVIOUS
    <3>1. c.op = "member" /\ k \in DOMAIN members
      BY <1>2, <2>1, <2>2
    <3>2. DOMAIN members[k] = {"role", "status", "joined"} /\ members[k].role \in Roles
      BY <1>3, <3>1 DEF WsTypeOK
    <3>3. members' = [members EXCEPT ![k].role = Coalesce(c.role, @), ![k].status = Coalesce(c.status, @)]
      BY <2>1, <3>1
    <3>4. DOMAIN members'[k] = {"role", "status", "joined"} /\ members'[k].role = Coalesce(c.role, members[k].role)
      BY <3>1, <3>2, <3>3
    <3> QED
      BY <1>3, <3>1, <3>2, <3>4 DEF Coalesce
  <2>5. \A x \in DOMAIN members' : DOMAIN members'[x] = {"role", "status", "joined"} /\ members'[x].role \in Roles
    BY <1>3, <2>2, <2>3, <2>4 DEF WsTypeOK
  <2>6. WsCalm' => \E v \in WsUsers : WsOwner(v)'
    <3> SUFFICES ASSUME WsCalm PROVE WsOwner(u)'
      BY <1>2 DEF WsCalm
    <3>1. WsOwner(u) /\ <<1, u>> # k
      BY <1>3
    <3> QED
      BY <2>1, <2>3, <3>1 DEF WsOwner, IsActive
  <2>7. WsGrows
    BY <1>2, <2>1 DEF WsGrows, WsTaken
  <2>8. wsUpdates' \in Seq(WsIds \X Nat) /\ WsUpdatesOld' /\ WsNoLostUpdate'
    BY <1>2, <2>1, WsUpdatesStay
  <2>9. /\ DOMAIN wss' \subseteq WsIds /\ wsPast' \in [raced : BOOLEAN, joined : BOOLEAN]
        /\ \A w \in DOMAIN wss' : DOMAIN wss'[w] = {"slug", "created", "updated"} /\ wss'[w].updated \in 0..wsTick + 1
        /\ \A i \in DOMAIN invites' :
             DOMAIN invites'[i] = {"ws", "role", "expires", "accepted"} /\ invites'[i].role \in {"editor", "viewer"}
    BY <1>2, <1>3, <2>1 DEF WsTypeOK
  <2>10. WsWrite(u, r) /\ r.st = "ok" /\ wsReq[u].at \in {"op", "write"}
    BY <1>1, <1>2, <2>1
  <2> QED
    BY <1>3, <2>5, <2>6, <2>7, <2>8, <2>9, <2>10, WsWriteInv
<1> QED
  BY <1>4, <1>5

LEMMA InvitesInv ==
  ASSUME WsInv, NEW u \in WsUsers, create_invite(u)
  PROVE  WsInv'
<1> DEFINE c == wsReq[u].call
<1>1. wsReq[u].at = "op" /\ c.op = "invite" /\ UNCHANGED <<wsUpdates, wsPast>>
  BY DEF create_invite
<1>2. WsTypeOK /\ ~wsReq[u].used /\ c.role \in {"editor", "viewer"}
  BY <1>1 DEF WsInv, WsReqsOK, WsReqOK
<1>3. PICK i \in InviteIds \ DOMAIN invites : WsWrite(u, create_invite_pg(c.ws, i, c.role, wsTick + 1 + c.hours))
  BY DEF create_invite
<1>4. PICK row : row = NewInvite(c.ws, c.role, wsTick + 1 + c.hours)
  OBVIOUS
<1>5. PICK r : r = Tables("ok", wss, members, Insert(invites, i, row))
  OBVIOUS
<1>6. WsWrite(u, r)
  BY <1>3, <1>4, <1>5 DEF create_invite_pg
<1>7. r.st = "ok" /\ UNCHANGED <<wss, members>> /\ invites' = Insert(invites, i, row)
  BY <1>5, <1>6 DEF WsWrite, Tables
<1>8. DOMAIN invites' = DOMAIN invites \cup {i} /\ invites'[i] = row /\ \A j \in DOMAIN invites : invites'[j] = invites[j]
  BY <1>3, <1>7 DEF Insert
<1>9. DOMAIN row = {"ws", "role", "expires", "accepted"} /\ row.role = c.role
  BY <1>4 DEF NewInvite
<1>10. WsGrows
  BY <1>1, <1>7, <1>8 DEF WsGrows, WsTaken
<1>11. wsUpdates' \in Seq(WsIds \X Nat) /\ WsUpdatesOld' /\ WsNoLostUpdate'
  BY <1>1, <1>7, WsUpdatesStay
<1>12. WsCalm' => \E v \in WsUsers : WsOwner(v)'
  BY <1>7, <1>10, WsOwnerStays
<1>13. \A j \in DOMAIN invites' :
          DOMAIN invites'[j] = {"ws", "role", "expires", "accepted"} /\ invites'[j].role \in {"editor", "viewer"}
  BY <1>2, <1>8, <1>9 DEF WsTypeOK
<1>14. /\ DOMAIN wss' \subseteq WsIds /\ wsPast' \in [raced : BOOLEAN, joined : BOOLEAN]
       /\ \A w \in DOMAIN wss' : DOMAIN wss'[w] = {"slug", "created", "updated"} /\ wss'[w].updated \in 0..wsTick + 1
       /\ \A k \in DOMAIN members' : DOMAIN members'[k] = {"role", "status", "joined"} /\ members'[k].role \in Roles
  BY <1>1, <1>2, <1>7 DEF WsTypeOK
<1>15. r.st = "ok" /\ wsReq[u].at \in {"op", "write"}
  BY <1>1, <1>7
<1> QED
  BY <1>2, <1>6, <1>10, <1>11, <1>12, <1>13, <1>14, <1>15, WsWriteInv

LEMMA AcceptInviteInv ==
  ASSUME WsInv, NEW u \in WsUsers, accept_invite(u)
  PROVE  WsInv'
<1> DEFINE i == wsReq[u].call.invite
           k == <<invites[i].ws, u>>
<1>1. /\ wsReq[u].at = "write" /\ wsReq[u].call.op = "accept" /\ UNCHANGED wsUpdates
      /\ wsPast' = [wsPast EXCEPT !.joined = @ \/ (k \in DOMAIN members /\ members[k].role = "owner")]
  BY DEF accept_invite
<1>2. WsTypeOK /\ ~wsReq[u].used /\ i \in DOMAIN invites
  BY <1>1 DEF WsInv, WsReqsOK, WsReqOK
<1>3. PICK row : row = [NewMember(invites[i].role, wsTick + 1) EXCEPT
                          !.joined = IF k \in DOMAIN members THEN members[k].joined ELSE @]
  OBVIOUS
<1>4. DOMAIN row = {"role", "status", "joined"} /\ row.role = invites[i].role
  BY <1>3 DEF NewMember
<1>5. PICK r : r = Tables("ok", wss, Insert(members, k, row), [invites EXCEPT ![i].accepted = wsTick + 1])
  OBVIOUS
<1>6. WsWrite(u, r)
  BY <1>3, <1>5 DEF accept_invite, accept_invite_pg
<1>7. /\ r.st = "ok" /\ UNCHANGED wss /\ members' = Insert(members, k, row)
      /\ invites' = [invites EXCEPT ![i].accepted = wsTick + 1]
  BY <1>5, <1>6 DEF WsWrite, Tables
<1>8. /\ DOMAIN members' = DOMAIN members \cup {k} /\ members'[k] = row
      /\ \A x \in DOMAIN members : x # k => members'[x] = members[x]
  BY <1>7 DEF Insert
<1>9. /\ DOMAIN invites' = DOMAIN invites /\ \A j \in DOMAIN invites : j # i => invites'[j] = invites[j]
      /\ DOMAIN invites'[i] = {"ws", "role", "expires", "accepted"} /\ invites'[i].role = invites[i].role
      /\ invites'[i].accepted = wsTick + 1
  BY <1>2, <1>7 DEF WsTypeOK
<1>10. wsTick + 1 # 0
  BY <1>2 DEF WsTypeOK
<1>11. /\ wsPast' \in [raced : BOOLEAN, joined : BOOLEAN]
       /\ wsPast'.raced = wsPast.raced /\ (wsPast.joined => wsPast'.joined)
       /\ ~wsPast'.joined => ~(k \in DOMAIN members /\ members[k].role = "owner")
  BY <1>1, <1>2 DEF WsTypeOK
<1>12. WsGrows
  BY <1>7, <1>9, <1>10, <1>11 DEF WsGrows, WsTaken
<1>13. wsUpdates' \in Seq(WsIds \X Nat) /\ WsUpdatesOld' /\ WsNoLostUpdate'
  BY <1>1, <1>7, WsUpdatesStay
<1>14. WsCalm' => \E v \in WsUsers : WsOwner(v)'
  <2> SUFFICES ASSUME WsCalm' PROVE \E v \in WsUsers : WsOwner(v)'
    OBVIOUS
  <2>1. PICK v \in WsUsers : WsOwner(v)
    BY <1>11 DEF WsCalm, WsInv, WsOwnerRemains, WsOwner
  <2>2. <<1, v>> # k
    BY <1>11, <2>1 DEF WsCalm, WsOwner, IsActive
  <2>3. WsOwner(v)'
    BY <1>7, <1>8, <2>1, <2>2 DEF WsOwner, IsActive
  <2> QED
    BY <2>3
<1>15. \A j \in DOMAIN invites' :
          DOMAIN invites'[j] = {"ws", "role", "expires", "accepted"} /\ invites'[j].role \in {"editor", "viewer"}
  BY <1>2, <1>9 DEF WsTypeOK
<1>16. \A x \in DOMAIN members' : DOMAIN members'[x] = {"role", "status", "joined"} /\ members'[x].role \in Roles
  <2>1. row.role \in Roles
    BY <1>2, <1>4 DEF WsTypeOK, Roles
  <2> QED
    BY <1>2, <1>4, <1>8, <2>1 DEF WsTypeOK
<1>17. /\ DOMAIN wss' \subseteq WsIds
       /\ \A w \in DOMAIN wss' : DOMAIN wss'[w] = {"slug", "created", "updated"} /\ wss'[w].updated \in 0..wsTick + 1
  BY <1>2, <1>7 DEF WsTypeOK
<1>18. r.st = "ok" /\ wsReq[u].at \in {"op", "write"} /\ wsPast' \in [raced : BOOLEAN, joined : BOOLEAN]
  BY <1>1, <1>7, <1>11
<1> QED
  BY <1>2, <1>6, <1>12, <1>13, <1>14, <1>15, <1>16, <1>17, <1>18, WsWriteInv

LEMMA WsNextInv == WsInv /\ [WsNext]_wsVars => WsInv'
<1>1. ASSUME WsInv, UNCHANGED wsVars PROVE WsInv'
  <2>1. WsTypeOK' /\ WsUpdatesOld' /\ WsNoLostUpdate'
    BY <1>1 DEF wsVars, WsInv, WsTypeOK, WsUpdatesOld, WsNoLostUpdate
  <2>2. WsOneAtATime' /\ WsOwnerRemains' /\ WsReqsOK'
    BY <1>1 DEF wsVars, WsInv, WsOneAtATime, WsBusy, WsOwnerRemains, IsActive, WsReqsOK, WsReqOK, WsCalm, WsTaken, WsOwner
  <2> QED
    BY <2>1, <2>2 DEF WsInv
<1>2. ASSUME WsInv, NEW u \in WsUsers, WsStep(u) PROVE WsInv'
  BY <1>2, WsRequireRoleInv, CreateWorkspaceInv, WsReadsInv, UpdateWorkspaceInv, MembersInv, InvitesInv, AcceptInviteInv
     DEF WsStep
<1> QED
  BY <1>1, <1>2, WsBeginInv DEF WsNext

\* Whoever else is at work, no two updates of a workspace are made of the same
\* state of it; and while requests come one at a time and no owner takes an
\* invite, workspace 1 keeps an active owner (update_workspace_pg,
\* update_member_pg, delete_member_pg).
THEOREM WorkspaceKeptHolds == RestSpec => []WorkspaceKept
<1>1. RestInit => WsInv
  BY WsInitInv DEF RestInit
<1>2. WsInv /\ [RestNext]_<<part, contentVars, accessVars>> => WsInv'
  <2>1. ASSUME UNCHANGED wsVars, WsInv PROVE WsInv'
    BY <2>1, WsNextInv
  <2> QED
    BY <2>1, WsNextInv DEF RestNext, accessVars
<1>3. WsInv => WorkspaceKept
  BY DEF WsInv, WorkspaceKept
<1> QED
  BY <1>1, <1>2, <1>3, PTL DEF RestSpec

-----------------------------------------------------------------------------
(* Documents.  What was true at some moment of a request is kept in it as  *)
(* the tables change; a request that is past a check has met what the      *)
(* check asks for.                                                         *)

DocFields == {"at", "call", "got", "doc", "role", "member", "current", "status"}

DocRecord(q) == DOMAIN q = DocFields /\ q.member \in BOOLEAN /\ q.current \in BOOLEAN

DocChanges == {"update", "delete"}

\* What a request has been checked for.
DocChecked(q) ==
    /\ q.at \notin {"idle", "role", "done"} => q.member
    /\ q.at \in {"write", "audit"} /\ q.call.op \in DocChanges => q.current
    /\ q.at = "tags" => q.call.op = "create"
    /\ q.at = "done" /\ q.status = "ok" => q.member /\ (q.call.op \in DocChanges => q.current)

\* What it has seen of the tables.
DocSeen(q, u, t, roles) ==
    q.at \notin {"idle", "done"} => (roles[u] # "none" => q.member) /\ (MatchIsCurrent(q.call, t) => q.current)

DocInv ==
    /\ DOMAIN docReq = DocUsers
    /\ \A u \in DocUsers : /\ DocRecord(docReq[u]) /\ DocChecked(docReq[u])
                           /\ DocSeen(docReq[u], u, docs, docRoles)

LEMMA DocInitInv == DocsInit => DocInv
<1> SUFFICES ASSUME DocsInit PROVE DocInv
  OBVIOUS
<1>1. DOMAIN docReq = DocUsers /\ \A u \in DocUsers : docReq[u] = IdleReq
  BY DEF DocsInit
<1>2. DocRecord(IdleReq) /\ IdleReq.at = "idle"
  BY DEF DocRecord, IdleReq, DocFields
<1> QED
  BY <1>1, <1>2 DEF DocInv, DocChecked, DocSeen

\* A request of u moves on or ends; the tables stay.
LEMMA DocMoveInv ==
  ASSUME DocInv, NEW u \in DocUsers, UNCHANGED <<docs, docRoles>>, NEW q, docReq' = [docReq EXCEPT ![u] = q],
         DocRecord(q), DocChecked(q), DocSeen(q, u, docs, docRoles)
  PROVE  DocInv'
<1>1. DOMAIN docReq' = DocUsers /\ docReq'[u] = q /\ \A v \in DocUsers : v # u => docReq'[v] = docReq[v]
  BY DEF DocInv
<1> QED
  BY <1>1 DEF DocInv

\* In `next`, the request of u is q, at another step.
DocTo(next, u, at, q) ==
    /\ next = [docReq EXCEPT ![u] = q]
    /\ DocRecord(q) /\ q.at = at
    /\ q.call = docReq[u].call /\ q.member = docReq[u].member /\ q.current = docReq[u].current

LEMMA DocFinishFacts ==
  ASSUME DocInv, NEW u \in DocUsers, NEW st
  PROVE  \E q : DocTo(Finish(u, st), u, "done", q) /\ q.status = st
<1>1. PICK q : q = [docReq[u] EXCEPT !.at = "done", !.status = st]
  OBVIOUS
<1>2. DocRecord(docReq[u])
  BY DEF DocInv
<1>3. /\ DocRecord(q) /\ q.at = "done" /\ q.status = st
      /\ q.call = docReq[u].call /\ q.member = docReq[u].member /\ q.current = docReq[u].current
  BY <1>1, <1>2 DEF DocRecord, DocFields
<1>4. Finish(u, st) = [docReq EXCEPT ![u] = q]
  BY <1>1 DEF Finish
<1> QED
  BY <1>3, <1>4 DEF DocTo

LEMMA DocGotoFacts ==
  ASSUME DocInv, NEW u \in DocUsers, NEW at
  PROVE  \E q : DocTo(Goto(u, at), u, at, q)
<1>1. PICK q : q = [docReq[u] EXCEPT !.at = at]
  OBVIOUS
<1>2. DocRecord(docReq[u])
  BY DEF DocInv
<1>3. /\ DocRecord(q) /\ q.at = at
      /\ q.call = docReq[u].call /\ q.member = docReq[u].member /\ q.current = docReq[u].current
  BY <1>1, <1>2 DEF DocRecord, DocFields
<1>4. Goto(u, at) = [docReq EXCEPT ![u] = q]
  BY <1>1 DEF Goto
<1> QED
  BY <1>3, <1>4 DEF DocTo

\* The same, with another field set as well.
LEMMA DocGotoSetFacts ==
  ASSUME DocInv, NEW u \in DocUsers, NEW at, NEW x
  PROVE  /\ \E q : DocTo([Goto(u, at) EXCEPT ![u].role = x], u, at, q)
         /\ \E q : DocTo([Goto(u, at) EXCEPT ![u].doc = x], u, at, q)
         /\ \E q : DocTo([Goto(u, at) EXCEPT ![u].got = x], u, at, q)
<1>1. DocRecord(docReq[u]) /\ DOMAIN docReq = DocUsers
  BY DEF DocInv
<1>2. /\ [Goto(u, at) EXCEPT ![u].role = x] = [docReq EXCEPT ![u] = [docReq[u] EXCEPT !.at = at, !.role = x]]
      /\ [Goto(u, at) EXCEPT ![u].doc = x] = [docReq EXCEPT ![u] = [docReq[u] EXCEPT !.at = at, !.doc = x]]
      /\ [Goto(u, at) EXCEPT ![u].got = x] = [docReq EXCEPT ![u] = [docReq[u] EXCEPT !.at = at, !.got = x]]
  BY <1>1 DEF Goto
<1>3. PICK q : q = [docReq[u] EXCEPT !.at = at, !.role = x]
  OBVIOUS
<1>4. PICK r : r = [docReq[u] EXCEPT !.at = at, !.doc = x]
  OBVIOUS
<1>5. PICK s : s = [docReq[u] EXCEPT !.at = at, !.got = x]
  OBVIOUS
<1>6. /\ DocRecord(q) /\ q.at = at
      /\ q.call = docReq[u].call /\ q.member = docReq[u].member /\ q.current = docReq[u].current
  BY <1>1, <1>3 DEF DocRecord, DocFields
<1>7. /\ DocRecord(r) /\ r.at = at
      /\ r.call = docReq[u].call /\ r.member = docReq[u].member /\ r.current = docReq[u].current
  BY <1>1, <1>4 DEF DocRecord, DocFields
<1>8. /\ DocRecord(s) /\ s.at = at
      /\ s.call = docReq[u].call /\ s.member = docReq[u].member /\ s.current = docReq[u].current
  BY <1>1, <1>5 DEF DocRecord, DocFields
<1>9. DocTo([Goto(u, at) EXCEPT ![u].role = x], u, at, q)
  BY <1>2, <1>3, <1>6 DEF DocTo
<1>10. DocTo([Goto(u, at) EXCEPT ![u].doc = x], u, at, r)
  BY <1>2, <1>4, <1>7 DEF DocTo
<1>11. DocTo([Goto(u, at) EXCEPT ![u].got = x], u, at, s)
  BY <1>2, <1>5, <1>8 DEF DocTo
<1> QED
  BY <1>9, <1>10, <1>11

\* Requests that look at the tables as they become.
LEMMA DocObserveInv ==
  ASSUME NEW q, DOMAIN q = DocUsers, \A u \in DocUsers : DocRecord(q[u]) /\ DocChecked(q[u]),
         docReq' = Observe(q, docs', docRoles')
  PROVE  DocInv'
<1>1. DOMAIN docReq' = DocUsers
  BY DEF Observe
<1>2. ASSUME NEW u \in DocUsers
      PROVE  DocRecord(docReq'[u]) /\ DocChecked(docReq'[u]) /\ DocSeen(docReq'[u], u, docs', docRoles')
  <2>1. CASE q[u].at \in {"idle", "done"}
    <3>1. docReq'[u] = q[u]
      BY <2>1 DEF Observe
    <3> QED
      BY <2>1, <3>1 DEF DocSeen
  <2>2. CASE q[u].at \notin {"idle", "done"}
    <3>1. PICK r : r = [q[u] EXCEPT !.member = q[u].member \/ docRoles'[u] # "none",
                                    !.current = q[u].current \/ MatchIsCurrent(q[u].call, docs')]
      OBVIOUS
    <3>2. docReq'[u] = r
      BY <2>2, <3>1 DEF Observe
    <3>3. DocRecord(q[u]) /\ DocChecked(q[u])
      OBVIOUS
    <3>4. /\ DOMAIN r = DocFields /\ r.at = q[u].at /\ r.call = q[u].call /\ r.status = q[u].status
          /\ r.member = (q[u].member \/ docRoles'[u] # "none")
          /\ r.current = (q[u].current \/ MatchIsCurrent(q[u].call, docs'))
      BY <3>1, <3>3 DEF DocRecord, DocFields
    <3>5. DocRecord(r)
      BY <3>3, <3>4 DEF DocRecord
    <3>6. DocChecked(r)
      BY <3>3, <3>4 DEF DocChecked, DocRecord
    <3>7. DocSeen(r, u, docs', docRoles')
      BY <3>4 DEF DocSeen
    <3> QED
      BY <3>2, <3>5, <3>6, <3>7
  <2> QED
    BY <2>1, <2>2
<1> QED
  BY <1>1, <1>2 DEF DocInv

\* A statement that writes documents.
LEMMA DocWriteInv ==
  ASSUME DocInv, NEW u \in DocUsers, docReq[u].at \notin {"idle", "role", "done"},
         NEW r, NEW q, Write(u, r, [docReq EXCEPT ![u] = q]),
         DocRecord(q), DocChecked(q)
  PROVE  DocInv'
<1>1. docs' = r.t /\ docRoles' = docRoles
  BY DEF Write
<1> PICK st : st = r.st
  OBVIOUS
<1>2. PICK f : DocTo(Finish(u, st), u, "done", f) /\ f.status = st
  BY DocFinishFacts
<1>3. PICK n : n = IF r.st = "ok" THEN q ELSE f
  OBVIOUS
<1>4. DocRecord(n) /\ DocChecked(n)
  BY <1>2, <1>3 DEF DocChecked, DocTo
<1>5. PICK t : t = [docReq EXCEPT ![u] = n]
  OBVIOUS
<1>6. docReq' = Observe(t, docs', docRoles')
  BY <1>1, <1>2, <1>3, <1>5 DEF Write, DocTo
<1>7. DOMAIN t = DocUsers /\ t[u] = n /\ \A v \in DocUsers : v # u => t[v] = docReq[v]
  BY <1>5 DEF DocInv
<1>8. \A v \in DocUsers : DocRecord(t[v]) /\ DocChecked(t[v])
  BY <1>4, <1>7 DEF DocInv
<1> QED
  BY <1>6, <1>7, <1>8, DocObserveInv

LEMMA DocBeginInv ==
  ASSUME DocInv, NEW u \in DocUsers, NEW c \in DocCalls, DocBegin(u, c)
  PROVE  DocInv'
<1>1. PICK q : q = [IdleReq EXCEPT !.at = "role", !.call = c, !.member = docRoles[u] # "none",
                                  !.current = MatchIsCurrent(c, docs)]
  OBVIOUS
<1>2. /\ DOMAIN q = DocFields /\ q.at = "role" /\ q.call = c /\ q.member = (docRoles[u] # "none")
      /\ q.current = MatchIsCurrent(c, docs)
  BY <1>1 DEF IdleReq, DocFields
<1>3. DocRecord(q) /\ DocChecked(q) /\ DocSeen(q, u, docs, docRoles)
  BY <1>2 DEF DocRecord, DocChecked, DocSeen, MatchIsCurrent
<1>4. docReq' = [docReq EXCEPT ![u] = q] /\ UNCHANGED <<docs, docRoles>>
  BY <1>1 DEF DocBegin
<1> QED
  BY <1>3, <1>4, DocMoveInv

\* A request that is busy ends with an answer it may have, or moves on to a
\* step it has been checked for.
LEMMA DocEndInv ==
  ASSUME DocInv, NEW u \in DocUsers, UNCHANGED <<docs, docRoles>>, NEW st, docReq' = Finish(u, st),
         st = "ok" => docReq[u].member /\ (docReq[u].call.op \in DocChanges => docReq[u].current)
  PROVE  DocInv'
<1>1. PICK q : DocTo(Finish(u, st), u, "done", q) /\ q.status = st
  BY DocFinishFacts
<1>2. DocChecked(q) /\ DocSeen(q, u, docs, docRoles)
  BY <1>1 DEF DocChecked, DocSeen, DocTo
<1>3. docReq' = [docReq EXCEPT ![u] = q] /\ DocRecord(q)
  BY <1>1 DEF DocTo
<1> QED
  BY <1>2, <1>3, DocMoveInv

LEMMA DocGoesInv ==
  ASSUME DocInv, NEW u \in DocUsers, UNCHANGED <<docs, docRoles>>,
         NEW next, NEW at \in {"acl", "op", "write"}, NEW q, DocTo(next, u, at, q), docReq' = next,
         docReq[u].at \notin {"idle", "done"}, docReq[u].member,
         at = "write" /\ docReq[u].call.op \in DocChanges => docReq[u].current
  PROVE  DocInv'
<1>1. DocSeen(docReq[u], u, docs, docRoles)
  BY DEF DocInv
<1>2. DocChecked(q) /\ DocSeen(q, u, docs, docRoles)
  BY <1>1 DEF DocChecked, DocSeen, DocTo
<1>3. docReq' = [docReq EXCEPT ![u] = q] /\ DocRecord(q)
  BY DEF DocTo
<1> QED
  BY <1>2, <1>3, DocMoveInv

LEMMA DocRequireRoleInv ==
  ASSUME DocInv, NEW u \in DocUsers, doc_require_workspace_role(u) \/ doc_require_document_role(u)
  PROVE  DocInv'
<1>1. UNCHANGED <<docs, docRoles>> /\ docReq[u].at \in {"role", "acl"}
  BY DEF doc_require_workspace_role, doc_require_document_role
<1>2. DocChecked(docReq[u]) /\ DocSeen(docReq[u], u, docs, docRoles)
  BY DEF DocInv
<1>3. ASSUME NEW st, st # "ok", docReq' = Finish(u, st) PROVE DocInv'
  BY <1>1, <1>3, DocEndInv
<1>4. ASSUME docReq[u].member, docReq' = Goto(u, "op") PROVE DocInv'
  <2>1. PICK q : DocTo(Goto(u, "op"), u, "op", q)
    BY DocGotoFacts
  <2> QED
    BY <1>1, <1>4, <2>1, DocGoesInv
<1>5. ASSUME docReq[u].member, NEW role, docReq' = [Goto(u, "acl") EXCEPT ![u].role = role] PROVE DocInv'
  <2>1. PICK q : DocTo([Goto(u, "acl") EXCEPT ![u].role = role], u, "acl", q)
    BY DocGotoSetFacts
  <2> QED
    BY <1>1, <1>5, <2>1, DocGoesInv
<1>6. CASE doc_require_workspace_role(u)
  <2>1. docReq[u].at = "role"
    BY <1>6 DEF doc_require_workspace_role
  <2>2. docRoles[u] # "none" => docReq[u].member
    BY <1>2, <2>1 DEF DocSeen
  <2>3. \/ \E st : st # "ok" /\ docReq' = Finish(u, st)
        \/ docRoles[u] # "none" /\ docReq' = Goto(u, "op")
        \/ docRoles[u] # "none" /\ \E role : docReq' = [Goto(u, "acl") EXCEPT ![u].role = role]
    BY <1>6 DEF doc_require_workspace_role, workspace_role_for_user_pg
  <2> QED
    BY <1>3, <1>4, <1>5, <2>2, <2>3
<1>7. CASE doc_require_document_role(u)
  <2>1. docReq[u].member
    BY <1>2, <1>7 DEF doc_require_document_role, DocChecked
  <2>2. (\E st : st # "ok" /\ docReq' = Finish(u, st)) \/ docReq' = Goto(u, "op")
    BY <1>7 DEF doc_require_document_role
  <2> QED
    BY <1>3, <1>4, <2>1, <2>2
<1> QED
  BY <1>6, <1>7

LEMMA DocReadsInv ==
  ASSUME DocInv, NEW u \in DocUsers,
         get_document(u) \/ list_documents(u) \/ doc_check_etag(u) \/ create_acl_override_find(u)
            \/ create_acl_override(u) \/ delete_acl_override(u) \/ try_record_document_audit_event(u)
  PROVE  DocInv'
<1> DEFINE c == docReq[u].call
<1>1. UNCHANGED <<docs, docRoles>>
  BY DEF get_document, list_documents, doc_check_etag, create_acl_override_find, create_acl_override,
         delete_acl_override, try_record_document_audit_event, WriteAcl
<1>2. docReq[u].at \in {"op", "write", "audit"}
  BY DEF get_document, list_documents, doc_check_etag, create_acl_override_find, create_acl_override,
         delete_acl_override, try_record_document_audit_event
<1>3. DocChecked(docReq[u]) /\ DocSeen(docReq[u], u, docs, docRoles)
  BY DEF DocInv
<1>4. docReq[u].member
  BY <1>2, <1>3 DEF DocChecked
<1>5. ASSUME NEW st, docReq' = Finish(u, st), c.op \notin DocChanges \/ st # "ok" \/ docReq[u].current PROVE DocInv'
  BY <1>1, <1>4, <1>5, DocEndInv
<1>6. CASE get_document(u)
  BY <1>5, <1>6 DEF get_document, DocChanges
<1>7. CASE list_documents(u)
  BY <1>5, <1>7 DEF list_documents, DocChanges
<1>8. CASE doc_check_etag(u)
  <2>1. docReq[u].at = "op" /\ c.op \in DocChanges
    BY <1>8 DEF doc_check_etag, DocChanges
  <2>2. CASE check_etag_pg(docs, c.ws, c.doc, c.match) # "ok"
    BY <1>5, <1>8, <2>2 DEF doc_check_etag
  <2>3. CASE check_etag_pg(docs, c.ws, c.doc, c.match) = "ok"
    <3>1. docReq' = [Goto(u, "write") EXCEPT ![u].got = docs[c.doc].archived]
      BY <1>8, <2>3 DEF doc_check_etag
    <3>2. MatchIsCurrent(c, docs)
      BY <2>1, <2>3 DEF check_etag_pg, DocLive, MatchIsCurrent, DocChanges
    <3>3. docReq[u].current
      BY <1>3, <2>1, <3>2 DEF DocSeen
    <3>4. PICK x : x = docs[c.doc].archived
      OBVIOUS
    <3>5. PICK q : DocTo([Goto(u, "write") EXCEPT ![u].got = x], u, "write", q)
      BY DocGotoSetFacts
    <3>6. docReq' = [Goto(u, "write") EXCEPT ![u].got = x]
      BY <3>1, <3>4
    <3> QED
      BY <1>1, <1>2, <1>4, <3>3, <3>5, <3>6, DocGoesInv
  <2> QED
    BY <2>2, <2>3
<1>9. CASE create_acl_override_find(u)
  <2>1. docReq[u].at = "op" /\ c.op \notin DocChanges
    BY <1>9 DEF create_acl_override_find, DocChanges
  <2>2. CASE ~DocLive(docs, c.ws, c.doc)
    BY <1>5, <1>9, <2>2 DEF create_acl_override_find
  <2>3. CASE DocLive(docs, c.ws, c.doc)
    <3>1. docReq' = Goto(u, "write")
      BY <1>9, <2>3 DEF create_acl_override_find
    <3>2. PICK q : DocTo(Goto(u, "write"), u, "write", q)
      BY DocGotoFacts
    <3> QED
      BY <1>1, <1>2, <1>4, <2>1, <3>1, <3>2, DocGoesInv
  <2> QED
    BY <2>2, <2>3
<1>10. CASE create_acl_override(u)
  BY <1>5, <1>10 DEF create_acl_override, WriteAcl, DocChanges
<1>11. CASE delete_acl_override(u)
  BY <1>5, <1>11 DEF delete_acl_override, WriteAcl, DocChanges
<1>12. CASE try_record_document_audit_event(u)
  <2>1. c.op \in DocChanges => docReq[u].current
    BY <1>3, <1>12 DEF try_record_document_audit_event, DocChecked
  <2> QED
    BY <1>5, <1>12, <2>1 DEF try_record_document_audit_event
<1> QED
  BY <1>6, <1>7, <1>8, <1>9, <1>10, <1>11, <1>12

LEMMA DocWritesInv ==
  ASSUME DocInv, NEW u \in DocUsers,
         create_document(u) \/ create_document_tags(u) \/ update_document(u) \/ delete_document(u)
            \/ update_document_tags(u)
  PROVE  DocInv'
<1> DEFINE c == docReq[u].call
<1>1. docReq[u].at \in {"op", "write", "tags"}
  BY DEF create_document, create_document_tags, update_document, delete_document, update_document_tags
<1>2. DocChecked(docReq[u])
  BY DEF DocInv
<1>3. docReq[u].member
  BY <1>1, <1>2 DEF DocChecked
<1>4. ASSUME NEW r, NEW next, NEW at, NEW q, Write(u, r, next), DocTo(next, u, at, q), DocChecked(q) PROVE DocInv'
  <2>1. next = [docReq EXCEPT ![u] = q] /\ DocRecord(q)
    BY <1>4 DEF DocTo
  <2> QED
    BY <1>1, <1>4, <2>1, DocWriteInv
<1>5. CASE create_document(u)
  <2>1. c.op = "create"
    BY <1>5 DEF create_document
  <2>2. PICK d \in DocIds \ DOMAIN docs :
          Write(u, create_pg(docs, d, c.ws, c.path, docTick + 1),
                [Goto(u, IF c.tags = {} THEN "audit" ELSE "tags") EXCEPT ![u].doc = d])
    BY <1>5 DEF create_document
  <2>3. PICK at : at = IF c.tags = {} THEN "audit" ELSE "tags"
    OBVIOUS
  <2>4. PICK q : DocTo([Goto(u, at) EXCEPT ![u].doc = d], u, at, q)
    BY DocGotoSetFacts
  <2>5. DocChecked(q)
    BY <1>3, <2>1, <2>3, <2>4 DEF DocChecked, DocChanges, DocTo
  <2> QED
    BY <1>4, <2>2, <2>3, <2>4, <2>5
<1>6. CASE create_document_tags(u)
  <2>1. c.op = "create"
    BY <1>2, <1>6 DEF create_document_tags, DocChecked
  <2>2. PICK q : DocTo(Goto(u, "audit"), u, "audit", q)
    BY DocGotoFacts
  <2>3. DocChecked(q)
    BY <1>3, <2>1, <2>2 DEF DocChecked, DocChanges, DocTo
  <2> QED
    BY <1>4, <1>6, <2>2, <2>3 DEF create_document_tags
<1>7. CASE update_document(u) \/ delete_document(u)
  <2>1. c.op \in DocChanges /\ docReq[u].at = "write"
    BY <1>7 DEF update_document, delete_document, DocChanges
  <2>2. docReq[u].current
    BY <1>2, <2>1 DEF DocChecked
  <2>3. PICK d : d = c.doc
    OBVIOUS
  <2>4. PICK q : DocTo([Goto(u, "audit") EXCEPT ![u].doc = d], u, "audit", q)
    BY DocGotoSetFacts
  <2>5. DocChecked(q)
    BY <1>3, <2>2, <2>4 DEF DocChecked, DocTo
  <2>6. \E r : Write(u, r, [Goto(u, "audit") EXCEPT ![u].doc = d])
    BY <1>7, <2>3 DEF update_document, delete_document
  <2> QED
    BY <1>4, <2>4, <2>5, <2>6
<1>8. CASE update_document_tags(u)
  <2>1. c.op = "tags"
    BY <1>8 DEF update_document_tags
  <2>2. PICK q : DocTo(Finish(u, "ok"), u, "done", q) /\ q.status = "ok"
    BY DocFinishFacts
  <2>3. DocChecked(q)
    BY <1>3, <2>1, <2>2 DEF DocChecked, DocChanges, DocTo
  <2> QED
    BY <1>4, <1>8, <2>2, <2>3 DEF update_document_tags
<1> QED
  BY <1>5, <1>6, <1>7, <1>8

LEMMA DocNextInv == DocInv /\ [DocsNext]_docVars => DocInv'
<1>1. ASSUME DocInv, UNCHANGED docVars PROVE DocInv'
  BY <1>1 DEF docVars, DocInv
<1>2. ASSUME DocInv, NEW u \in DocUsers, DocsStep(u) PROVE DocInv'
  BY <1>2, DocRequireRoleInv, DocReadsInv, DocWritesInv DEF DocsStep
<1>3. ASSUME DocInv, NEW u \in DocUsers, NEW role, DocRoleChange(u, role) PROVE DocInv'
  <2>1. docReq' = Observe(docReq, docs', docRoles')
    BY <1>3 DEF DocRoleChange
  <2> QED
    BY <1>3, <2>1, DocObserveInv DEF DocInv
<1> QED
  BY <1>1, <1>2, <1>3, DocBeginInv DEF DocsNext

-----------------------------------------------------------------------------
(* Comments.  Every change of a thread's status names a version the thread *)
(* has left behind; a message that was written is in its thread at every   *)
(* later step of its request.                                              *)

ComFields == {"at", "call", "thread", "msg", "view", "status"}

ComTypeOK ==
    /\ DOMAIN comReq = ComUsers /\ \A u \in ComUsers : DOMAIN comReq[u] = ComFields
    /\ DOMAIN threads \subseteq ComThreads /\ DOMAIN messages = DOMAIN threads
    /\ \A i \in DOMAIN threads : /\ DOMAIN threads[i] = {"ws", "doc", "status", "version"}
                                 /\ threads[i].version \in Nat /\ messages[i] \in Seq(Nat)
    /\ comMoves \in Seq(ComThreads \X Nat)
    /\ comCount \in [calls : Nat, msgs : Nat]

ComMovesOld ==
    \A j \in DOMAIN comMoves : comMoves[j][1] \in DOMAIN threads /\ comMoves[j][2] < threads[comMoves[j][1]].version

\* The request's own message is where it will look for it.
ComReqOK(u) ==
    LET c == comReq[u].call
    IN comReq[u].msg # 0 =>
          /\ c.op = "message" /\ comReq[u].at \in {"thread", "messages", "done"}
          /\ InThread(threads, c.ws, c.thread) /\ comReq[u].msg \in ToSet(messages[c.thread])
          /\ comReq[u].at = "done" => comReq[u].status = "ok"

ComReqsOK == \A u \in ComUsers : ComReqOK(u)

ComInv == ComTypeOK /\ ComMovesOld /\ ComVersionOnce /\ ComReqsOK

LEMMA ComInitInv == ComInit => ComInv
<1> SUFFICES ASSUME ComInit PROVE ComInv
  OBVIOUS
<1>1. DOMAIN comReq = ComUsers /\ \A u \in ComUsers : DOMAIN comReq[u] = ComFields /\ comReq[u].msg = 0
  BY DEF ComInit, ComIdle, ComFields
<1>2. DOMAIN threads = {} /\ DOMAIN messages = {} /\ comMoves = <<>> /\ comCount \in [calls : Nat, msgs : Nat]
  BY DEF ComInit
<1>3. comMoves \in Seq(ComThreads \X Nat) /\ DOMAIN comMoves = {}
  BY <1>2
<1>4. ComTypeOK
  BY <1>1, <1>2, <1>3 DEF ComTypeOK
<1>5. ComMovesOld /\ ComVersionOnce /\ ComReqsOK
  BY <1>1, <1>2, <1>3 DEF ComMovesOld, ComVersionOnce, ComReqsOK, ComReqOK
<1> QED
  BY <1>4, <1>5 DEF ComInv

\* The request of u alone changes.
ComOnly(u) ==
    /\ DOMAIN comReq' = ComUsers /\ DOMAIN comReq'[u] = ComFields
    /\ \A v \in ComUsers : v # u => comReq'[v] = comReq[v]

\* Threads stay in their workspace, and messages in their thread.
ComGrows ==
    /\ \A ws, i : InThread(threads, ws, i) => InThread(threads', ws, i)
    /\ \A i \in DOMAIN messages : ToSet(messages[i]) \subseteq ToSet(messages'[i])

LEMMA ComOthersKept ==
  ASSUME ComInv, NEW u \in ComUsers, ComOnly(u), ComGrows, ComReqOK(u)'
  PROVE  ComReqsOK'
<1>1. ASSUME NEW v \in ComUsers, v # u PROVE ComReqOK(v)'
  <2>1. comReq'[v] = comReq[v] /\ ComReqOK(v)
    BY <1>1 DEF ComOnly, ComInv, ComReqsOK
  <2>2. \A ws, i : InThread(threads, ws, i) => i \in DOMAIN messages
    BY DEF InThread, ComInv, ComTypeOK
  <2> QED
    BY <2>1, <2>2 DEF ComReqOK, ComGrows
<1> QED
  BY <1>1 DEF ComReqsOK

\* A step that writes neither threads nor messages.
LEMMA ComReadInv ==
  ASSUME ComInv, NEW u \in ComUsers, ComOnly(u), ComReqOK(u)', UNCHANGED <<threads, messages, comMoves>>,
         comCount' \in [calls : Nat, msgs : Nat]
  PROVE  ComInv'
<1>1. ComGrows
  BY DEF ComGrows, InThread
<1>2. ComReqsOK'
  BY <1>1, ComOthersKept
<1>3. ComTypeOK'
  BY DEF ComInv, ComTypeOK, ComOnly
<1>4. ComMovesOld' /\ ComVersionOnce'
  BY DEF ComInv, ComMovesOld, ComVersionOnce
<1> QED
  BY <1>2, <1>3, <1>4 DEF ComInv

LEMMA ComGotoFacts ==
  ASSUME ComInv, NEW u \in ComUsers, NEW at, comReq' = ComGoto(u, at)
  PROVE  ComOnly(u) /\ comReq'[u].at = at /\ comReq'[u].call = comReq[u].call /\ comReq'[u].msg = comReq[u].msg
BY DEF ComInv, ComTypeOK, ComFields, ComGoto, ComOnly

LEMMA ComFinishFacts ==
  ASSUME ComInv, NEW u \in ComUsers, NEW st, comReq' = ComFinish(u, st)
  PROVE  /\ ComOnly(u) /\ comReq'[u].at = "done" /\ comReq'[u].status = st
         /\ comReq'[u].call = comReq[u].call /\ comReq'[u].msg = comReq[u].msg
BY DEF ComInv, ComTypeOK, ComFields, ComFinish, ComOnly

LEMMA ComBeginInv ==
  ASSUME ComInv, NEW u \in ComUsers, NEW c \in ComCalls, ComBegin(u, c)
  PROVE  ComInv'
<1>1. PICK q : q = [ComIdle EXCEPT !.at = "role", !.call = c]
  OBVIOUS
<1>2. DOMAIN q = ComFields /\ q.msg = 0
  BY <1>1 DEF ComIdle, ComFields
<1>3. comReq' = [comReq EXCEPT ![u] = q] /\ UNCHANGED <<threads, messages, comMoves>>
  BY <1>1 DEF ComBegin
<1>4. comCount' \in [calls : Nat, msgs : Nat]
  BY DEF ComBegin, ComInv, ComTypeOK
<1>5. ComOnly(u) /\ comReq'[u].msg = 0
  BY <1>2, <1>3 DEF ComOnly, ComInv, ComTypeOK
<1>6. ComReqOK(u)'
  BY <1>5 DEF ComReqOK
<1> QED
  BY <1>3, <1>4, <1>5, <1>6, ComReadInv

\* A request that has written no message.
LEMMA ComPlainInv ==
  ASSUME ComInv, NEW u \in ComUsers, comReq[u].msg = 0, UNCHANGED <<threads, messages, comMoves, comCount>>,
         (\E at : comReq' = ComGoto(u, at)) \/ (\E st : comReq' = ComFinish(u, st))
  PROVE  ComInv'
<1>1. ComOnly(u) /\ comReq'[u].msg = 0
  BY ComGotoFacts, ComFinishFacts
<1>2. ComReqOK(u)' /\ comCount' \in [calls : Nat, msgs : Nat]
  BY <1>1 DEF ComReqOK, ComInv, ComTypeOK
<1> QED
  BY <1>1, <1>2, ComReadInv

LEMMA ComReadsInv ==
  ASSUME ComInv, NEW u \in ComUsers,
         com_require_workspace_role(u) \/ com_find_document(u) \/ list_comments(u) \/ com_explain(u)
            \/ com_view_thread(u) \/ com_view_messages(u) \/ try_record_comment_audit_event(u)
  PROVE  ComInv'
<1> DEFINE c == comReq[u].call
<1>1. UNCHANGED <<threads, messages, comMoves, comCount>>
  BY DEF com_require_workspace_role, com_find_document, list_comments, com_explain, com_view_thread,
         com_view_messages, try_record_comment_audit_event
<1>2. ComReqOK(u) /\ comCount' \in [calls : Nat, msgs : Nat]
  BY <1>1 DEF ComInv, ComReqsOK, ComTypeOK
<1>3. CASE com_require_workspace_role(u) \/ com_find_document(u) \/ com_explain(u) \/ try_record_comment_audit_event(u)
  <2>1. comReq[u].msg = 0
    BY <1>2, <1>3 DEF com_require_workspace_role, com_find_document, com_explain, try_record_comment_audit_event, ComReqOK
  <2>2. (\E at : comReq' = ComGoto(u, at)) \/ (\E st : comReq' = ComFinish(u, st))
    BY <1>3 DEF com_require_workspace_role, com_find_document, com_explain, try_record_comment_audit_event
  <2> QED
    BY <1>1, <2>1, <2>2, ComPlainInv
<1>4. CASE list_comments(u)
  <2>1. comReq[u].at = "op" /\ comReq[u].msg = 0
    BY <1>2, <1>4 DEF list_comments, ComReqOK
  <2>2. PICK v : comReq' = [comReq EXCEPT ![u].view = v, ![u].at = "messages"]
    BY <1>4 DEF list_comments
  <2>3. ComOnly(u) /\ comReq'[u].msg = 0
    BY <2>1, <2>2 DEF ComInv, ComTypeOK, ComFields, ComOnly
  <2>4. ComReqOK(u)'
    BY <2>3 DEF ComReqOK
  <2> QED
    BY <1>1, <1>2, <2>3, <2>4, ComReadInv
<1>5. CASE com_view_thread(u) \/ com_view_messages(u)
  <2>1. CASE comReq[u].msg = 0
    <3>1. (\E at : comReq' = ComGoto(u, at)) \/ (\E st : comReq' = ComFinish(u, st))
      BY <1>5 DEF com_view_thread, com_view_messages
    <3> QED
      BY <1>1, <2>1, <3>1, ComPlainInv
  <2>2. CASE comReq[u].msg # 0
    <3>1. c.op = "message" /\ InThread(threads, c.ws, c.thread) /\ comReq[u].msg \in ToSet(messages[c.thread])
      BY <1>2, <2>2 DEF ComReqOK
    <3>2. comReq' = ComGoto(u, "messages") \/ comReq' = ComFinish(u, "ok")
      BY <1>5, <3>1 DEF com_view_thread, com_view_messages, get_thread_with_messages_pg
    <3>3. /\ ComOnly(u) /\ comReq'[u].call = c /\ comReq'[u].msg = comReq[u].msg
          /\ comReq'[u].at = "messages" \/ (comReq'[u].at = "done" /\ comReq'[u].status = "ok")
      BY <3>2, ComGotoFacts, ComFinishFacts
    <3>4. ComReqOK(u)'
      BY <1>1, <3>1, <3>3 DEF ComReqOK, InThread
    <3> QED
      BY <1>1, <1>2, <3>3, <3>4, ComReadInv
  <2> QED
    BY <2>1, <2>2
<1> QED
  BY <1>3, <1>4, <1>5

\* The changes made to thread i.
ComMovesOf(i) == {k \in DOMAIN comMoves : comMoves[k][1] = i}

LEMMA CreateThreadInv ==
  ASSUME ComInv, NEW u \in ComUsers, create_comment_thread(u)
  PROVE  ComInv'
<1> DEFINE c == comReq[u].call
           n == comCount.msgs + 1
<1>1. /\ comReq[u].at = "op" /\ UNCHANGED comMoves /\ comCount' = [comCount EXCEPT !.msgs = n]
  BY DEF create_comment_thread
<1>2. ComTypeOK /\ comReq[u].msg = 0
  BY <1>1 DEF ComInv, ComReqsOK, ComReqOK
<1>3. n \in Nat /\ comCount' \in [calls : Nat, msgs : Nat]
  BY <1>1, <1>2 DEF ComTypeOK
<1>4. PICK row : row = [ws |-> c.ws, doc |-> c.doc, status |-> "open", version |-> 1]
  OBVIOUS
<1>5. PICK i \in ComThreads \ DOMAIN threads :
         /\ threads' = Insert(threads, i, row) /\ messages' = Insert(messages, i, <<n>>)
         /\ comReq' = [ComGoto(u, "audit") EXCEPT ![u].thread = i]
  BY <1>4 DEF create_comment_thread, create_thread_pg, Result
<1>6. /\ DOMAIN threads' = DOMAIN threads \cup {i} /\ threads'[i] = row
      /\ \A j \in DOMAIN threads : threads'[j] = threads[j]
  BY <1>5 DEF Insert
<1>7. /\ DOMAIN messages' = DOMAIN threads \cup {i} /\ messages'[i] = <<n>>
      /\ \A j \in DOMAIN threads : messages'[j] = messages[j]
  BY <1>2, <1>5 DEF Insert, ComTypeOK
<1>8. DOMAIN row = {"ws", "doc", "status", "version"} /\ row.version = 1 /\ row.status = "open"
  BY <1>4
<1>9. ComOnly(u) /\ comReq'[u].msg = 0
  BY <1>2, <1>5 DEF ComGoto, ComTypeOK, ComFields, ComOnly
<1>10. ComTypeOK'
  <2>1. <<n>> \in Seq(Nat)
    BY <1>3
  <2>2. DOMAIN comReq' = ComUsers /\ \A v \in ComUsers : DOMAIN comReq'[v] = ComFields
    BY <1>2, <1>9 DEF ComTypeOK, ComOnly
  <2>3. \A j \in DOMAIN threads' : /\ DOMAIN threads'[j] = {"ws", "doc", "status", "version"}
                                   /\ threads'[j].version \in Nat /\ messages'[j] \in Seq(Nat)
    <3> SUFFICES ASSUME NEW j \in DOMAIN threads'
                 PROVE  /\ DOMAIN threads'[j] = {"ws", "doc", "status", "version"}
                        /\ threads'[j].version \in Nat /\ messages'[j] \in Seq(Nat)
      OBVIOUS
    <3>1. CASE j = i
      <4>1. threads'[j] = row /\ messages'[j] = <<n>>
        BY <1>6, <1>7, <3>1
      <4>2. row.version \in Nat
        BY <1>8
      <4> QED
        BY <1>8, <2>1, <4>1, <4>2
    <3>2. CASE j # i
      <4>1. j \in DOMAIN threads /\ threads'[j] = threads[j] /\ messages'[j] = messages[j]
        BY <1>6, <1>7, <3>2
      <4>2. /\ DOMAIN threads[j] = {"ws", "doc", "status", "version"}
            /\ threads[j].version \in Nat /\ messages[j] \in Seq(Nat)
        BY <1>2, <4>1 DEF ComTypeOK
      <4> QED
        BY <4>1, <4>2
    <3> QED
      BY <3>1, <3>2
  <2>4. DOMAIN threads' \subseteq ComThreads /\ DOMAIN messages' = DOMAIN threads'
    BY <1>2, <1>5, <1>6, <1>7 DEF ComTypeOK
  <2>5. comMoves' \in Seq(ComThreads \X Nat)
    BY <1>1, <1>2 DEF ComTypeOK
  <2> QED
    BY <1>3, <2>2, <2>3, <2>4, <2>5 DEF ComTypeOK
<1>11. ComGrows
  BY <1>2, <1>6, <1>7 DEF ComGrows, InThread, ComTypeOK
<1>12. ComReqsOK'
  <2>1. ComReqOK(u)'
    BY <1>9 DEF ComReqOK
  <2> QED
    BY <1>9, <1>11, <2>1, ComOthersKept
<1>13. ComMovesOld'
  BY <1>1, <1>6 DEF ComInv, ComMovesOld
<1>14. ComVersionOnce'
  <2>1. Cardinality(ComMovesOf(i)) = 0
    <3>1. ComMovesOf(i) = {}
      BY <1>5 DEF ComMovesOf, ComInv, ComMovesOld
    <3> QED
      BY <3>1, FS_EmptySet
  <2>2. ASSUME NEW j \in DOMAIN threads'
        PROVE  /\ threads'[j].version = 1 + Cardinality(ComMovesOf(j))
               /\ threads'[j].status = IF threads'[j].version % 2 = 1 THEN "open" ELSE "resolved"
    <3>1. CASE j = i
      <4>1. 1 % 2 = 1
        OBVIOUS
      <4> QED
        BY <1>6, <1>8, <2>1, <3>1, <4>1
    <3>2. CASE j # i
      <4>1. j \in DOMAIN threads /\ threads'[j] = threads[j]
        BY <1>6, <2>2, <3>2
      <4> QED
        BY <4>1 DEF ComInv, ComVersionOnce, ComMovesOf
    <3> QED
      BY <3>1, <3>2
  <2> QED
    BY <1>1, <2>2 DEF ComInv, ComVersionOnce, ComMovesOf
<1> QED
  BY <1>10, <1>12, <1>13, <1>14 DEF ComInv

LEMMA CreateMessageInv ==
  ASSUME ComInv, NEW u \in ComUsers, create_comment_message(u)
  PROVE  ComInv'
<1> DEFINE c == comReq[u].call
           n == comCount.msgs + 1
           open == InThread(threads, c.ws, c.thread) /\ threads[c.thread].status = "open"
<1>1. comReq[u].at = "op" /\ c.op = "message" /\ UNCHANGED <<threads, comMoves>>
  BY DEF create_comment_message
<1>2. ComTypeOK /\ comReq[u].msg = 0
  BY <1>1 DEF ComInv, ComReqsOK, ComReqOK
<1>3. n \in Nat /\ n # 0
  BY <1>2 DEF ComTypeOK
<1>4. CASE ~open
  <2>1. comReq' = ComGoto(u, "look") /\ UNCHANGED <<messages, comCount>>
    BY <1>4 DEF create_comment_message, create_message_pg, Result
  <2> QED
    BY <1>1, <1>2, <2>1, ComPlainInv
<1>5. CASE open
  <2>1. /\ comReq' = [ComGoto(u, "thread") EXCEPT ![u].msg = n]
        /\ messages' = [messages EXCEPT ![c.thread] = Append(@, n)]
        /\ comCount' = [comCount EXCEPT !.msgs = n]
    BY <1>5 DEF create_comment_message, create_message_pg, Result
  <2>2. /\ ComOnly(u) /\ comReq'[u].msg = n /\ comReq'[u].at = "thread" /\ comReq'[u].call = c
    BY <1>2, <2>1 DEF ComGoto, ComTypeOK, ComFields, ComOnly
  <2>3. c.thread \in DOMAIN messages /\ messages[c.thread] \in Seq(Nat)
    BY <1>2, <1>5 DEF InThread, ComTypeOK
  <2>4. /\ DOMAIN messages' = DOMAIN messages /\ messages'[c.thread] = Append(messages[c.thread], n)
        /\ \A j \in DOMAIN messages : j # c.thread => messages'[j] = messages[j]
    BY <2>1, <2>3
  <2>5. /\ messages'[c.thread] \in Seq(Nat) /\ n \in ToSet(messages'[c.thread])
        /\ ToSet(messages[c.thread]) \subseteq ToSet(messages'[c.thread])
    <3>1. PICK s \in Seq(Nat), x \in Nat : s = messages[c.thread] /\ x = n
      BY <1>3, <2>3
    <3>2. /\ Append(s, x) \in Seq(Nat) /\ DOMAIN Append(s, x) = 1..Len(s) + 1 /\ Append(s, x)[Len(s) + 1] = x
          /\ DOMAIN s = 1..Len(s) /\ Len(s) \in Nat /\ \A k \in 1..Len(s) : Append(s, x)[k] = s[k]
      OBVIOUS
    <3>3. x \in ToSet(Append(s, x)) /\ ToSet(s) \subseteq ToSet(Append(s, x))
      BY <3>2 DEF ToSet
    <3> QED
      BY <2>4, <3>1, <3>2, <3>3
  <2>6. ComTypeOK'
    <3>1. comCount' \in [calls : Nat, msgs : Nat]
      BY <1>2, <1>3, <2>1 DEF ComTypeOK
    <3> QED
      BY <1>1, <1>2, <2>2, <2>4, <2>5, <3>1 DEF ComTypeOK, ComOnly
  <2>7. ComGrows
    BY <1>1, <2>4, <2>5 DEF ComGrows, InThread
  <2>8. ComReqOK(u)'
    BY <1>1, <1>5, <2>2, <2>5 DEF ComReqOK, InThread
  <2>9. ComReqsOK'
    BY <2>2, <2>7, <2>8, ComOthersKept
  <2>10. ComMovesOld' /\ ComVersionOnce'
    BY <1>1 DEF ComInv, ComMovesOld, ComVersionOnce
  <2> QED
    BY <2>6, <2>9, <2>10 DEF ComInv
<1> QED
  BY <1>4, <1>5

\* A version more has the other parity.
LEMMA NextParity ==
  ASSUME NEW v \in Nat
  PROVE  ((v + 1) % 2 = 1) <=> ~(v % 2 = 1)
OBVIOUS

LEMMA SetStatusInv ==
  ASSUME ComInv, NEW u \in ComUsers, set_thread_status(u)
  PROVE  ComInv'
<1> DEFINE c == comReq[u].call
           met == /\ InThread(threads, c.ws, c.thread) /\ threads[c.thread].version = c.version
                  /\ threads[c.thread].status = required_current_status(c.op)
<1>1. comReq[u].at = "op" /\ c.op \in {"resolved", "open"} /\ UNCHANGED <<messages, comCount>>
  BY DEF set_thread_status
<1>2. ComTypeOK /\ comReq[u].msg = 0
  BY <1>1 DEF ComInv, ComReqsOK, ComReqOK
<1>3. CASE ~met
  <2>1. comReq' = ComGoto(u, "look") /\ UNCHANGED <<threads, comMoves>>
    BY <1>3 DEF set_thread_status, set_thread_status_pg, Result
  <2> QED
    BY <1>1, <1>2, <2>1, ComPlainInv
<1>4. CASE met
  <2> PICK i : i = c.thread
    OBVIOUS
  <2>1. /\ comReq' = [ComGoto(u, "audit") EXCEPT ![u].thread = i]
        /\ threads' = [threads EXCEPT ![i].status = c.op, ![i].version = @ + 1]
        /\ comMoves' = Append(comMoves, <<i, c.version>>)
    BY <1>4 DEF set_thread_status, set_thread_status_pg, Result
  <2>2. ComOnly(u) /\ comReq'[u].msg = 0
    BY <1>2, <2>1 DEF ComGoto, ComTypeOK, ComFields, ComOnly
  <2>3. i \in DOMAIN threads /\ threads[i].ws = c.ws /\ DOMAIN threads[i] = {"ws", "doc", "status", "version"}
    BY <1>2, <1>4 DEF InThread, ComTypeOK
  <2>4. PICK v \in Nat : v = threads[i].version /\ v = c.version
    BY <1>2, <1>4, <2>3 DEF ComTypeOK
  <2>5. /\ DOMAIN threads' = DOMAIN threads /\ \A j \in DOMAIN threads : j # i => threads'[j] = threads[j]
        /\ DOMAIN threads'[i] = {"ws", "doc", "status", "version"} /\ threads'[i].ws = threads[i].ws
        /\ threads'[i].status = c.op /\ threads'[i].version = v + 1
    BY <2>1, <2>3, <2>4
  <2>6. PICK e \in ComThreads \X Nat : e = <<i, v>>
    BY <1>2, <2>3 DEF ComTypeOK
  <2>7. e[1] = i /\ e[2] = v /\ comMoves' = Append(comMoves, e) /\ comMoves \in Seq(ComThreads \X Nat)
    BY <1>2, <2>1, <2>4, <2>6 DEF ComTypeOK
  <2>8. PICK L \in Nat : L = Len(comMoves)
    BY <2>7
  <2>9. /\ comMoves' \in Seq(ComThreads \X Nat) /\ DOMAIN comMoves' = 1..L + 1 /\ DOMAIN comMoves = 1..L
        /\ comMoves'[L + 1] = e /\ \A k \in 1..L : comMoves'[k] = comMoves[k]
    BY <2>7, <2>8
  <2>10. ASSUME NEW k \in 1..L
         PROVE  /\ comMoves[k][1] \in DOMAIN threads /\ comMoves[k] # e
                /\ comMoves[k][2] < threads'[comMoves[k][1]].version
    <3>1. comMoves[k] \in ComThreads \X Nat /\ comMoves[k][2] \in Nat
      BY <2>7, <2>9
    <3>2. comMoves[k][1] \in DOMAIN threads /\ comMoves[k][2] < threads[comMoves[k][1]].version
      BY <2>9 DEF ComInv, ComMovesOld
    <3>3. comMoves[k] = e => comMoves[k][2] = v /\ threads[comMoves[k][1]].version = v
      BY <2>4, <2>7
    <3>4. comMoves[k] # e
      BY <3>1, <3>2, <3>3
    <3>5. CASE comMoves[k][1] = i
      <4>1. comMoves[k][2] < v /\ threads'[comMoves[k][1]].version = v + 1
        BY <2>4, <2>5, <3>2, <3>5
      <4> QED
        BY <3>1, <3>2, <3>4, <4>1
    <3>6. CASE comMoves[k][1] # i
      BY <2>5, <3>2, <3>4, <3>6
    <3> QED
      BY <3>5, <3>6
  <2>11. ComTypeOK'
    <3>1. DOMAIN comReq' = ComUsers /\ \A x \in ComUsers : DOMAIN comReq'[x] = ComFields
      BY <1>2, <2>2 DEF ComTypeOK, ComOnly
    <3>2. \A j \in DOMAIN threads' : /\ DOMAIN threads'[j] = {"ws", "doc", "status", "version"}
                                     /\ threads'[j].version \in Nat /\ messages'[j] \in Seq(Nat)
      <4> SUFFICES ASSUME NEW j \in DOMAIN threads'
                   PROVE  /\ DOMAIN threads'[j] = {"ws", "doc", "status", "version"}
                          /\ threads'[j].version \in Nat /\ messages'[j] \in Seq(Nat)
        OBVIOUS
      <4>1. j \in DOMAIN threads /\ messages'[j] = messages[j]
        BY <1>1, <2>5
      <4>2. /\ DOMAIN threads[j] = {"ws", "doc", "status", "version"}
            /\ threads[j].version \in Nat /\ messages[j] \in Seq(Nat)
        BY <1>2, <4>1 DEF ComTypeOK
      <4>3. CASE j = i
        <5>1. v + 1 \in Nat
          BY <2>4
        <5> QED
          BY <2>5, <4>1, <4>2, <4>3, <5>1
      <4>4. CASE j # i
        <5>1. threads'[j] = threads[j]
          BY <2>5, <4>1, <4>4
        <5> QED
          BY <4>1, <4>2, <5>1
      <4> QED
        BY <4>3, <4>4
    <3>3. /\ DOMAIN threads' \subseteq ComThreads /\ DOMAIN messages' = DOMAIN threads'
          /\ comCount' \in [calls : Nat, msgs : Nat]
      BY <1>1, <1>2, <2>5 DEF ComTypeOK
    <3> QED
      BY <2>9, <3>1, <3>2, <3>3 DEF ComTypeOK
  <2>12. ComMovesOld'
    <3>1. e[1] \in DOMAIN threads' /\ e[2] < threads'[e[1]].version
      BY <2>3, <2>5, <2>7
    <3> QED
      BY <2>5, <2>9, <2>10, <3>1 DEF ComMovesOld
  <2>13. ComReqsOK'
    <3>1. ComGrows
      BY <1>1, <2>3, <2>5 DEF ComGrows, InThread
    <3>2. ComReqOK(u)'
      BY <2>2 DEF ComReqOK
    <3> QED
      BY <2>2, <3>1, <3>2, ComOthersKept
  <2>14. ComVersionOnce'
    <3>1. \A j, k \in DOMAIN comMoves' : comMoves'[j] = comMoves'[k] => j = k
      <4>1. \A j, k \in 1..L : comMoves[j] = comMoves[k] => j = k
        BY <2>9 DEF ComInv, ComVersionOnce
      <4> QED
        BY <2>9, <2>10, <4>1
    <3>2. \A j \in DOMAIN threads : /\ threads[j].version = 1 + Cardinality(ComMovesOf(j))
                                    /\ threads[j].status = IF threads[j].version % 2 = 1 THEN "open" ELSE "resolved"
      BY DEF ComInv, ComVersionOnce, ComMovesOf
    <3>3. \A j : j # i => ComMovesOf(j)' = ComMovesOf(j)
      BY <2>7, <2>9 DEF ComMovesOf
    <3>4. Cardinality(ComMovesOf(i)') = Cardinality(ComMovesOf(i)) + 1 /\ Cardinality(ComMovesOf(i)) \in Nat
      <4>1. IsFiniteSet(1..L)
        BY FS_Interval
      <4>2. IsFiniteSet(ComMovesOf(i))
        BY <2>9, <4>1, FS_Subset DEF ComMovesOf
      <4>3. ComMovesOf(i)' = ComMovesOf(i) \cup {L + 1} /\ L + 1 \notin ComMovesOf(i)
        BY <2>7, <2>9 DEF ComMovesOf
      <4> QED
        BY <4>2, <4>3, FS_AddElement, FS_CardinalityType
    <3>5. threads'[i].version = 1 + Cardinality(ComMovesOf(i)')
      <4>1. v = 1 + Cardinality(ComMovesOf(i))
        BY <2>3, <2>4, <3>2
      <4> QED
        BY <2>5, <3>4, <4>1
    <3>6. threads'[i].status = IF threads'[i].version % 2 = 1 THEN "open" ELSE "resolved"
      <4>1. threads[i].status = IF v % 2 = 1 THEN "open" ELSE "resolved"
        BY <2>3, <2>4, <3>2
      <4>2. threads[i].status = IF c.op = "resolved" THEN "open" ELSE "resolved"
        BY <1>4 DEF required_current_status
      <4>3. ((v + 1) % 2 = 1) <=> ~(v % 2 = 1)
        BY NextParity
      <4> QED
        BY <1>1, <2>5, <4>1, <4>2, <4>3
    <3>7. \A j \in DOMAIN threads' : /\ threads'[j].version = 1 + Cardinality(ComMovesOf(j)')
                                     /\ threads'[j].status = IF threads'[j].version % 2 = 1 THEN "open" ELSE "resolved"
      BY <2>5, <3>2, <3>3, <3>5, <3>6
    <3> QED
      BY <3>1, <3>7 DEF ComVersionOnce, ComMovesOf
  <2> QED
    BY <2>11, <2>12, <2>13, <2>14 DEF ComInv
<1> QED
  BY <1>3, <1>4

LEMMA ComNextInv == ComInv /\ [ComNext]_comVars => ComInv'
<1>1. ASSUME ComInv, UNCHANGED <<threads, messages, comReq, comMoves, comCount>> PROVE ComInv'
  BY <1>1 DEF ComInv, ComTypeOK, ComMovesOld, ComVersionOnce, ComReqsOK, ComReqOK, InThread
<1>2. ASSUME ComInv, NEW u \in ComUsers, ComStep(u) PROVE ComInv'
  BY <1>2, ComReadsInv, CreateThreadInv, CreateMessageInv, SetStatusInv DEF ComStep
<1>3. ASSUME ComInv, NEW d, ComDeleteDocument(d) PROVE ComInv'
  BY <1>1, <1>3 DEF ComDeleteDocument
<1> QED
  BY <1>1, <1>2, <1>3, ComBeginInv DEF ComNext, comVars

\* A request that succeeded was justified by the rows it met, for any number
\* of users and requests: no update or delete of a document on an etag that
\* was out of date when it came in, nobody served who was no member, no two
\* changes of a thread on one version, and no message missing from its own
\* answer (update_pg, delete_pg, require_document_role, set_thread_status_pg,
\* create_message_pg).
THEOREM RequestsGuardedHolds == RestSpec => []RequestsGuarded
<1> DEFINE RowsInv == DocInv /\ ComInv
<1>1. RestInit => RowsInv
  BY DocInitInv, ComInitInv DEF RestInit
<1>2. RowsInv /\ [RestNext]_<<part, contentVars, accessVars>> => RowsInv'
  <2>1. ASSUME UNCHANGED docVars, DocInv PROVE DocInv'
    BY <2>1, DocNextInv
  <2>2. ASSUME UNCHANGED comVars, ComInv PROVE ComInv'
    BY <2>2, ComNextInv
  <2> QED
    BY <2>1, <2>2, DocNextInv, ComNextInv DEF RestNext, contentVars
<1>3. RowsInv => RequestsGuarded
  <2>1. DocInv => DocStaleEtagRefused /\ DocOnlyMembersServed
    BY DEF DocInv, DocChecked, DocChanges, DocStaleEtagRefused, DocOnlyMembersServed, DocSuccess
  <2>2. ComInv => ComVersionOnce /\ ComOwnMessageSeen
    BY DEF ComInv, ComReqsOK, ComReqOK, ComOwnMessageSeen
  <2> QED
    BY <2>1, <2>2 DEF RequestsGuarded
<1> QED
  BY <1>1, <1>2, <1>3, PTL DEF RestSpec

-----------------------------------------------------------------------------
(* The limiter of sign-ins and refreshes.  It forgets requests that are a  *)
(* window old, so that what it let through can be compared with its queue  *)
(* only from that time on.                                                 *)

AuthOps == {"start", "callback", "register", "login", "change", "refresh", "logout", "none"}

\* What was let through since t, and in the window that begins at t.
PassedSince(op, t) == {k \in DOMAIN allowed : allowed[k][1] = op /\ allowed[k][2] >= t}

PassedIn(op, t) ==
    {k \in DOMAIN allowed : allowed[k][1] = op /\ allowed[k][2] \in t .. t + RateWindow - 1}

QueuedSince(queue, t) == {j \in 1..Len(queue) : queue[j] >= t}

RateTypeOK ==
    /\ authTime \in Nat
    /\ \A op \in DOMAIN requests : requests[op] \in Seq(Nat)
    /\ allowed \in Seq(AuthOps \X Nat)
    /\ \A k \in DOMAIN allowed : allowed[k][2] <= authTime

RateQueued ==
    \A op \in DOMAIN requests, t \in Int : t > authTime - RateWindow =>
        Cardinality(PassedSince(op, t)) <= Cardinality(QueuedSince(requests[op], t))

RateBounded == \A op \in DOMAIN requests, t \in Int : Cardinality(PassedIn(op, t)) <= RateMax

RateInv == RateTypeOK /\ RateQueued /\ RateBounded

LEMMA RateInitInv == AuthInit => RateInv
<1> SUFFICES ASSUME AuthInit PROVE RateInv
  OBVIOUS
<1>1. /\ authTime = 0 /\ allowed = <<>> /\ DOMAIN requests = {"start", "callback", "refresh"}
      /\ \A op \in DOMAIN requests : requests[op] = <<>>
  BY DEF AuthInit
<1>2. \A op, t : PassedSince(op, t) = {} /\ PassedIn(op, t) = {}
  BY <1>1 DEF PassedSince, PassedIn
<1>3. \A t : QueuedSince(<<>>, t) = {}
  BY DEF QueuedSince
<1>4. RateTypeOK
  <2>1. <<>> \in Seq(Nat) /\ <<>> \in Seq(AuthOps \X Nat) /\ DOMAIN <<>> = {}
    OBVIOUS
  <2> QED
    BY <1>1, <2>1 DEF RateTypeOK
<1>5. RateQueued
  <2>1. Cardinality({}) <= Cardinality({})
    BY FS_EmptySet
  <2> QED
    BY <1>1, <1>2, <1>3, <2>1 DEF RateQueued
<1>6. RateBounded
  <2>1. Cardinality({}) = 0 /\ 0 <= RateMax
    BY FS_EmptySet, RateAssumption
  <2> QED
    BY <1>2, <2>1 DEF RateBounded
<1> QED
  BY <1>4, <1>5, <1>6 DEF RateInv

\* A set of numbers that has a member has a least one.
LEMMA LeastNumber ==
    ASSUME NEW S \in SUBSET Nat, S # {}
    PROVE  \E x \in S : \A y \in S : x <= y
<1> DEFINE R == {ss \in Nat \X Nat : ss[1] < ss[2]}
<1>1. IsWellFoundedOn(R, Nat)
  BY NatLessThanWellFounded DEF OpToRel
<1>2. \A m, n \in Nat : <<m, n>> \notin R => n <= m
  OBVIOUS
<1> HIDE DEF R
<1>3. PICK x \in S : \A y \in S : ~(<<y, x>> \in R)
  BY <1>1, WFMin
<1> QED
  BY <1>2, <1>3

\* A set of indexes that has every index before one it has is an initial segment.
LEMMA InitialSegment ==
    ASSUME NEW n \in Nat, NEW S \in SUBSET (1..n), \A k \in S : \A j \in 1..k : j \in S
    PROVE  \E d \in 0..n : S = 1..d /\ Cardinality(S) = d
<1> DEFINE N == (1..n + 1) \ S
<1>1. N \in SUBSET Nat /\ n + 1 \in N
  OBVIOUS
<1>2. PICK m \in N : \A y \in N : m <= y
  BY <1>1, LeastNumber
<1>3. m \in 1..n + 1 /\ m \notin S
  BY <1>2
<1>4. \A j \in 1..m - 1 : j \in S
  BY <1>2, <1>3
<1>5. \A j \in S : j \in 1..m - 1
  BY <1>3
<1>6. S = 1..m - 1
  BY <1>4, <1>5
<1>7. Cardinality(1..m - 1) = m - 1
  BY <1>3, FS_Interval
<1> QED
  BY <1>3, <1>6, <1>7

\* Pruning forgets nothing of the last window.
LEMMA PruneFacts ==
    ASSUME NEW q \in Seq(Nat), NEW now \in Nat
    PROVE  /\ prune_old_requests(q, now) \in Seq(Nat)
           /\ \A t \in Int : t > now - RateWindow =>
                 Cardinality(QueuedSince(q, t)) <= Cardinality(QueuedSince(prune_old_requests(q, now), t))
<1> USE RateAssumption
<1> DEFINE dead == {k \in 1 .. Len(q) : \A j \in 1 .. k : now - q[j] >= RateWindow}
           kept == prune_old_requests(q, now)
<1>1. PICK n \in Nat : n = Len(q)
  OBVIOUS
<1>2. dead \in SUBSET (1..n) /\ \A k \in dead : \A j \in 1..k : j \in dead
  BY <1>1
<1>3. PICK d \in 0..n : dead = 1..d /\ Cardinality(dead) = d
  <2> HIDE DEF dead
  <2> QED
    BY <1>2, InitialSegment
<1>4. kept = SubSeq(q, d + 1, n)
  <2>1. kept = SubSeq(q, 1 + Cardinality(dead), Len(q))
    BY DEF prune_old_requests
  <2> HIDE DEF dead, kept
  <2> QED
    BY <1>1, <1>3, <2>1
<1>5. /\ kept \in Seq(Nat) /\ Len(kept) = n - d
      /\ \A j \in 1..n - d : kept[j] = q[j + d]
  BY <1>1, <1>3, <1>4
<1>6. \A j \in 1..n : j <= d => now - q[j] >= RateWindow
  <2> SUFFICES ASSUME NEW j \in 1..n, j <= d PROVE now - q[j] >= RateWindow
    OBVIOUS
  <2>1. j \in dead
    <3> HIDE DEF dead
    <3> QED
      BY <1>3
  <2>2. j \in 1..j
    OBVIOUS
  <2> QED
    BY <2>1, <2>2
<1> HIDE DEF kept
<1>7. ASSUME NEW t \in Int, t > now - RateWindow
      PROVE  Cardinality(QueuedSince(q, t)) <= Cardinality(QueuedSince(kept, t))
  <2> DEFINE S == QueuedSince(q, t)
             T == QueuedSince(kept, t)
             f == [j \in S |-> j - d]
  <2>1. ASSUME NEW j \in S PROVE j \in 1..n /\ j - d \in T
    <3>1. j \in 1..n /\ q[j] >= t /\ q[j] \in Nat
      BY <1>1 DEF QueuedSince
    <3>2. ~(now - q[j] >= RateWindow)
      BY <1>7, <3>1
    <3>3. j - d \in 1..n - d /\ kept[j - d] = q[j - d + d]
      BY <1>5, <1>6, <3>1, <3>2
    <3> QED
      BY <1>5, <3>1, <3>3 DEF QueuedSince
  <2>2. IsFiniteSet(T)
    <3>1. IsFiniteSet(1..Len(kept)) /\ T \in SUBSET (1..Len(kept))
      <4>1. Len(kept) \in Int
        BY <1>5
      <4> QED
        BY <4>1, FS_Interval DEF QueuedSince
    <3> QED
      BY <3>1, FS_Subset
  <2> HIDE DEF S, T
  <2>3. f \in Injection(S, T)
    <3>1. f \in [S -> T]
      BY <2>1
    <3>2. \A a, b \in S : f[a] = f[b] => a = b
      BY <2>1
    <3> QED
      BY <3>1, <3>2 DEF Injection, IsInjective
  <2> HIDE DEF f
  <2>4. Cardinality(S) <= Cardinality(T)
    BY <2>2, <2>3, FS_Injection
  <2> QED
    BY <2>4 DEF S, T
<1> QED
  BY <1>5, <1>7 DEF kept

\* A set of indexes of a sequence is finite.
LEMMA IndexesFinite ==
    ASSUME NEW n \in Nat, NEW S \in SUBSET (1..n)
    PROVE  IsFiniteSet(S) /\ Cardinality(S) \in Nat /\ Cardinality(S) <= n
<1>1. IsFiniteSet(1..n) /\ Cardinality(1..n) = n
  BY FS_Interval
<1> QED
  BY <1>1, FS_Subset, FS_CardinalityType

LEMMA RateStepInv ==
    ASSUME RateInv, NEW op, op \in AuthOps, requests' = rate_check(op, authTime), UNCHANGED authTime,
           IF rate_limited(op, authTime) THEN UNCHANGED allowed
           ELSE allowed' = Append(allowed, <<op, authTime>>)
    PROVE  RateInv'
<1> USE RateAssumption
<1>1. RateTypeOK /\ RateQueued /\ RateBounded
  BY DEF RateInv
<1>2. PICK now \in Nat : now = authTime /\ authTime' = now
  BY <1>1 DEF RateTypeOK
<1>3. PICK n \in Nat : n = Len(allowed)
  BY <1>1 DEF RateTypeOK
<1>4. DOMAIN allowed = 1..n
  BY <1>1, <1>3 DEF RateTypeOK
<1>5. CASE op \notin DOMAIN requests
  <2>1. DOMAIN requests' = DOMAIN requests /\ \A o \in DOMAIN requests : requests'[o] = requests[o]
    BY <1>5 DEF rate_check
  <2>2. allowed' = allowed \/ allowed' = Append(allowed, <<op, now>>)
    BY <1>2
  <2>3. allowed' \in Seq(AuthOps \X Nat) /\ \A k \in DOMAIN allowed' : allowed'[k][2] <= now
    <3>1. PICK e \in AuthOps \X Nat : e = <<op, now>>
      OBVIOUS
    <3>2. allowed \in Seq(AuthOps \X Nat) /\ \A k \in DOMAIN allowed : allowed[k][2] <= now
      BY <1>1, <1>2 DEF RateTypeOK
    <3>3. CASE allowed' = Append(allowed, e)
      <4>1. /\ allowed' \in Seq(AuthOps \X Nat) /\ DOMAIN allowed' = 1..n + 1
            /\ allowed'[n + 1] = e /\ \A k \in 1..n : allowed'[k] = allowed[k]
        BY <1>3, <3>2, <3>3
      <4> QED
        BY <1>4, <3>1, <3>2, <4>1
    <3> QED
      BY <1>2, <2>2, <3>1, <3>2, <3>3
  <2>4. ASSUME NEW o \in DOMAIN requests, NEW t
        PROVE  PassedSince(o, t)' = PassedSince(o, t) /\ PassedIn(o, t)' = PassedIn(o, t)
    <3>1. o # op
      BY <1>5
    <3>2. CASE allowed' = allowed
      BY <3>2 DEF PassedSince, PassedIn
    <3>3. CASE allowed' = Append(allowed, <<op, now>>)
      <4>1. /\ DOMAIN allowed' = 1..n + 1 /\ allowed'[n + 1] = <<op, now>>
            /\ \A k \in 1..n : allowed'[k] = allowed[k]
        BY <1>1, <1>3, <3>3 DEF RateTypeOK
      <4> QED
        BY <1>4, <3>1, <4>1 DEF PassedSince, PassedIn
    <3> QED
      BY <2>2, <3>2, <3>3
  <2>5. RateTypeOK'
    BY <1>1, <1>2, <2>1, <2>3 DEF RateTypeOK
  <2>6. RateQueued' /\ RateBounded'
    BY <1>1, <1>2, <2>1, <2>4 DEF RateQueued, RateBounded
  <2> QED
    BY <2>5, <2>6 DEF RateInv
<1>6. CASE op \in DOMAIN requests
  <2>1. PICK kept : kept = prune_old_requests(requests[op], now)
    OBVIOUS
  <2>2. /\ kept \in Seq(Nat) /\ requests[op] \in Seq(Nat)
        /\ \A t \in Int : t > now - RateWindow =>
              Cardinality(QueuedSince(requests[op], t)) <= Cardinality(QueuedSince(kept, t))
    BY <1>1, <1>6, <2>1, PruneFacts DEF RateTypeOK
  <2>3. PICK l \in Nat : l = Len(kept)
    BY <2>2
  <2>4. /\ DOMAIN requests' = DOMAIN requests /\ \A o \in DOMAIN requests : o # op => requests'[o] = requests[o]
        /\ requests'[op] = IF l >= RateMax THEN kept ELSE Append(kept, now)
    BY <1>2, <1>6, <2>1, <2>3 DEF rate_check
  <2>5. ASSUME NEW t \in Int, t > now - RateWindow
        PROVE  /\ Cardinality(PassedSince(op, t)) \in Nat /\ Cardinality(QueuedSince(kept, t)) \in Nat
               /\ Cardinality(PassedSince(op, t)) <= Cardinality(QueuedSince(kept, t))
    <3>1. PICK a \in Nat : a = Cardinality(PassedSince(op, t))
      BY <1>4, IndexesFinite DEF PassedSince
    <3>2. PICK b \in Nat : b = Cardinality(QueuedSince(requests[op], t))
      <4>1. Len(requests[op]) \in Nat
        BY <2>2
      <4> QED
        BY <4>1, IndexesFinite DEF QueuedSince
    <3>3. PICK c \in Nat : c = Cardinality(QueuedSince(kept, t))
      BY <2>3, IndexesFinite DEF QueuedSince
    <3>4. a <= b
      BY <1>1, <1>2, <1>6, <2>5, <3>1, <3>2 DEF RateQueued
    <3>5. b <= c
      BY <2>2, <2>5, <3>2, <3>3
    <3> QED
      BY <3>1, <3>3, <3>4, <3>5
  <2>6. CASE l >= RateMax
    <3>1. allowed' = allowed /\ requests'[op] = kept
      BY <1>2, <2>1, <2>3, <2>4, <2>6 DEF rate_limited
    <3>2. \A o, t : PassedSince(o, t)' = PassedSince(o, t) /\ PassedIn(o, t)' = PassedIn(o, t)
      BY <3>1 DEF PassedSince, PassedIn
    <3>3. RateTypeOK'
      BY <1>1, <1>2, <2>2, <2>4, <3>1 DEF RateTypeOK
    <3>4. RateBounded'
      BY <1>1, <2>4, <3>2 DEF RateBounded
    <3>5. RateQueued'
      <4> SUFFICES ASSUME NEW o \in DOMAIN requests', NEW t \in Int, t > now - RateWindow
                   PROVE  Cardinality(PassedSince(o, t)') <= Cardinality(QueuedSince(requests'[o], t))
        BY <1>2 DEF RateQueued, QueuedSince
      <4>1. CASE o = op
        BY <2>5, <3>1, <3>2, <4>1
      <4>2. CASE o # op
        BY <1>1, <1>2, <2>4, <3>2, <4>2 DEF RateQueued
      <4> QED
        BY <4>1, <4>2
    <3> QED
      BY <3>3, <3>4, <3>5 DEF RateInv
  <2>7. CASE ~(l >= RateMax)
    <3>1. PICK e \in AuthOps \X Nat : e = <<op, now>>
      OBVIOUS
    <3>2. allowed' = Append(allowed, e) /\ requests'[op] = Append(kept, now) /\ e[1] = op /\ e[2] = now
      BY <1>2, <2>1, <2>3, <2>4, <2>7, <3>1 DEF rate_limited
    <3>3. /\ allowed' \in Seq(AuthOps \X Nat) /\ DOMAIN allowed' = 1..n + 1
          /\ allowed'[n + 1] = e /\ \A k \in 1..n : allowed'[k] = allowed[k]
      BY <1>1, <1>3, <3>2 DEF RateTypeOK
    <3>4. /\ requests'[op] \in Seq(Nat) /\ Len(requests'[op]) = l + 1
          /\ requests'[op][l + 1] = now /\ \A j \in 1..l : requests'[op][j] = kept[j]
      BY <2>2, <2>3, <3>2
    <3>5. \A k \in 1..n : allowed[k] \in AuthOps \X Nat /\ allowed[k][2] \in Nat /\ allowed[k][2] <= now
      BY <1>1, <1>2, <1>4 DEF RateTypeOK
    <3>6. RateTypeOK'
      <4>1. \A o \in DOMAIN requests' : requests'[o] \in Seq(Nat)
        BY <1>1, <2>4, <3>4 DEF RateTypeOK
      <4>2. \A k \in DOMAIN allowed' : allowed'[k][2] <= now
        BY <3>2, <3>3, <3>5
      <4> QED
        BY <1>2, <3>3, <4>1, <4>2 DEF RateTypeOK
    <3>7. ASSUME NEW o \in DOMAIN requests, o # op, NEW t
          PROVE  PassedSince(o, t)' = PassedSince(o, t) /\ PassedIn(o, t)' = PassedIn(o, t)
      BY <1>4, <3>2, <3>3, <3>7 DEF PassedSince, PassedIn
    <3>8. ASSUME NEW t \in Int, t > now - RateWindow
          PROVE  Cardinality(PassedSince(op, t)') <= Cardinality(QueuedSince(requests'[op], t))
      <4>1. CASE t > now
        <5>1. PassedSince(op, t)' = {}
          BY <3>2, <3>3, <3>5, <4>1 DEF PassedSince
        <5>2. Cardinality(QueuedSince(requests'[op], t)) \in Nat
          <6>1. l + 1 \in Nat /\ QueuedSince(requests'[op], t) \in SUBSET (1..l + 1)
            BY <3>4 DEF QueuedSince
          <6> QED
            BY <6>1, IndexesFinite
        <5> QED
          BY <5>1, <5>2, FS_EmptySet
      <4>2. CASE t <= now
        <5>1. PassedSince(op, t)' = PassedSince(op, t) \cup {n + 1} /\ n + 1 \notin PassedSince(op, t)
          BY <1>4, <3>2, <3>3, <4>2 DEF PassedSince
        <5>2. QueuedSince(requests'[op], t) = QueuedSince(kept, t) \cup {l + 1} /\ l + 1 \notin QueuedSince(kept, t)
          BY <2>3, <3>4, <4>2 DEF QueuedSince
        <5>3. IsFiniteSet(PassedSince(op, t)) /\ IsFiniteSet(QueuedSince(kept, t))
          BY <1>4, <2>3, IndexesFinite DEF PassedSince, QueuedSince
        <5>4. /\ Cardinality(PassedSince(op, t) \cup {n + 1}) = Cardinality(PassedSince(op, t)) + 1
              /\ Cardinality(QueuedSince(kept, t) \cup {l + 1}) = Cardinality(QueuedSince(kept, t)) + 1
          BY <5>1, <5>2, <5>3, FS_AddElement
        <5> QED
          BY <2>5, <3>8, <5>1, <5>2, <5>4
      <4> QED
        BY <4>1, <4>2
    <3>9. RateQueued'
      <4> SUFFICES ASSUME NEW o \in DOMAIN requests', NEW t \in Int, t > now - RateWindow
                   PROVE  Cardinality(PassedSince(o, t)') <= Cardinality(QueuedSince(requests'[o], t))
        BY <1>2 DEF RateQueued, QueuedSince
      <4>1. CASE o = op
        BY <3>8, <4>1
      <4>2. CASE o # op
        BY <1>1, <1>2, <2>4, <3>7, <4>2 DEF RateQueued
      <4> QED
        BY <4>1, <4>2
    <3>10. ASSUME NEW t \in Int
           PROVE  Cardinality(PassedIn(op, t)') <= RateMax
      <4>1. CASE now \in t .. t + RateWindow - 1
        <5>1. t > now - RateWindow
          BY <4>1
        <5>2. PICK a \in Nat : a = Cardinality(QueuedSince(requests'[op], t)) /\ a <= l + 1
          <6>1. l + 1 \in Nat /\ QueuedSince(requests'[op], t) \in SUBSET (1..l + 1)
            BY <3>4 DEF QueuedSince
          <6> QED
            BY <6>1, IndexesFinite
        <5>3. PICK b \in Nat : b = Cardinality(PassedSince(op, t)') /\ IsFiniteSet(PassedSince(op, t)')
          <6>1. n + 1 \in Nat /\ PassedSince(op, t)' \in SUBSET (1..n + 1)
            BY <3>3 DEF PassedSince
          <6> QED
            BY <6>1, IndexesFinite
        <5>4. PassedIn(op, t)' \in SUBSET (PassedSince(op, t)')
          <6>1. \A x \in t .. t + RateWindow - 1 : x >= t
            OBVIOUS
          <6> QED
            BY <6>1 DEF PassedIn, PassedSince
        <5>5. PICK c \in Nat : c = Cardinality(PassedIn(op, t)') /\ c <= b
          BY <5>3, <5>4, FS_Subset, FS_CardinalityType
        <5>6. b <= a
          BY <3>8, <5>1, <5>2, <5>3
        <5> QED
          BY <2>7, <5>2, <5>5, <5>6
      <4>2. CASE now \notin t .. t + RateWindow - 1
        <5>1. PassedIn(op, t)' = PassedIn(op, t)
          BY <1>4, <3>2, <3>3, <4>2 DEF PassedIn
        <5> QED
          BY <1>1, <1>6, <5>1 DEF RateBounded
      <4> QED
        BY <4>1, <4>2
    <3>11. RateBounded'
      BY <1>1, <2>4, <3>7, <3>10 DEF RateBounded
    <3> QED
      BY <3>6, <3>9, <3>11 DEF RateInv
  <2> QED
    BY <2>6, <2>7
<1> QED
  BY <1>5, <1>6

LEMMA RateNextInv ==
    ASSUME AuthInv, RateInv, [AuthNext]_authVars
    PROVE  RateInv'
<1>1. ASSUME UNCHANGED <<requests, allowed, authTime>>
      PROVE  RateInv'
  BY <1>1 DEF RateInv, RateTypeOK, RateQueued, RateBounded, PassedSince, PassedIn, QueuedSince
<1>2. CASE UNCHANGED authVars
  BY <1>1, <1>2 DEF authVars
<1>3. CASE AuthTick
  <2>1. RateTypeOK /\ authTime' = authTime + 1 /\ UNCHANGED <<requests, allowed>>
    BY <1>3 DEF RateInv, AuthTick
  <2>2. PICK now \in Nat : now = authTime /\ authTime' = now + 1
    BY <2>1 DEF RateTypeOK
  <2>3. RateTypeOK'
    <3>1. \A k \in DOMAIN allowed : allowed[k][2] <= now + 1
      BY <2>1, <2>2 DEF RateTypeOK
    <3> QED
      BY <2>1, <2>2, <3>1 DEF RateTypeOK
  <2>4. RateQueued'
    <3>1. \A t \in Int : t > now + 1 - RateWindow => t > now - RateWindow
      BY RateAssumption
    <3>2. \A op, t : PassedSince(op, t)' = PassedSince(op, t)
      BY <2>1 DEF PassedSince
    <3> SUFFICES ASSUME NEW o \in DOMAIN requests', NEW t \in Int, t > now + 1 - RateWindow
                 PROVE  Cardinality(PassedSince(o, t)') <= Cardinality(QueuedSince(requests'[o], t))
      BY <2>2, RateAssumption DEF RateQueued, QueuedSince
    <3> QED
      BY <2>1, <2>2, <3>1, <3>2 DEF RateInv, RateQueued
  <2>5. RateBounded'
    BY <2>1 DEF RateInv, RateBounded, PassedIn
  <2> QED
    BY <2>3, <2>4, <2>5 DEF RateInv
<1>4. ASSUME NEW r \in AuthClients, NEW c \in AuthCalls, AuthBegin(r, c)
      PROVE  RateInv'
  BY <1>1, <1>4 DEF AuthBegin
<1>5. ASSUME NEW r \in AuthClients, AuthStep(r)
      PROVE  RateInv'
  <2>1. CASE rate_limiter_check(r)
    <3>1. authReq[r].call.op \in AuthOps
      BY AuthCallsAssumption DEF AuthInv, AuthTypeOK, AuthOps, NoCall
    <3>2. /\ requests' = rate_check(authReq[r].call.op, authTime) /\ UNCHANGED authTime
          /\ IF rate_limited(authReq[r].call.op, authTime) THEN UNCHANGED allowed
             ELSE allowed' = Append(allowed, <<authReq[r].call.op, authTime>>)
      BY <2>1 DEF rate_limiter_check
    <3> QED
      BY <3>1, <3>2, RateStepInv
  <2>2. CASE start_github_oauth(r)
    BY <1>1, <2>2 DEF start_github_oauth
  <2>3. CASE callback_take(r)
    BY <1>1, <2>3 DEF callback_take
  <2>4. CASE callback_github_oauth(r)
    BY <1>1, <2>4 DEF callback_github_oauth
  <2>5. CASE register_password_user(r)
    BY <1>1, <2>5 DEF register_password_user
  <2>6. CASE login_password_user(r)
    BY <1>1, <2>6 DEF login_password_user
  <2>7. CASE issue_auth_session(r)
    BY <1>1, <2>7 DEF issue_auth_session
  <2>8. CASE change_password_check(r)
    BY <1>1, <2>8 DEF change_password_check
  <2>9. CASE change_password(r)
    BY <1>1, <2>9 DEF change_password
  <2>10. CASE refresh_find(r)
    BY <1>1, <2>10 DEF refresh_find
  <2>11. CASE refresh_reuse(r)
    BY <1>1, <2>11 DEF refresh_reuse
  <2>12. CASE refresh_rotate(r)
    BY <1>1, <2>12 DEF refresh_rotate
  <2>13. CASE handle_token_refresh(r)
    BY <1>1, <2>13 DEF handle_token_refresh
  <2>14. CASE logout_find(r)
    BY <1>1, <2>14 DEF logout_find
  <2>15. CASE handle_logout(r)
    BY <1>1, <2>15 DEF handle_logout
  <2> QED
    BY <1>5, <2>1, <2>2, <2>3, <2>4, <2>5, <2>6, <2>7, <2>8, <2>9, <2>10, <2>11, <2>12, <2>13, <2>14, <2>15
       DEF AuthStep
<1> QED
  BY <1>2, <1>3, <1>4, <1>5 DEF AuthNext

-----------------------------------------------------------------------------
(* Sign-in flows.  A callback that took its flow holds it until the session *)
(* is issued; nobody else can hold it, and it is in no table any more.     *)

Holding(q) == q.at \in {"exchange", "issue"} /\ q.call.op = "callback"

\* A flow that was taken and has given no session yet.
Unspent(f, fl, n, con) == f \in Nat /\ f < n /\ f \notin DOMAIN fl /\ \A s \in DOMAIN con : con[s] # f

FlowIds ==
    /\ nextFlow \in Nat
    /\ \A f \in DOMAIN flows : f \in Nat /\ f < nextFlow
    /\ \A s \in DOMAIN consumed :
          consumed[s] \in Nat /\ consumed[s] < nextFlow /\ consumed[s] \notin DOMAIN flows

FlowHeld ==
    /\ \A r \in AuthClients : authReq[r].at \in {"register", "login"} => authReq[r].call.op # "callback"
    /\ \A r \in AuthClients : Holding(authReq[r]) =>
          Unspent(authReq[r].call.flow, flows, nextFlow, consumed)
    /\ \A r, x \in AuthClients : Holding(authReq[r]) /\ Holding(authReq[x]) /\ r # x =>
          authReq[r].call.flow # authReq[x].call.flow

FlowInv == FlowIds /\ FlowHeld /\ AuthFlowOnce

LEMMA FlowInitInv == AuthInit => FlowInv
<1> SUFFICES ASSUME AuthInit PROVE FlowInv
  OBVIOUS
<1>1. DOMAIN flows = {} /\ DOMAIN consumed = {} /\ nextFlow = 1
  BY DEF AuthInit
<1>2. \A r \in AuthClients : authReq[r].at = "idle"
  BY DEF AuthInit, AuthIdle
<1> QED
  BY <1>1, <1>2 DEF FlowInv, FlowIds, FlowHeld, Holding, AuthFlowOnce

\* A request that takes no flow and spends none changes nothing for the others.
LEMMA FlowKept ==
    ASSUME FlowInv, NEW r \in AuthClients, UNCHANGED consumed,
           nextFlow' \in Nat, nextFlow <= nextFlow',
           \A f \in DOMAIN flows' : f \in DOMAIN flows \/ (f = nextFlow /\ nextFlow < nextFlow'),
           \A x \in AuthClients \ {r} : authReq'[x] = authReq[x],
           Holding(authReq'[r]) => Holding(authReq[r]) /\ authReq'[r].call = authReq[r].call,
           authReq'[r].at \in {"register", "login"} => authReq'[r].call.op # "callback"
    PROVE  FlowInv'
<1>1. ASSUME NEW x \in AuthClients
      PROVE  Holding(authReq'[x]) => Holding(authReq[x]) /\ authReq'[x].call = authReq[x].call
  OBVIOUS
<1>2. \A f : Unspent(f, flows, nextFlow, consumed) => Unspent(f, flows', nextFlow', consumed')
  BY DEF Unspent, FlowInv, FlowIds
<1>3. FlowIds'
  BY DEF FlowInv, FlowIds
<1>4. FlowHeld'
  BY <1>1, <1>2 DEF FlowInv, FlowHeld
<1>5. AuthFlowOnce'
  BY DEF FlowInv, AuthFlowOnce
<1> QED
  BY <1>3, <1>4, <1>5 DEF FlowInv

LEMMA FlowNextInv ==
    ASSUME AuthInv, FlowInv, [AuthNext]_authVars
    PROVE  FlowInv'
<1>1. /\ DOMAIN authReq = AuthClients
      /\ \A r \in AuthClients : DOMAIN authReq[r] = AuthFields /\ authReq[r].call \in AuthCalls \cup {NoCall}
  BY DEF AuthInv, AuthTypeOK
<1>0. nextFlow \in Nat
  BY DEF FlowInv, FlowIds
<1>2. CASE UNCHANGED authVars
  <2>1. UNCHANGED <<flows, nextFlow, consumed, authReq>>
    BY <1>2 DEF authVars
  <2> QED
    BY <2>1 DEF FlowInv, FlowIds, FlowHeld, AuthFlowOnce
<1>3. CASE AuthTick
  <2>1. UNCHANGED <<flows, nextFlow, consumed, authReq>>
    BY <1>3 DEF AuthTick
  <2> QED
    BY <2>1 DEF FlowInv, FlowIds, FlowHeld, AuthFlowOnce
<1>4. ASSUME NEW r \in AuthClients, NEW c \in AuthCalls, AuthBegin(r, c)
      PROVE  FlowInv'
  <2>1. /\ UNCHANGED <<flows, nextFlow, consumed>> /\ \A x \in AuthClients \ {r} : authReq'[x] = authReq[x]
        /\ authReq'[r].at = IF c.op \in {"start", "callback", "refresh"} THEN "rate" ELSE c.op
        /\ authReq'[r].call = c
    BY <1>1, <1>4 DEF AuthBegin, AuthIdle
  <2>2. ~Holding(authReq'[r]) /\ (authReq'[r].at \in {"register", "login"} => c.op # "callback")
    BY <2>1, AuthCallsAssumption DEF Holding
  <2> QED
    BY <1>0, <2>1, <2>2, FlowKept
<1>5. ASSUME NEW r \in AuthClients, AuthStep(r)
      PROVE  FlowInv'
  <2> DEFINE Others == \A x \in AuthClients \ {r} : authReq'[x] = authReq[x]
             Kept == Others /\ UNCHANGED <<flows, nextFlow, consumed>> /\ authReq'[r].call = authReq[r].call
             At(s) == authReq'[r].at = s
  <2>0. ASSUME Kept, At("done") PROVE FlowInv'
    BY <1>0, <2>0, FlowKept DEF Holding
  <2>1. CASE rate_limiter_check(r)
    <3>1. Kept /\ (At("done") \/ At(authReq[r].call.op))
      BY <1>1, <2>1 DEF rate_limiter_check, AuthEnd, AuthTo, AuthFields
    <3>2. authReq[r].call.op \in AuthOps
      BY <1>1, AuthCallsAssumption DEF NoCall, AuthOps
    <3> QED
      BY <1>0, <3>1, <3>2, FlowKept DEF Holding, AuthOps
  <2>2. CASE start_github_oauth(r)
    <3>1. Others /\ UNCHANGED consumed /\ At("done")
      BY <1>1, <2>2 DEF start_github_oauth, AuthEnd, AuthFields
    <3>2. DOMAIN prune_expired_flows(authTime) \subseteq DOMAIN flows
      BY DEF prune_expired_flows, Pick
    <3>3. \A rec : DOMAIN insert_flow(nextFlow, rec, authTime) \subseteq DOMAIN flows \cup {nextFlow}
      BY <3>2 DEF insert_flow, Insert
    <3>4. \/ UNCHANGED <<flows, nextFlow>>
          \/ nextFlow' = nextFlow + 1 /\ DOMAIN flows' \subseteq DOMAIN flows \cup {nextFlow}
      BY <2>2, <3>3 DEF start_github_oauth
    <3>5. /\ nextFlow' \in Nat /\ nextFlow <= nextFlow'
          /\ \A f \in DOMAIN flows' : f \in DOMAIN flows \/ (f = nextFlow /\ nextFlow < nextFlow')
      BY <1>0, <3>4
    <3> QED
      BY <3>1, <3>5, FlowKept DEF Holding
  <2>3. CASE callback_take(r)
    <3> DEFINE c == authReq[r].call
               live == prune_expired_flows(authTime)
    <3>1. /\ Others /\ UNCHANGED <<nextFlow, consumed>> /\ authReq'[r].call = c
          /\ At("done") \/ (At("exchange") /\ c.flow \in DOMAIN live)
      <4>1. UNCHANGED <<nextFlow, consumed>>
        BY <2>3 DEF callback_take
      <4>2. \/ \E st : authReq' = AuthEnd(r, st)
            \/ authReq' = AuthTo(r, "exchange") /\ c.flow \in DOMAIN live
        BY <2>3 DEF callback_take
      <4> QED
        BY <1>1, <4>1, <4>2 DEF AuthEnd, AuthTo, AuthFields
    <3>2. DOMAIN live \subseteq DOMAIN flows
      BY DEF prune_expired_flows, Pick
    <3>3. DOMAIN flows' = DOMAIN live \ {c.flow}
      BY <2>3 DEF callback_take, take_flow
    <3> HIDE DEF c, live
    <3>4. CASE At("done")
      BY <1>0, <3>1, <3>2, <3>3, <3>4, FlowKept DEF Holding, c
    <3>5. CASE At("exchange") /\ c.flow \in DOMAIN live
      <4>1. c.flow \in DOMAIN flows /\ c.flow \notin DOMAIN flows'
        BY <3>2, <3>3, <3>5
      <4>2. Unspent(c.flow, flows', nextFlow', consumed')
        BY <3>1, <4>1 DEF FlowInv, FlowIds, Unspent
      <4>3. \A f : Unspent(f, flows, nextFlow, consumed) =>
                     Unspent(f, flows', nextFlow', consumed') /\ f # c.flow
        BY <3>1, <3>2, <3>3, <4>1 DEF Unspent
      <4>4. FlowIds'
        BY <3>1, <3>2, <3>3 DEF FlowInv, FlowIds
      <4>5. FlowHeld'
        BY <3>1, <3>5, <4>2, <4>3 DEF FlowInv, FlowHeld
      <4>6. AuthFlowOnce'
        BY <3>1 DEF FlowInv, AuthFlowOnce
      <4> QED
        BY <4>4, <4>5, <4>6 DEF FlowInv
    <3> QED
      BY <3>1, <3>4, <3>5
  <2>4. CASE callback_github_oauth(r)
    <3>1. Kept /\ authReq[r].at = "exchange" /\ (At("done") \/ At("issue"))
      BY <1>1, <2>4 DEF callback_github_oauth, AuthEnd, AuthTo, AuthFields
    <3> QED
      BY <1>0, <3>1, FlowKept DEF Holding
  <2>5. CASE register_password_user(r)
    <3>1. Kept /\ authReq[r].at = "register" /\ (At("done") \/ At("issue"))
      BY <1>1, <2>5 DEF register_password_user, AuthEnd, AuthTo, AuthFields
    <3>2. ~Holding(authReq'[r])
      BY <3>1 DEF FlowInv, FlowHeld, Holding
    <3> QED
      BY <1>0, <3>1, <3>2, FlowKept
  <2>6. CASE login_password_user(r)
    <3>1. Kept /\ authReq[r].at = "login" /\ (At("done") \/ At("issue"))
      BY <1>1, <2>6 DEF login_password_user, AuthEnd, AuthTo, AuthFields
    <3>2. ~Holding(authReq'[r])
      BY <3>1 DEF FlowInv, FlowHeld, Holding
    <3> QED
      BY <1>0, <3>1, <3>2, FlowKept
  <2>7. CASE issue_auth_session(r)
    <3> DEFINE c == authReq[r].call
               s == NextSession
    <3>1. Others /\ UNCHANGED <<flows, nextFlow>> /\ At("done") /\ authReq[r].at = "issue" /\ authReq'[r].call = c
      BY <1>1, <2>7 DEF issue_auth_session, AuthEnd, AuthFields
    <3>2. CASE c.op # "callback"
      <4>1. UNCHANGED consumed
        BY <2>7, <3>2 DEF issue_auth_session
      <4> QED
        BY <2>0, <3>1, <4>1
    <3>3. CASE c.op = "callback"
      <4>1. consumed' = Insert(consumed, s, c.flow)
        BY <2>7, <3>3 DEF issue_auth_session
      <4> HIDE DEF s, c
      <4>2. /\ DOMAIN consumed' = DOMAIN consumed \cup {s} /\ consumed'[s] = c.flow
            /\ \A x \in DOMAIN consumed \ {s} : consumed'[x] = consumed[x]
        BY <4>1 DEF Insert
      <4>3. Unspent(c.flow, flows, nextFlow, consumed)
        BY <3>1, <3>3 DEF FlowInv, FlowHeld, Holding, c
      <4>4. FlowIds'
        BY <3>1, <4>2, <4>3 DEF FlowInv, FlowIds, Unspent
      <4>5. \A f : Unspent(f, flows, nextFlow, consumed) /\ f # c.flow => Unspent(f, flows', nextFlow', consumed')
        BY <3>1, <4>2 DEF Unspent
      <4>6. Holding(authReq[r]) /\ ~Holding(authReq'[r])
        BY <3>1, <3>3 DEF Holding, c
      <4>7. ASSUME NEW x \in AuthClients
            PROVE  Holding(authReq'[x]) => x # r /\ authReq'[x] = authReq[x] /\ authReq[x].call.flow # c.flow
        BY <3>1, <4>6 DEF FlowInv, FlowHeld, c
      <4>8. FlowHeld'
        BY <3>1, <4>5, <4>7 DEF FlowInv, FlowHeld
      <4>9. AuthFlowOnce'
        BY <4>2, <4>3 DEF FlowInv, AuthFlowOnce, Unspent
      <4> QED
        BY <4>4, <4>8, <4>9 DEF FlowInv
    <3> QED
      BY <3>2, <3>3
  <2>8. CASE change_password_check(r)
    <3>1. Kept /\ (At("done") \/ At("write"))
      BY <1>1, <2>8 DEF change_password_check, AuthEnd, AuthTo, AuthFields
    <3> QED
      BY <1>0, <2>0, <3>1, FlowKept DEF Holding
  <2>9. CASE change_password(r)
    <3>1. Kept /\ At("done")
      BY <1>1, <2>9 DEF change_password, AuthEnd, AuthTo, AuthFields
    <3> QED
      BY <1>0, <2>0, <3>1, FlowKept DEF Holding
  <2>10. CASE refresh_find(r)
    <3>1. Kept /\ (At("done") \/ At("reuse") \/ At("rotate"))
      BY <1>1, <2>10 DEF refresh_find, AuthEnd, AuthTo, AuthFields
    <3> QED
      BY <1>0, <2>0, <3>1, FlowKept DEF Holding
  <2>11. CASE refresh_reuse(r)
    <3>1. Kept /\ At("done")
      BY <1>1, <2>11 DEF refresh_reuse, AuthEnd, AuthTo, AuthFields
    <3> QED
      BY <1>0, <2>0, <3>1, FlowKept DEF Holding
  <2>12. CASE refresh_rotate(r)
    <3>1. Kept /\ At("reissue")
      BY <1>1, <2>12 DEF refresh_rotate, AuthEnd, AuthTo, AuthFields
    <3> QED
      BY <1>0, <2>0, <3>1, FlowKept DEF Holding
  <2>13. CASE handle_token_refresh(r)
    <3>1. Kept /\ At("done")
      BY <1>1, <2>13 DEF handle_token_refresh, AuthEnd, AuthTo, AuthFields
    <3> QED
      BY <1>0, <2>0, <3>1, FlowKept DEF Holding
  <2>14. CASE logout_find(r)
    <3>1. Kept /\ (At("done") \/ At("leave"))
      BY <1>1, <2>14 DEF logout_find, AuthEnd, AuthTo, AuthFields
    <3> QED
      BY <1>0, <2>0, <3>1, FlowKept DEF Holding
  <2>15. CASE handle_logout(r)
    <3>1. Kept /\ At("done")
      BY <1>1, <2>15 DEF handle_logout, AuthEnd, AuthTo, AuthFields
    <3> QED
      BY <1>0, <2>0, <3>1, FlowKept DEF Holding
  <2> QED
    BY <1>5, <2>1, <2>2, <2>3, <2>4, <2>5, <2>6, <2>7, <2>8, <2>9, <2>10, <2>11, <2>12, <2>13, <2>14,
       <2>15 DEF AuthStep
<1> QED
  BY <1>2, <1>3, <1>4, <1>5 DEF AuthNext

-----------------------------------------------------------------------------
(* Share links.  A redemption remembers whether its link was good at some  *)
(* moment since it came in; the handler checks less than an atomic read of *)
(* that would, and the count of uses is written last.                      *)

ShFields == {"at", "call", "tag", "read", "usable", "status"}

LinkFields == {"ws", "perm", "password", "expires", "max", "uses", "disabled", "revoked"}

\* What a request knows of itself, and of its link while it may still be read.
ShReqFine(q) ==
    /\ DOMAIN q = ShFields
    /\ q.usable \in BOOLEAN
    /\ q.at \notin {"idle", "done"} => q.call \in ShCalls
    /\ q.at = "limit" => q.call.op = "redeem"
    /\ q.at = "write" => q.read.expires \in Int /\ q.read.max \in Int
    /\ q.at = "audit" => q.call.op # "redeem"
    /\ q.at = "count" => q.usable
    /\ q.call.op = "redeem" /\ q.status = "ok" => q.usable

ShSeen(q, t, now) == q.at \in {"limit", "find"} /\ Usable(t, q.call.link, now) => q.usable

LinksOK(t) ==
    \A i \in DOMAIN t : /\ DOMAIN t[i] = LinkFields
                        /\ t[i].expires \in Int /\ t[i].max \in Int /\ t[i].uses \in Int

UseInv ==
    /\ shTime \in Nat
    /\ DOMAIN shReq = ShUsers
    /\ LinksOK(links)
    /\ DOMAIN redeemed = DOMAIN links
    /\ ShUsesCounted
    /\ \A u \in ShUsers : ShReqFine(shReq[u]) /\ ShSeen(shReq[u], links, shTime)

LEMMA UseInitInv == ShInit => UseInv
<1> SUFFICES ASSUME ShInit PROVE UseInv
  OBVIOUS
<1>1. /\ shTime = 1 /\ DOMAIN shReq = ShUsers /\ DOMAIN links = {1} /\ DOMAIN redeemed = {1} /\ redeemed[1] = 0
      /\ \A u \in ShUsers : shReq[u] = ShIdle
  BY DEF ShInit
<1>2. /\ DOMAIN links[1] = LinkFields
      /\ links[1].expires = 0 /\ links[1].max = 1 /\ links[1].uses = 0
  BY DEF ShInit, NewLink, LinkFields
<1>3. ShReqFine(ShIdle) /\ \A t, now : ShSeen(ShIdle, t, now)
  BY DEF ShIdle, ShReqFine, ShSeen, ShFields
<1> QED
  BY <1>1, <1>2, <1>3 DEF UseInv, LinksOK, ShUsesCounted

\* A step that leaves the links and the clock alone disturbs only its request.
LEMMA UseMoveInv ==
    ASSUME UseInv, NEW u \in ShUsers, UNCHANGED <<links, redeemed, shTime>>,
           DOMAIN shReq' = ShUsers, \A x \in ShUsers \ {u} : shReq'[x] = shReq[x],
           ShReqFine(shReq'[u]), ShSeen(shReq'[u], links, shTime)
    PROVE  UseInv'
<1>1. \A x \in ShUsers : ShReqFine(shReq'[x]) /\ ShSeen(shReq'[x], links, shTime)
  BY DEF UseInv
<1> QED
  BY <1>1 DEF UseInv, ShUsesCounted

\* After a write every redemption under way looks at the links again.
LEMMA ShObserveFacts ==
    ASSUME NEW req, NEW t, NEW now, \A x \in ShUsers : ShReqFine(req[x])
    PROVE  /\ DOMAIN ShObserve(req, t, now) = ShUsers
           /\ \A x \in ShUsers : ShReqFine(ShObserve(req, t, now)[x]) /\ ShSeen(ShObserve(req, t, now)[x], t, now)
<1> DEFINE o == ShObserve(req, t, now)
<1>1. DOMAIN o = ShUsers
  BY DEF ShObserve
<1>2. ASSUME NEW x \in ShUsers PROVE ShReqFine(o[x]) /\ ShSeen(o[x], t, now)
  <2>1. CASE req[x].at \in {"limit", "find"}
    <3>1. o[x] = [req[x] EXCEPT !.usable = @ \/ Usable(t, req[x].call.link, now)]
      BY <2>1 DEF ShObserve
    <3>2. DOMAIN req[x] = ShFields /\ req[x].usable \in BOOLEAN
      BY DEF ShReqFine
    <3>3. /\ DOMAIN o[x] = ShFields /\ o[x].at = req[x].at /\ o[x].call = req[x].call
          /\ o[x].read = req[x].read /\ o[x].status = req[x].status
      BY <3>1, <3>2 DEF ShFields
    <3>4. o[x].usable = (req[x].usable \/ Usable(t, req[x].call.link, now))
      BY <3>1, <3>2 DEF ShFields
    <3> HIDE DEF o
    <3>5. o[x].usable \in BOOLEAN /\ (req[x].usable => o[x].usable)
          /\ (Usable(t, req[x].call.link, now) => o[x].usable)
      BY <3>2, <3>4, Zenon
    <3>6. ShReqFine(o[x])
      BY <3>3, <3>5 DEF ShReqFine
    <3>7. ShSeen(o[x], t, now)
      BY <3>3, <3>5 DEF ShSeen
    <3> QED
      BY <3>6, <3>7
  <2>2. CASE req[x].at \notin {"limit", "find"}
    <3>1. o[x] = req[x]
      BY <2>2 DEF ShObserve
    <3> HIDE DEF o
    <3> QED
      BY <2>2, <3>1 DEF ShSeen
  <2> QED
    BY <2>1, <2>2
<1> QED
  BY <1>1, <1>2

LEMMA UseWriteInv ==
    ASSUME UseInv, NEW req, \A x \in ShUsers : ShReqFine(req[x]), UNCHANGED shTime,
           shReq' = ShObserve(req, links', shTime),
           LinksOK(links'), DOMAIN redeemed' = DOMAIN links', ShUsesCounted'
    PROVE  UseInv'
<1>1. /\ DOMAIN shReq' = ShUsers
      /\ \A x \in ShUsers : ShReqFine(shReq'[x]) /\ ShSeen(shReq'[x], links', shTime)
  BY ShObserveFacts
<1> QED
  BY <1>1 DEF UseInv

LEMMA ShGotoFacts ==
    ASSUME UseInv, NEW u \in ShUsers, NEW at
    PROVE  /\ DOMAIN ShGoto(u, at) = ShUsers
           /\ \A x \in ShUsers \ {u} : ShGoto(u, at)[x] = shReq[x]
           /\ DOMAIN ShGoto(u, at)[u] = ShFields /\ ShGoto(u, at)[u].at = at
           /\ \A f \in ShFields \ {"at"} : ShGoto(u, at)[u][f] = shReq[u][f]
  BY DEF UseInv, ShReqFine, ShGoto, ShFields

LEMMA ShFinishFacts ==
    ASSUME UseInv, NEW u \in ShUsers, NEW st
    PROVE  /\ DOMAIN ShFinish(u, st) = ShUsers
           /\ \A x \in ShUsers \ {u} : ShFinish(u, st)[x] = shReq[x]
           /\ DOMAIN ShFinish(u, st)[u] = ShFields /\ ShFinish(u, st)[u].at = "done"
           /\ ShFinish(u, st)[u].status = st
           /\ \A f \in ShFields \ {"at", "status"} : ShFinish(u, st)[u][f] = shReq[u][f]
  BY DEF UseInv, ShReqFine, ShFinish, ShFields

\* A request that ends is fine, if it is a redemption only when its link was good.
LEMMA ShEndFine ==
    ASSUME UseInv, NEW u \in ShUsers, NEW st,
           st = "ok" /\ shReq[u].call.op = "redeem" => shReq[u].usable
    PROVE  ShReqFine(ShFinish(u, st)[u]) /\ \A t, now : ShSeen(ShFinish(u, st)[u], t, now)
<1> DEFINE q == ShFinish(u, st)[u]
<1>1. /\ DOMAIN q = ShFields /\ q.at = "done" /\ q.status = st
      /\ q.usable = shReq[u].usable /\ q.call = shReq[u].call
  BY ShFinishFacts DEF ShFields
<1>2. shReq[u].usable \in BOOLEAN
  BY DEF UseInv, ShReqFine
<1> HIDE DEF q
<1>3. ShReqFine(q) /\ \A t, now : ShSeen(q, t, now)
  BY <1>1, <1>2 DEF ShReqFine, ShSeen
<1> QED
  BY <1>3 DEF q

LEMMA UseEndInv ==
    ASSUME UseInv, NEW u \in ShUsers, NEW st, UNCHANGED <<links, redeemed, shTime>>,
           st = "ok" /\ shReq[u].call.op = "redeem" => shReq[u].usable,
           shReq' = ShFinish(u, st)
    PROVE  UseInv'
  BY ShEndFine, ShFinishFacts, UseMoveInv

LEMMA UseBeginInv ==
    ASSUME UseInv, NEW u \in ShUsers, NEW c \in ShCalls, ShBegin(u, c)
    PROVE  UseInv'
<1>1. PICK tag :
         shReq' = ShObserve([shReq EXCEPT ![u] =
                        [ShIdle EXCEPT !.at = IF c.op = "redeem" THEN "limit" ELSE "role",
                                       !.call = c, !.tag = tag]], links, shTime)
  BY DEF ShBegin
<1>2. UNCHANGED <<links, redeemed, shTime>>
  BY DEF ShBegin
<1> DEFINE q == [ShIdle EXCEPT !.at = IF c.op = "redeem" THEN "limit" ELSE "role", !.call = c, !.tag = tag]
           req == [shReq EXCEPT ![u] = q]
<1>3. /\ DOMAIN q = ShFields /\ q.at = (IF c.op = "redeem" THEN "limit" ELSE "role") /\ q.call = c
      /\ q.usable = FALSE /\ q.status = "none"
  BY DEF ShIdle, ShFields
<1> HIDE DEF q
<1>4. ShReqFine(q)
  BY <1>3 DEF ShReqFine
<1>5. \A x \in ShUsers : req[x] = IF x = u THEN q ELSE shReq[x]
  BY DEF UseInv
<1>6. \A x \in ShUsers : ShReqFine(req[x])
  BY <1>4, <1>5 DEF UseInv
<1>7. shReq' = ShObserve(req, links', shTime)
  BY <1>1, <1>2 DEF q
<1>8. LinksOK(links') /\ DOMAIN redeemed' = DOMAIN links' /\ ShUsesCounted'
  BY <1>2 DEF UseInv, ShUsesCounted
<1> HIDE DEF req
<1> QED
  BY <1>2, <1>6, <1>7, <1>8, UseWriteInv

\* The steps that only read.
LEMMA UseReadsInv ==
    ASSUME UseInv, NEW u \in ShUsers,
           sh_require_workspace_role(u) \/ list_share_links(u) \/ share_link_check(u) \/ sh_audit(u)
             \/ redeem_limit(u) \/ redeem_find(u)
    PROVE  UseInv'
<1> DEFINE c == shReq[u].call
<1>1. ShReqFine(shReq[u]) /\ ShSeen(shReq[u], links, shTime)
  BY DEF UseInv
<1>2. ASSUME NEW at, shReq' = ShGoto(u, at), UNCHANGED <<links, redeemed, shTime>>,
             at \in {"op", "find", "count"}, shReq[u].at \notin {"idle", "done"},
             at = "count" => shReq[u].usable,
             at = "find" => shReq[u].at = "limit"
      PROVE  UseInv'
  <2> DEFINE q == ShGoto(u, at)[u]
  <2>1. /\ DOMAIN q = ShFields /\ q.at = at /\ q.call = c /\ q.usable = shReq[u].usable
        /\ q.status = shReq[u].status
    BY ShGotoFacts DEF ShFields
  <2> HIDE DEF q
  <2>2. ShReqFine(q) /\ ShSeen(q, links, shTime)
    BY <1>1, <1>2, <2>1 DEF ShReqFine, ShSeen
  <2> QED
    BY <1>2, <2>2, ShGotoFacts, UseMoveInv DEF q
<1>3. CASE sh_require_workspace_role(u)
  <2>1. /\ UNCHANGED <<links, redeemed, shTime>> /\ shReq[u].at = "role"
        /\ \/ \E st : st # "ok" /\ shReq' = ShFinish(u, st)
           \/ shReq' = ShGoto(u, "op")
    BY <1>3 DEF sh_require_workspace_role
  <2> QED
    BY <1>2, <2>1, UseEndInv
<1>4. CASE list_share_links(u)
  <2> DEFINE list == list_share_links_pg(links, c.ws)
             q == [ShFinish(u, "ok")[u] EXCEPT !.read = list]
  <2>1. /\ UNCHANGED <<links, redeemed, shTime>> /\ c.op = "list"
        /\ shReq' = [ShFinish(u, "ok") EXCEPT ![u].read = list]
    BY <1>4 DEF list_share_links
  <2> HIDE DEF list
  <2>2. /\ DOMAIN shReq' = ShUsers /\ \A x \in ShUsers \ {u} : shReq'[x] = shReq[x]
        /\ shReq'[u] = q
    BY <2>1, ShFinishFacts
  <2>3. /\ DOMAIN q = ShFields /\ q.at = "done" /\ q.call = c /\ q.usable = shReq[u].usable
    BY ShFinishFacts DEF ShFields
  <2> HIDE DEF q
  <2>4. ShReqFine(q) /\ ShSeen(q, links, shTime)
    BY <1>1, <2>1, <2>3 DEF ShReqFine, ShSeen
  <2> QED
    BY <2>1, <2>2, <2>4, UseMoveInv
<1>5. CASE share_link_check(u)
  <2>1. /\ UNCHANGED <<links, redeemed, shTime>> /\ shReq[u].at = "op"
        /\ \/ \E st : st # "ok" /\ shReq' = ShFinish(u, st)
           \/ /\ check_link_etag_pg(links, c.ws, c.link, shReq[u].tag) = "ok"
              /\ shReq' = [ShGoto(u, "write") EXCEPT ![u].read = links[c.link]]
    BY <1>5 DEF share_link_check
  <2>2. CASE \E st : st # "ok" /\ shReq' = ShFinish(u, st)
    BY <2>1, <2>2, UseEndInv
  <2>3. CASE /\ check_link_etag_pg(links, c.ws, c.link, shReq[u].tag) = "ok"
             /\ shReq' = [ShGoto(u, "write") EXCEPT ![u].read = links[c.link]]
    <3> DEFINE q == [ShGoto(u, "write")[u] EXCEPT !.read = links[c.link]]
    <3>1. c.link \in DOMAIN links
      BY <2>3 DEF check_link_etag_pg, share_link_record_by_id_pg
    <3>2. /\ DOMAIN shReq' = ShUsers /\ \A x \in ShUsers \ {u} : shReq'[x] = shReq[x]
          /\ shReq'[u] = q
      BY <2>3, ShGotoFacts
    <3>3. /\ DOMAIN q = ShFields /\ q.at = "write" /\ q.call = c /\ q.usable = shReq[u].usable
          /\ q.read = links[c.link] /\ q.status = shReq[u].status
      BY ShGotoFacts DEF ShFields
    <3>4. links[c.link].expires \in Int /\ links[c.link].max \in Int
      BY <3>1 DEF UseInv, LinksOK
    <3> HIDE DEF q
    <3>5. ShReqFine(q) /\ ShSeen(q, links, shTime)
      BY <1>1, <2>1, <3>3, <3>4 DEF ShReqFine, ShSeen
    <3> QED
      BY <2>1, <3>2, <3>5, UseMoveInv
  <2> QED
    BY <2>1, <2>2, <2>3
<1>6. CASE sh_audit(u)
  <2>1. UNCHANGED <<links, redeemed, shTime>> /\ shReq[u].at = "audit" /\ shReq' = ShFinish(u, "ok")
    BY <1>6 DEF sh_audit
  <2> QED
    BY <1>1, <2>1, UseEndInv DEF ShReqFine
<1>7. CASE redeem_limit(u)
  <2>1. /\ UNCHANGED <<links, redeemed, shTime>> /\ shReq[u].at = "limit"
        /\ \/ shReq' = ShFinish(u, "rate_limited")
           \/ shReq' = ShGoto(u, "find")
    BY <1>7 DEF redeem_limit
  <2>2. CASE shReq' = ShFinish(u, "rate_limited")
    BY <2>1, <2>2, UseEndInv
  <2>3. CASE shReq' = ShGoto(u, "find")
    BY <1>2, <2>1, <2>3
  <2> QED
    BY <2>1, <2>2, <2>3
<1>8. CASE redeem_find(u)
  <2> DEFINE i == c.link
             st == IF find_share_link_by_token_hash_pg(links, i)
                   THEN redeem_check(links[i], c, shTime) ELSE "not_found"
  <2>1. /\ UNCHANGED <<links, redeemed, shTime>> /\ shReq[u].at = "find"
        /\ shReq' = IF st # "ok" THEN ShFinish(u, st) ELSE ShGoto(u, "count")
    BY <1>8 DEF redeem_find
  <2>2. CASE st # "ok"
    <3> HIDE DEF st
    <3> QED
      BY <2>1, <2>2, UseEndInv
  <2>3. CASE st = "ok"
    <3>1. i \in DOMAIN links /\ redeem_check(links[i], c, shTime) = "ok"
      BY <2>3 DEF find_share_link_by_token_hash_pg
    <3>2. links[i].expires \in Int /\ links[i].max \in Int /\ links[i].uses \in Int /\ shTime \in Nat
      BY <3>1 DEF UseInv, LinksOK
    <3>3. Usable(links, i, shTime)
      BY <3>1, <3>2 DEF Usable, redeem_check
    <3>4. shReq[u].usable
      BY <1>1, <2>1, <3>3 DEF ShSeen
    <3> HIDE DEF st
    <3> QED
      BY <1>2, <2>1, <2>3, <3>4
  <2> QED
    BY <2>2, <2>3
<1> QED
  BY <1>3, <1>4, <1>5, <1>6, <1>7, <1>8

\* A write of the members: the count of uses stays as it is.
LEMMA UseMemberWriteInv ==
    ASSUME UseInv, NEW u \in ShUsers, NEW r, ShWrite(u, r), shReq[u].call.op # "redeem",
           shReq[u].at \notin {"idle", "done"},
           LinksOK(r.t), DOMAIN redeemed' = DOMAIN r.t, \A i \in DOMAIN r.t : r.t[i].uses = redeemed'[i]
    PROVE  UseInv'
<1> DEFINE req == IF r.st = "ok" THEN ShGoto(u, "audit") ELSE ShFinish(u, r.st)
<1>1. links' = r.t /\ shReq' = ShObserve(req, links', shTime) /\ UNCHANGED shTime
  BY DEF ShWrite
<1>2. \A x \in ShUsers : ShReqFine(req[x])
  <2>1. CASE r.st = "ok"
    <3> DEFINE q == ShGoto(u, "audit")[u]
    <3>1. /\ DOMAIN q = ShFields /\ q.at = "audit" /\ q.call = shReq[u].call /\ q.usable = shReq[u].usable
      BY ShGotoFacts DEF ShFields
    <3>2. ShReqFine(shReq[u])
      BY DEF UseInv
    <3> HIDE DEF q
    <3>3. ShReqFine(q)
      BY <3>1, <3>2 DEF ShReqFine
    <3> QED
      BY <2>1, <3>3, ShGotoFacts DEF UseInv, q
  <2>2. CASE r.st # "ok"
    BY <2>2, ShEndFine, ShFinishFacts DEF UseInv
  <2> QED
    BY <2>1, <2>2
<1>3. LinksOK(links') /\ DOMAIN redeemed' = DOMAIN links' /\ ShUsesCounted'
  BY <1>1 DEF ShUsesCounted
<1> HIDE DEF req
<1> QED
  BY <1>1, <1>2, <1>3, UseWriteInv

LEMMA UseWritesInv ==
    ASSUME UseInv, NEW u \in ShUsers, create_share_link(u) \/ update_share_link(u) \/ revoke_share_link(u)
    PROVE  UseInv'
<1> DEFINE c == shReq[u].call
<1>1. /\ ShReqFine(shReq[u]) /\ LinksOK(links) /\ DOMAIN redeemed = DOMAIN links
      /\ \A i \in DOMAIN links : links[i].uses = redeemed[i]
  BY DEF UseInv, ShUsesCounted
<1>2. CASE create_share_link(u)
  <2>1. PICK i \in LinkIds \ DOMAIN links :
           ShWrite(u, create_share_link_pg(links, i, c)) /\ redeemed' = Insert(redeemed, i, 0)
    BY <1>2 DEF create_share_link
  <2>2. shReq[u].at = "op" /\ c.op = "create" /\ c \in ShCalls
    BY <1>1, <1>2 DEF create_share_link, ShReqFine
  <2> DEFINE t == Insert(links, i, NewLink(c))
             r == create_share_link_pg(links, i, c)
  <2>3. r.t = t
    BY DEF create_share_link_pg, Found
  <2>4. /\ DOMAIN t = DOMAIN links \cup {i} /\ t[i] = NewLink(c)
        /\ \A j \in DOMAIN links : t[j] = links[j]
    BY <2>1 DEF Insert
  <2>5. DOMAIN NewLink(c) = LinkFields /\ NewLink(c).uses = 0 /\ NewLink(c).expires \in Int /\ NewLink(c).max \in Int
    BY <2>2, ShAssumption DEF NewLink, LinkFields
  <2>6. /\ DOMAIN redeemed' = DOMAIN links \cup {i} /\ redeemed'[i] = 0
        /\ \A j \in DOMAIN links : redeemed'[j] = redeemed[j]
    BY <1>1, <2>1 DEF Insert
  <2> HIDE DEF t
  <2>7. LinksOK(t) /\ DOMAIN redeemed' = DOMAIN t /\ \A j \in DOMAIN t : t[j].uses = redeemed'[j]
    BY <1>1, <2>4, <2>5, <2>6 DEF LinksOK
  <2> HIDE DEF r
  <2> QED
    BY <2>1, <2>2, <2>3, <2>7, UseMemberWriteInv DEF r
<1>3. ASSUME NEW t, NEW i, DOMAIN t = DOMAIN links, c.op # "redeem", shReq[u].at = "write",
             \A j \in DOMAIN links \ {i} : t[j] = links[j],
             i \in DOMAIN links => /\ DOMAIN t[i] = LinkFields /\ t[i].uses = links[i].uses
                                   /\ t[i].expires \in Int /\ t[i].max \in Int,
             UNCHANGED redeemed, NEW r, r.t = t, ShWrite(u, r)
      PROVE  UseInv'
  <2>1. LinksOK(t) /\ DOMAIN redeemed' = DOMAIN t /\ \A j \in DOMAIN t : t[j].uses = redeemed'[j]
    BY <1>1, <1>3 DEF LinksOK
  <2> QED
    BY <1>3, <2>1, UseMemberWriteInv
<1>4. CASE update_share_link(u)
  <2> DEFINE read == shReq[u].read
             r == update_share_link_pg(links, c.ws, c.link, c, read)
  <2>1. shReq[u].at = "write" /\ c.op = "update" /\ ShWrite(u, r) /\ UNCHANGED redeemed
    BY <1>4 DEF update_share_link
  <2>2. /\ c.expires \in Int /\ c.max \in Int /\ read.expires \in Int /\ read.max \in Int
    BY <1>1, <2>1, ShAssumption DEF ShReqFine
  <2>3. OrElse(c.expires, read.expires) \in Int /\ OrElse(c.max, read.max) \in Int
    BY <2>2 DEF OrElse
  <2>4. CASE ~share_link_record_by_id_pg(links, c.ws, c.link)
    <3>1. r.t = links
      BY <2>4 DEF update_share_link_pg, Found
    <3> HIDE DEF r
    <3> QED
      BY <1>1, <1>3, <2>1, <3>1 DEF LinksOK
  <2>5. CASE share_link_record_by_id_pg(links, c.ws, c.link)
    <3> DEFINE p == IF c.perm = "keep" THEN read.perm ELSE c.perm
               e == OrElse(c.expires, read.expires)
               m == OrElse(c.max, read.max)
               d == IF c.disabled = "keep" THEN read.disabled ELSE c.disabled = "true"
               i == c.link
               t == [links EXCEPT ![i].perm = p, ![i].expires = e, ![i].max = m, ![i].disabled = d]
    <3>1. r.t = t
      BY <2>5 DEF update_share_link_pg, Found
    <3>2. i \in DOMAIN links /\ DOMAIN links[i] = LinkFields
      BY <1>1, <2>5 DEF share_link_record_by_id_pg, LinksOK
    <3> HIDE DEF p, e, m, d, i, r
    <3>3. /\ DOMAIN t = DOMAIN links /\ \A j \in DOMAIN links \ {i} : t[j] = links[j]
          /\ DOMAIN t[i] = LinkFields /\ t[i].uses = links[i].uses /\ t[i].expires = e /\ t[i].max = m
      BY <3>2 DEF LinkFields
    <3>4. e \in Int /\ m \in Int
      BY <2>3 DEF e, m
    <3> HIDE DEF t
    <3> QED
      BY <1>3, <2>1, <3>1, <3>3, <3>4
  <2> QED
    BY <2>4, <2>5
<1>5. CASE revoke_share_link(u)
  <2> DEFINE r == revoke_share_link_pg(links, c.ws, c.link)
             i == c.link
  <2>1. shReq[u].at = "write" /\ c.op = "revoke" /\ ShWrite(u, r) /\ UNCHANGED redeemed
    BY <1>5 DEF revoke_share_link
  <2>2. CASE ~share_link_record_by_id_pg(links, c.ws, i)
    <3>1. r.t = links
      BY <2>2 DEF revoke_share_link_pg, Found
    <3> HIDE DEF r
    <3> QED
      BY <1>1, <1>3, <2>1, <3>1 DEF LinksOK
  <2>3. CASE share_link_record_by_id_pg(links, c.ws, i)
    <3> DEFINE t == [links EXCEPT ![i].disabled = TRUE, ![i].revoked = TRUE]
    <3>1. r.t = t
      BY <2>3 DEF revoke_share_link_pg, Found
    <3>2. /\ i \in DOMAIN links /\ DOMAIN links[i] = LinkFields
          /\ links[i].expires \in Int /\ links[i].max \in Int
      BY <1>1, <2>3 DEF share_link_record_by_id_pg, LinksOK
    <3> HIDE DEF r, i
    <3>3. /\ DOMAIN t = DOMAIN links /\ \A j \in DOMAIN links \ {i} : t[j] = links[j]
          /\ DOMAIN t[i] = LinkFields /\ t[i].uses = links[i].uses
          /\ t[i].expires = links[i].expires /\ t[i].max = links[i].max
      BY <3>2 DEF LinkFields
    <3> HIDE DEF t
    <3> QED
      BY <1>3, <2>1, <3>1, <3>2, <3>3
  <2> QED
    BY <2>2, <2>3
<1> QED
  BY <1>2, <1>4, <1>5

LEMMA UseRedeemInv ==
    ASSUME UseInv, NEW u \in ShUsers, redeem_share_link(u)
    PROVE  UseInv'
<1> DEFINE i == shReq[u].call.link
           req == ShFinish(u, "ok")
<1>1. /\ shReq[u].at = "count" /\ links' = increment_share_link_use_count_pg(links, i) /\ UNCHANGED shTime
      /\ shReq' = ShObserve(req, links', shTime) /\ redeemed' = [redeemed EXCEPT ![i] = @ + 1]
  BY DEF redeem_share_link
<1>2. /\ ShReqFine(shReq[u]) /\ LinksOK(links) /\ DOMAIN redeemed = DOMAIN links
      /\ \A j \in DOMAIN links : links[j].uses = redeemed[j]
  BY DEF UseInv, ShUsesCounted
<1>3. \A x \in ShUsers : ShReqFine(req[x])
  <2>1. shReq[u].usable
    BY <1>1, <1>2 DEF ShReqFine
  <2> QED
    BY <2>1, ShEndFine, ShFinishFacts DEF UseInv
<1> HIDE DEF req, i
<1>4. /\ LinksOK(links') /\ DOMAIN redeemed' = DOMAIN links'
      /\ \A j \in DOMAIN links' : links'[j].uses = redeemed'[j]
  <2>1. CASE i \notin DOMAIN links
    <3>1. links' = links /\ DOMAIN redeemed' = DOMAIN links /\ \A j \in DOMAIN links : redeemed'[j] = redeemed[j]
      BY <1>1, <1>2, <2>1 DEF increment_share_link_use_count_pg
    <3> QED
      BY <1>2, <3>1
  <2>2. CASE i \in DOMAIN links
    <3>1. DOMAIN links[i] = LinkFields /\ links[i].uses \in Int /\ links[i].expires \in Int /\ links[i].max \in Int
      BY <1>2, <2>2 DEF LinksOK
    <3>2. /\ DOMAIN links' = DOMAIN links /\ \A j \in DOMAIN links \ {i} : links'[j] = links[j]
          /\ DOMAIN links'[i] = LinkFields /\ links'[i].uses = links[i].uses + 1
          /\ links'[i].expires = links[i].expires /\ links'[i].max = links[i].max
      BY <1>1, <2>2, <3>1 DEF increment_share_link_use_count_pg, LinkFields
    <3>3. /\ DOMAIN redeemed' = DOMAIN links /\ \A j \in DOMAIN links \ {i} : redeemed'[j] = redeemed[j]
          /\ redeemed'[i] = redeemed[i] + 1
      BY <1>1, <1>2, <2>2
    <3> QED
      BY <1>2, <2>2, <3>1, <3>2, <3>3 DEF LinksOK
  <2> QED
    BY <2>1, <2>2
<1>5. ShUsesCounted'
  BY <1>4 DEF ShUsesCounted
<1> QED
  BY <1>1, <1>3, <1>4, <1>5, UseWriteInv

LEMMA UseNextInv == UseInv /\ [ShNext]_shVars => UseInv'
<1>1. ASSUME UseInv, UNCHANGED shVars PROVE UseInv'
  BY <1>1 DEF UseInv, shVars, ShUsesCounted
<1>2. ASSUME UseInv, ShTick PROVE UseInv'
  <2>1. shTime' = shTime + 1 /\ UNCHANGED <<links, redeemed, shReq>> /\ shTime \in Nat
    BY <1>2 DEF ShTick, UseInv
  <2>2. \A i : Usable(links, i, shTime') => Usable(links, i, shTime)
    BY <1>2, <2>1 DEF Usable, UseInv, LinksOK
  <2>3. \A u \in ShUsers : ShSeen(shReq[u], links, shTime')
    BY <1>2, <2>2 DEF UseInv, ShSeen
  <2> QED
    BY <1>2, <2>1, <2>3 DEF UseInv, ShUsesCounted
<1>3. ASSUME UseInv, NEW u \in ShUsers, ShStep(u) PROVE UseInv'
  BY <1>3, UseReadsInv, UseWritesInv, UseRedeemInv DEF ShStep
<1> QED
  BY <1>1, <1>2, <1>3, UseBeginInv DEF ShNext

-----------------------------------------------------------------------------
(* The limiter of redemptions counts in windows that begin with an attempt *)
(* and end before the next one does: a stretch of time as long as a window *)
(* meets two of them at most.                                              *)

\* The attempts on a link among those let pass: from a time on, and between two.
TriesSince(a, i, t) == {k \in DOMAIN a : a[k][1] = i /\ a[k][2] >= t}
TriesIn(a, i, from, to) == {k \in DOMAIN a : a[k][1] = i /\ a[k][2] \in from .. to}

\* A window that begins at s and has counted n attempts.
WindowOK(a, i, n, s) ==
    /\ Cardinality(TriesSince(a, i, s)) <= n
    /\ \A k \in DOMAIN a : a[k][1] = i => a[k][2] <= s + RedeemWindow
    /\ \A from \in Int : from >= s - RedeemWindow => Cardinality(TriesIn(a, i, from, s - 1)) <= RedeemMax

TryInv ==
    /\ shTime \in Nat
    /\ attempts \in Seq(LinkIds \X Nat)
    /\ \A k \in DOMAIN attempts : attempts[k][1] \in DOMAIN limiter
    /\ \A i \in DOMAIN limiter :
          /\ limiter[i].count \in Nat /\ limiter[i].start \in Nat /\ limiter[i].start <= shTime
          /\ Cardinality(TriesSince(attempts, i, limiter[i].start)) <= RedeemMax
          /\ WindowOK(attempts, i, limiter[i].count, limiter[i].start)
    /\ \A i \in LinkIds, from \in Int : Cardinality(TriesIn(attempts, i, from, from + RedeemWindow)) <= 2 * RedeemMax

LEMMA TryInitInv == ShInit => TryInv
<1> SUFFICES ASSUME ShInit PROVE TryInv
  OBVIOUS
<1>1. shTime = 1 /\ attempts = <<>> /\ DOMAIN limiter = {}
  BY DEF ShInit
<1>2. \A i, a, b : TriesIn(<<>>, i, a, b) = {}
  BY DEF TriesIn
<1>3. Cardinality({}) = 0 /\ 0 <= 2 * RedeemMax
  BY FS_EmptySet, ShAssumption
<1>4. <<>> \in Seq(LinkIds \X Nat) /\ DOMAIN <<>> = {}
  OBVIOUS
<1> QED
  BY <1>1, <1>2, <1>3, <1>4 DEF TryInv

LEMMA TriesFinite ==
    ASSUME NEW a \in Seq(LinkIds \X Nat), NEW i
    PROVE  /\ \A t : IsFiniteSet(TriesSince(a, i, t)) /\ Cardinality(TriesSince(a, i, t)) \in Nat
           /\ \A f, t : IsFiniteSet(TriesIn(a, i, f, t)) /\ Cardinality(TriesIn(a, i, f, t)) \in Nat
<1>1. PICK n \in Nat : DOMAIN a = 1..n
  OBVIOUS
<1> QED
  BY <1>1, IndexesFinite DEF TriesSince, TriesIn

\* The window a new attempt falls into, as it stands before the attempt.
LEMMA TryWindow ==
    ASSUME TryInv, NEW i \in LinkIds
    PROVE  \E n, s \in Nat :
              /\ limiter_entry(i, shTime).count = n + 1 /\ limiter_entry(i, shTime).start = s
              /\ s <= shTime /\ shTime <= s + RedeemWindow
              /\ WindowOK(attempts, i, n, s)
              /\ Cardinality(TriesSince(attempts, i, s)) <= RedeemMax
<1> USE ShAssumption
<1>1. PICK now \in Nat : now = shTime
  BY DEF TryInv
<1>2. attempts \in Seq(LinkIds \X Nat)
  BY DEF TryInv
<1>3. PICK N \in Nat : DOMAIN attempts = 1..N
  BY <1>2
<1>4. \A k \in 1..N : attempts[k][2] \in Nat
  BY <1>2, <1>3
<1>5. Cardinality({}) = 0
  BY FS_EmptySet
<1> HIDE DEF TryInv
<1>6. CASE i \notin DOMAIN limiter
  <2>1. limiter_entry(i, now) = [count |-> 1, start |-> now]
    BY <1>6 DEF limiter_entry
  <2>2. \A k \in DOMAIN attempts : attempts[k][1] # i
    BY <1>6 DEF TryInv
  <2>3. TriesSince(attempts, i, now) = {} /\ \A f, t : TriesIn(attempts, i, f, t) = {}
    BY <2>2 DEF TriesSince, TriesIn
  <2>4. WindowOK(attempts, i, 0, now) /\ Cardinality(TriesSince(attempts, i, now)) <= RedeemMax
    <3>1. Cardinality(TriesSince(attempts, i, now)) = 0 /\ \A f, t : Cardinality(TriesIn(attempts, i, f, t)) = 0
      BY <1>5, <2>3
    <3>2. 0 <= 0 /\ 0 <= RedeemMax
      OBVIOUS
    <3> QED
      BY <2>2, <3>1, <3>2 DEF WindowOK
  <2>5. limiter_entry(i, now).count = 0 + 1 /\ limiter_entry(i, now).start = now /\ now <= now + RedeemWindow
    BY <2>1
  <2> QED
    BY <1>1, <2>4, <2>5
<1>7. CASE i \in DOMAIN limiter
  <2>1. PICK n \in Nat, s \in Nat : n = limiter[i].count /\ s = limiter[i].start
    BY <1>7 DEF TryInv
  <2>2. /\ s <= now /\ WindowOK(attempts, i, n, s) /\ Cardinality(TriesSince(attempts, i, s)) <= RedeemMax
    BY <1>1, <1>7, <2>1 DEF TryInv
  <2>3. CASE ~(now - s > RedeemWindow)
    <3>1. limiter_entry(i, now).count = n + 1 /\ limiter_entry(i, now).start = s
      BY <1>7, <2>1, <2>3 DEF limiter_entry
    <3>2. now <= s + RedeemWindow
      BY <2>3
    <3> QED
      BY <1>1, <2>2, <3>1, <3>2
  <2>4. CASE now - s > RedeemWindow
    <3>1. limiter_entry(i, now).count = 0 + 1 /\ limiter_entry(i, now).start = now
      BY <1>7, <2>1, <2>4 DEF limiter_entry
    <3>2. \A k \in DOMAIN attempts : attempts[k][1] = i => attempts[k][2] <= s + RedeemWindow /\ attempts[k][2] < now
      BY <1>3, <1>4, <2>2, <2>4 DEF WindowOK
    <3>3. TriesSince(attempts, i, now) = {}
      BY <1>3, <1>4, <3>2 DEF TriesSince
    <3>4. ASSUME NEW from \in Int, from >= now - RedeemWindow
          PROVE  Cardinality(TriesIn(attempts, i, from, now - 1)) <= RedeemMax
      <4>1. TriesIn(attempts, i, from, now - 1) \subseteq TriesSince(attempts, i, s)
        BY <1>3, <1>4, <2>4, <3>4 DEF TriesIn, TriesSince
      <4>2. PICK a \in Nat : a = Cardinality(TriesIn(attempts, i, from, now - 1))
        BY <1>2, TriesFinite
      <4>3. PICK b \in Nat : b = Cardinality(TriesSince(attempts, i, s))
        BY <1>2, TriesFinite
      <4>4. a <= b
        BY <1>2, <4>1, <4>2, <4>3, TriesFinite, FS_Subset
      <4> QED
        BY <2>2, <4>2, <4>3, <4>4
    <3>5. \A k \in DOMAIN attempts : attempts[k][1] = i => attempts[k][2] <= now + RedeemWindow
      BY <1>3, <1>4, <3>2
    <3>6. WindowOK(attempts, i, 0, now) /\ Cardinality(TriesSince(attempts, i, now)) <= RedeemMax
      BY <1>5, <3>3, <3>4, <3>5 DEF WindowOK
    <3>7. now <= now + RedeemWindow
      OBVIOUS
    <3> QED
      BY <1>1, <3>1, <3>6, <3>7
  <2> QED
    BY <2>3, <2>4
<1> QED
  BY <1>6, <1>7

LEMMA TryLimitInv ==
    ASSUME TryInv, UseInv, NEW u \in ShUsers, redeem_limit(u)
    PROVE  TryInv'
<1> USE ShAssumption
<1> DEFINE i == shReq[u].call.link
           entry == limiter_entry(i, shTime)
<1>1. i \in LinkIds
  <2>1. shReq[u].call \in ShCalls /\ shReq[u].call.op = "redeem"
    BY DEF redeem_limit, UseInv, ShReqFine
  <2> QED
    BY <2>1
<1>2. /\ limiter' = Insert(limiter, i, entry) /\ UNCHANGED shTime
      /\ \/ entry.count > RedeemMax /\ UNCHANGED attempts
         \/ ~(entry.count > RedeemMax) /\ attempts' = Append(attempts, <<i, shTime>>)
  BY DEF redeem_limit
<1>3. PICK n \in Nat, s \in Nat :
              /\ entry.count = n + 1 /\ entry.start = s
              /\ s <= shTime /\ shTime <= s + RedeemWindow
              /\ WindowOK(attempts, i, n, s)
              /\ Cardinality(TriesSince(attempts, i, s)) <= RedeemMax
  <2> HIDE DEF i
  <2> QED
    BY <1>1, TryWindow
<1> HIDE DEF i, entry
<1>4. PICK now \in Nat : now = shTime /\ shTime' = now
  BY <1>2 DEF TryInv
<1>5. /\ DOMAIN limiter' = DOMAIN limiter \cup {i} /\ limiter'[i] = entry
      /\ \A j \in DOMAIN limiter \ {i} : limiter'[j] = limiter[j]
  BY <1>2 DEF Insert
<1>6. attempts \in Seq(LinkIds \X Nat)
  BY DEF TryInv
<1>7. PICK N \in Nat : DOMAIN attempts = 1..N /\ N = Len(attempts)
  BY <1>6
<1>8. \A k \in 1..N : attempts[k][2] \in Nat
  BY <1>6, <1>7
<1>9. PICK x \in Nat : x = Cardinality(TriesSince(attempts, i, s))
  BY <1>6, TriesFinite
<1>10. x <= n /\ x <= RedeemMax
  BY <1>3, <1>9 DEF WindowOK
\* A refused attempt is counted and not made.
<1>11. CASE entry.count > RedeemMax /\ UNCHANGED attempts
  <2>1. WindowOK(attempts, i, n + 1, s)
    <3>1. x <= n + 1
      BY <1>10
    <3> QED
      BY <1>3, <1>9, <3>1 DEF WindowOK
  <2>2. ASSUME NEW j \in DOMAIN limiter'
        PROVE  /\ limiter'[j].count \in Nat /\ limiter'[j].start \in Nat /\ limiter'[j].start <= now
               /\ Cardinality(TriesSince(attempts, j, limiter'[j].start)) <= RedeemMax
               /\ WindowOK(attempts, j, limiter'[j].count, limiter'[j].start)
    <3>1. CASE j = i
      BY <1>3, <1>4, <1>5, <2>1, <3>1
    <3>2. CASE j # i
      BY <1>4, <1>5, <3>2 DEF TryInv
    <3> QED
      BY <3>1, <3>2
  <2>3. \A k \in DOMAIN attempts : attempts[k][1] \in DOMAIN limiter'
    BY <1>5 DEF TryInv
  <2>4. \A j \in LinkIds, from \in Int : Cardinality(TriesIn(attempts, j, from, from + RedeemWindow)) <= 2 * RedeemMax
    BY DEF TryInv
  <2> QED
    BY <1>4, <1>6, <1>11, <2>2, <2>3, <2>4 DEF TryInv
<1>12. CASE ~(entry.count > RedeemMax) /\ attempts' = Append(attempts, <<i, shTime>>)
  <2>1. PICK e \in LinkIds \X Nat : e = <<i, now>> /\ e[1] = i /\ e[2] = now
    <3>1. <<i, now>> \in LinkIds \X Nat /\ <<i, now>>[1] = i /\ <<i, now>>[2] = now
      BY <1>1
    <3> QED
      BY <3>1
  <2>2. attempts' = Append(attempts, e)
    BY <1>4, <1>12, <2>1
  <2>3. /\ attempts' \in Seq(LinkIds \X Nat) /\ DOMAIN attempts' = 1..N + 1
        /\ attempts'[N + 1] = e /\ \A k \in 1..N : attempts'[k] = attempts[k]
    BY <1>6, <1>7, <2>2
  <2>4. n + 1 <= RedeemMax
    BY <1>3, <1>12
  \* What the other links see.
  <2>5. ASSUME NEW j, j # i
        PROVE  /\ \A t : TriesSince(attempts', j, t) = TriesSince(attempts, j, t)
               /\ \A f, t : TriesIn(attempts', j, f, t) = TriesIn(attempts, j, f, t)
    BY <1>7, <2>1, <2>3, <2>5 DEF TriesSince, TriesIn
  <2>6. \A j, m, b : j # i /\ WindowOK(attempts, j, m, b) => WindowOK(attempts', j, m, b)
    <3> SUFFICES ASSUME NEW j, NEW m, NEW b, j # i, WindowOK(attempts, j, m, b) PROVE WindowOK(attempts', j, m, b)
      OBVIOUS
    <3>1. \A k \in DOMAIN attempts' : attempts'[k][1] = j => k \in DOMAIN attempts /\ attempts'[k] = attempts[k]
      BY <1>7, <2>1, <2>3
    <3>2. /\ TriesSince(attempts', j, b) = TriesSince(attempts, j, b)
          /\ \A from : TriesIn(attempts', j, from, b - 1) = TriesIn(attempts, j, from, b - 1)
      BY <2>5
    <3> QED
      BY <3>1, <3>2 DEF WindowOK
  \* What this link sees.
  <2>7. TriesSince(attempts', i, s) = TriesSince(attempts, i, s) \cup {N + 1} /\ N + 1 \notin TriesSince(attempts, i, s)
    BY <1>3, <1>4, <1>7, <2>1, <2>3 DEF TriesSince
  <2>8. Cardinality(TriesSince(attempts', i, s)) = x + 1
    BY <1>6, <1>9, <2>7, TriesFinite, FS_AddElement
  <2>9. \A from \in Int : TriesIn(attempts', i, from, s - 1) = TriesIn(attempts, i, from, s - 1)
    BY <1>3, <1>4, <1>7, <1>8, <2>1, <2>3 DEF TriesIn
  <2>10. \A k \in DOMAIN attempts' : attempts'[k][1] = i => attempts'[k][2] <= s + RedeemWindow
    BY <1>3, <1>4, <1>7, <2>1, <2>3 DEF WindowOK
  <2>11. WindowOK(attempts', i, n + 1, s)
    <3>1. x + 1 <= n + 1
      BY <1>10
    <3> QED
      BY <1>3, <2>8, <2>9, <2>10, <3>1 DEF WindowOK
  <2>12. x + 1 <= RedeemMax
    BY <1>10, <2>4
  <2>13. ASSUME NEW j \in DOMAIN limiter'
         PROVE  /\ limiter'[j].count \in Nat /\ limiter'[j].start \in Nat /\ limiter'[j].start <= now
                /\ Cardinality(TriesSince(attempts', j, limiter'[j].start)) <= RedeemMax
                /\ WindowOK(attempts', j, limiter'[j].count, limiter'[j].start)
    <3>1. CASE j = i
      BY <1>3, <1>4, <1>5, <2>8, <2>11, <2>12, <3>1
    <3>2. CASE j # i
      BY <1>4, <1>5, <2>5, <2>6, <3>2 DEF TryInv
    <3> QED
      BY <3>1, <3>2
  <2>14. \A k \in DOMAIN attempts' : attempts'[k][1] \in DOMAIN limiter'
    <3>1. \A k \in 1..N : attempts[k][1] \in DOMAIN limiter
      BY <1>7 DEF TryInv
    <3>2. \A k \in 1..N + 1 : k \in 1..N \/ k = N + 1
      OBVIOUS
    <3> QED
      BY <1>5, <2>1, <2>3, <3>1, <3>2
  \* A stretch that holds the new attempt reaches at most a window's length
  \* back before the window the attempt is in.
  <2>15. ASSUME NEW j \in LinkIds, NEW from \in Int
         PROVE  Cardinality(TriesIn(attempts', j, from, from + RedeemWindow)) <= 2 * RedeemMax
    <3>1. CASE j # i
      BY <2>5, <3>1 DEF TryInv
    <3>2. CASE j = i /\ now \notin from .. from + RedeemWindow
      <4>1. TriesIn(attempts', i, from, from + RedeemWindow) = TriesIn(attempts, i, from, from + RedeemWindow)
        BY <1>7, <2>1, <2>3, <3>2 DEF TriesIn
      <4> QED
        BY <1>1, <3>2, <4>1 DEF TryInv
    <3>3. CASE j = i /\ now \in from .. from + RedeemWindow
      <4> DEFINE P == TriesIn(attempts', i, from, s - 1)
                 Q == TriesSince(attempts', i, s)
                 R == TriesIn(attempts', i, from, from + RedeemWindow)
      <4>1. from >= s - RedeemWindow
        BY <1>3, <1>4, <3>3
      <4>2. \A k \in DOMAIN attempts' : attempts'[k][2] \in Nat
        BY <2>3
      <4>3. R \subseteq P \cup Q
        BY <4>2 DEF TriesIn, TriesSince
      <4>4. /\ IsFiniteSet(P) /\ IsFiniteSet(Q) /\ IsFiniteSet(R)
            /\ Cardinality(P) \in Nat /\ Cardinality(Q) \in Nat /\ Cardinality(R) \in Nat
        BY <2>3, TriesFinite
      <4>5. Cardinality(P) <= RedeemMax
        BY <1>3, <2>9, <4>1 DEF WindowOK
      <4>6. Cardinality(Q) <= RedeemMax
        BY <2>8, <2>12
      <4> HIDE DEF P, Q, R
      <4>7. /\ IsFiniteSet(P \cup Q) /\ Cardinality(P \cup Q) \in Nat
            /\ Cardinality(P \cup Q) <= Cardinality(P) + Cardinality(Q)
        <5>1. /\ IsFiniteSet(P \cup Q) /\ IsFiniteSet(P \cap Q)
              /\ Cardinality(P \cup Q) = Cardinality(P) + Cardinality(Q) - Cardinality(P \cap Q)
          BY <4>4, FS_Union, FS_Intersection
        <5>2. Cardinality(P \cap Q) \in Nat /\ Cardinality(P \cup Q) \in Nat
          BY <5>1, FS_CardinalityType
        <5> QED
          BY <4>4, <5>1, <5>2
      <4>8. Cardinality(R) <= Cardinality(P \cup Q)
        BY <4>3, <4>7, FS_Subset
      <4>9. Cardinality(R) <= 2 * RedeemMax
        BY <4>4, <4>5, <4>6, <4>7, <4>8
      <4> QED
        BY <3>3, <4>9 DEF R
    <3> QED
      BY <3>1, <3>2, <3>3
  <2> QED
    BY <1>4, <2>3, <2>13, <2>14, <2>15 DEF TryInv
<1> QED
  BY <1>2, <1>11, <1>12

LEMMA TryNextInv ==
    ASSUME TryInv, UseInv, [ShNext]_shVars
    PROVE  TryInv'
<1>1. CASE UNCHANGED <<limiter, attempts, shTime>>
  BY <1>1 DEF TryInv
<1>2. CASE ShTick
  <2>1. shTime' = shTime + 1 /\ UNCHANGED <<limiter, attempts>> /\ shTime \in Nat
    BY <1>2 DEF ShTick, TryInv
  <2>2. shTime' \in Nat /\ \A i \in DOMAIN limiter : limiter[i].start <= shTime'
    BY <2>1 DEF TryInv
  <2> QED
    BY <2>1, <2>2 DEF TryInv
<1>3. ASSUME NEW u \in ShUsers, ShStep(u) PROVE TryInv'
  <2>1. CASE redeem_limit(u)
    BY <2>1, TryLimitInv
  <2>2. CASE ~redeem_limit(u)
    <3>1. UNCHANGED <<limiter, attempts, shTime>>
      BY <1>3, <2>2 DEF ShStep, sh_require_workspace_role, create_share_link, list_share_links, share_link_check,
         update_share_link, revoke_share_link, sh_audit, redeem_find, redeem_share_link, ShWrite
    <3> QED
      BY <1>1, <3>1
  <2> QED
    BY <2>1, <2>2
<1>4. ASSUME NEW u \in ShUsers, NEW c \in ShCalls, ShBegin(u, c) PROVE TryInv'
  BY <1>1, <1>4 DEF ShBegin
<1> QED
  BY <1>1, <1>2, <1>3, <1>4 DEF ShNext, shVars

\* What is counted or good for one use stays within that use, for any number
\* of clients, calls and links and any limits: an invite that was accepted is
\* not accepted again, use_count is the number of redemptions and none
\* succeeds on a link that was not good at any moment of the request, a
\* sign-in flow gives one session, and neither limiter lets more through in
\* any stretch of time than its bound (accept_invite_pg, redeem_share_link,
\* callback_github_oauth, SlidingWindowRateLimiter).
THEOREM UsesBoundedHolds == RestSpec => []UsesBounded
<1> DEFINE Inv == WsInv /\ UseInv /\ TryInv /\ AuthInv /\ FlowInv /\ RateInv
<1>1. RestInit => Inv
  BY WsInitInv, UseInitInv, TryInitInv, AuthInitInv, FlowInitInv, RateInitInv DEF RestInit
<1>2. Inv /\ [RestNext]_<<part, contentVars, accessVars>> => Inv'
  <2> SUFFICES ASSUME Inv, [RestNext]_<<part, contentVars, accessVars>> PROVE Inv'
    OBVIOUS
  <2>1. [WsNext]_wsVars /\ [ShNext]_shVars /\ [AuthNext]_authVars
    BY DEF RestNext, accessVars
  <2>2. WsInv' /\ UseInv' /\ TryInv'
    BY <2>1, WsNextInv, UseNextInv, TryNextInv
  <2>3. AuthInv' /\ FlowInv' /\ RateInv'
    BY <2>1, AuthNextInv, FlowNextInv, RateNextInv
  <2> QED
    BY <2>2, <2>3
<1>3. Inv => UsesBounded
  <2> SUFFICES ASSUME Inv PROVE UsesBounded
    OBVIOUS
  <2>1. WsInviteNotReused
    BY DEF WsInv, WsReqsOK, WsReqOK, WsInviteNotReused
  <2>2. ShUsesCounted /\ ShRedeemUsable
    BY DEF UseInv, ShReqFine, ShRedeemUsable
  <2>3. ShAttemptsBounded
    BY DEF TryInv, TriesIn, ShAttemptsBounded
  <2>4. AuthFlowOnce
    BY DEF FlowInv
  <2>5. AuthWindowBound
    BY DEF RateInv, RateBounded, PassedIn, AuthWindowBound
  <2> QED
    BY <2>1, <2>2, <2>3, <2>4, <2>5 DEF UsesBounded
<1> QED
  BY <1>1, <1>2, <1>3, PTL DEF RestSpec

-----------------------------------------------------------------------------
(* Listings.  Rows in order, and pages of them.                            *)

\* Of two rows one is before the other, and before all that come after it.
StrictOrder(S, R) ==
    /\ \A d \in S : <<d, d>> \notin R
    /\ \A d, e \in S : d # e => <<d, e>> \in R \/ <<e, d>> \in R
    /\ \A d, e, f \in S : <<d, e>> \in R /\ <<e, f>> \in R => <<d, f>> \in R

BelowIn(S, R, d) == {e \in S : <<e, d>> \in R}

Rank(S, R, d) == Cardinality(BelowIn(S, R, d))

\* A row has as many before it as its rank says, and no two have the same.
LEMMA RankFacts ==
    ASSUME NEW S, IsFiniteSet(S), NEW R, StrictOrder(S, R)
    PROVE  /\ \A d \in S : Rank(S, R, d) \in 0..(Cardinality(S) - 1)
           /\ \A d, e \in S : <<d, e>> \in R <=> Rank(S, R, d) < Rank(S, R, e)
           /\ \A d, e \in S : Rank(S, R, d) = Rank(S, R, e) => d = e
<1>1. \A d \in S : BelowIn(S, R, d) \in SUBSET S /\ d \notin BelowIn(S, R, d)
  BY DEF BelowIn, StrictOrder
<1>2. Cardinality(S) \in Nat
  BY FS_CardinalityType
<1>3. \A d \in S : IsFiniteSet(BelowIn(S, R, d)) /\ Rank(S, R, d) \in Nat
  BY <1>1, FS_Subset, FS_CardinalityType DEF Rank
<1>4. ASSUME NEW d \in S PROVE Rank(S, R, d) \in 0..(Cardinality(S) - 1)
  <2>1. IsFiniteSet(S \ {d}) /\ Cardinality(S \ {d}) = Cardinality(S) - 1
    BY FS_RemoveElement
  <2>2. BelowIn(S, R, d) \in SUBSET (S \ {d})
    BY <1>1
  <2>3. Rank(S, R, d) <= Cardinality(S) - 1
    BY <2>1, <2>2, FS_Subset DEF Rank
  <2> QED
    BY <1>2, <1>3, <2>3
<1>5. ASSUME NEW d \in S, NEW e \in S, <<d, e>> \in R PROVE Rank(S, R, d) < Rank(S, R, e)
  <2>1. BelowIn(S, R, d) \in SUBSET BelowIn(S, R, e)
    BY <1>5 DEF BelowIn, StrictOrder
  <2>2. d \in BelowIn(S, R, e) /\ d \notin BelowIn(S, R, d)
    BY <1>1, <1>5 DEF BelowIn
  <2>3. BelowIn(S, R, d) # BelowIn(S, R, e)
    BY <2>2
  <2>4. Rank(S, R, d) <= Rank(S, R, e) /\ Rank(S, R, d) # Rank(S, R, e)
    BY <1>3, <2>1, <2>3, FS_Subset DEF Rank
  <2> QED
    BY <1>3, <2>4
<1>6. ASSUME NEW d \in S, NEW e \in S, d # e PROVE Rank(S, R, d) # Rank(S, R, e)
  <2>1. <<d, e>> \in R \/ <<e, d>> \in R
    BY <1>6 DEF StrictOrder
  <2> QED
    BY <1>3, <1>5, <2>1
<1>7. ASSUME NEW d \in S, NEW e \in S, Rank(S, R, d) < Rank(S, R, e) PROVE <<d, e>> \in R
  <2>1. d # e
    BY <1>3, <1>7
  <2>2. <<d, e>> \in R \/ <<e, d>> \in R
    BY <2>1 DEF StrictOrder
  <2> QED
    BY <1>3, <1>5, <1>7, <2>2
<1> QED
  BY <1>4, <1>5, <1>6, <1>7

\* ORDER BY gives every row once, each at the place after its rank.
LEMMA OrderedFacts ==
    ASSUME NEW S, IsFiniteSet(S), NEW R, StrictOrder(S, R)
    PROVE  /\ Ordered(S, R) \in Seq(S) /\ Len(Ordered(S, R)) = Cardinality(S)
           /\ \A i \in 1..Cardinality(S) : Rank(S, R, Ordered(S, R)[i]) = i - 1
           /\ \A d \in S : Rank(S, R, d) + 1 \in 1..Cardinality(S) /\ Ordered(S, R)[Rank(S, R, d) + 1] = d
<1> DEFINE n == Cardinality(S)
           f == [d \in S |-> Rank(S, R, d)]
           o == Ordered(S, R)
<1>1. n \in Nat
  BY FS_CardinalityType
<1>2. \A d \in S : Rank(S, R, d) \in 0..(n - 1)
  BY RankFacts
<1>3. \A d, e \in S : Rank(S, R, d) = Rank(S, R, e) => d = e
  BY RankFacts
<1>4. f \in Injection(S, 0..(n - 1))
  BY <1>2, <1>3 DEF Injection, IsInjective
<1>5. IsFiniteSet(0..(n - 1)) /\ Cardinality(0..(n - 1)) = n
  <2>1. 0 \in Int /\ n - 1 \in Int /\ (IF 0 > n - 1 THEN 0 ELSE n - 1 - 0 + 1) = n
    BY <1>1
  <2> HIDE DEF n
  <2> QED
    BY <2>1, FS_Interval
<1>6. f \in Surjection(S, 0..(n - 1))
  BY <1>4, <1>5, FS_Injection
<1>7. \A k \in 0..(n - 1) : \E d \in S : Rank(S, R, d) = k
  BY <1>6 DEF Surjection
<1>8. ASSUME NEW i \in 1..n PROVE o[i] \in S /\ Rank(S, R, o[i]) = i - 1
  <2>1. i - 1 \in 0..(n - 1)
    BY <1>1
  <2>2. \E d \in S : Rank(S, R, d) = i - 1
    BY <1>7, <2>1
  <2>3. o[i] = CHOOSE d \in S : Rank(S, R, d) = i - 1
    BY DEF Ordered, Rank, BelowIn
  <2> QED
    BY <2>2, <2>3
<1>9. o = [i \in 1..n |-> o[i]]
  <2> DEFINE e(i) == CHOOSE d \in S : Cardinality({x \in S : <<x, d>> \in R}) = i - 1
  <2>1. o = [i \in 1..n |-> e(i)]
    BY DEF Ordered
  <2> HIDE DEF e, o
  <2> QED
    BY <2>1
<1> HIDE DEF o, n
<1>10. o \in Seq(S) /\ Len(o) = n
  BY <1>1, <1>8, <1>9
<1>11. ASSUME NEW d \in S PROVE Rank(S, R, d) + 1 \in 1..n /\ o[Rank(S, R, d) + 1] = d
  <2>1. PICK i : i = Rank(S, R, d) + 1
    OBVIOUS
  <2>2. i \in 1..n /\ i - 1 = Rank(S, R, d)
    BY <1>1, <1>2, <2>1
  <2>3. o[i] \in S /\ Rank(S, R, o[i]) = Rank(S, R, d)
    BY <1>8, <2>2
  <2>4. o[i] = d
    BY <1>3, <2>3
  <2> QED
    BY <2>1, <2>2, <2>4
<1> QED
  BY <1>8, <1>10, <1>11 DEF o, n

-----------------------------------------------------------------------------
(* The list of documents.  A document that does not change is on the page  *)
(* its place says, and the cursor stands for all that is at or before the  *)
(* last document given.                                                    *)

RowFields == {"ws", "norm", "etag", "updated", "archived", "deleted", "tags"}

DocRows(t) ==
    /\ DOMAIN t \subseteq DocIds /\ IsFiniteSet(DOMAIN t)
    /\ \A d \in DOMAIN t : DOMAIN t[d] = RowFields /\ t[d].updated \in Int

\* Where the statement with a cursor looks.
AfterCursor(t, d, cursor) ==
    \/ t[d].updated < cursor[1].updated
    \/ t[d].updated = cursor[1].updated /\ d < cursor[1].id

CursorOK(cursor) == cursor = NoCursor \/ (cursor[1].updated \in Int /\ cursor[1].id \in Int)

Once(s, d) == \E i \in DOMAIN s : \A j \in DOMAIN s : s[j] = d <=> j = i

Absent(s, d) == \A j \in DOMAIN s : s[j] # d

\* Time and id put any documents in order.
LEMMA DocOrder ==
    ASSUME NEW t, DocRows(t), NEW S \in SUBSET DOMAIN t
    PROVE  StrictOrder(S, {p \in S \X S : DocBefore(t, p[1], p[2])})
<1> DEFINE R == {p \in S \X S : DocBefore(t, p[1], p[2])}
<1>1. \A d, e \in S : <<d, e>> \in R <=> DocBefore(t, d, e)
  OBVIOUS
<1>2. \A d \in S : d \in Int /\ t[d].updated \in Int
  BY DocRowsGiven DEF DocRows
<1> HIDE DEF R
<1>3. \A d \in S : ~DocBefore(t, d, d)
  BY <1>2 DEF DocBefore
<1>4. \A d, e \in S : d # e => DocBefore(t, d, e) \/ DocBefore(t, e, d)
  BY <1>2 DEF DocBefore
<1>5. \A d, e, f \in S : DocBefore(t, d, e) /\ DocBefore(t, e, f) => DocBefore(t, d, f)
  BY <1>2 DEF DocBefore
<1>6. StrictOrder(S, R)
  BY <1>1, <1>3, <1>4, <1>5 DEF StrictOrder
<1> QED
  BY <1>6 DEF R

\* A page: all of the rows, or the first of them, each once, and the cursor
\* is the last one given.
LEMMA PageFacts ==
    ASSUME NEW t, DocRows(t), NEW S \in SUBSET DOMAIN t, NEW limit \in Nat \ {0}
    PROVE  LET page == paginate(DocsInOrder(t, S), limit)
           IN /\ page.items \in Seq(S)
              /\ \/ page.cursor = NoCursor /\ \A d \in S : Once(page.items, d)
                 \/ \E m \in S : /\ page.cursor = <<m>>
                                 /\ \A d \in S : IF DocBefore(t, m, d) THEN Absent(page.items, d)
                                                 ELSE Once(page.items, d)
<1> DEFINE R == {p \in S \X S : DocBefore(t, p[1], p[2])}
           o == DocsInOrder(t, S)
           n == Cardinality(S)
           page == paginate(o, limit)
           items == page.items
<1>1. IsFiniteSet(S)
  BY FS_Subset DEF DocRows
<1>2. StrictOrder(S, R)
  BY DocOrder
<1>3. \A d, e \in S : <<d, e>> \in R <=> DocBefore(t, d, e)
  OBVIOUS
<1>4. o = Ordered(S, R)
  BY DEF DocsInOrder
<1> HIDE DEF R, o
<1>5. /\ o \in Seq(S) /\ Len(o) = n
      /\ \A i \in 1..n : Rank(S, R, o[i]) = i - 1
      /\ \A d \in S : Rank(S, R, d) + 1 \in 1..n /\ o[Rank(S, R, d) + 1] = d
  BY <1>1, <1>2, <1>4, OrderedFacts
<1>6. /\ \A d \in S : Rank(S, R, d) \in 0..(n - 1)
      /\ \A d, e \in S : <<d, e>> \in R <=> Rank(S, R, d) < Rank(S, R, e)
  BY <1>1, <1>2, RankFacts
<1>7. n \in Nat
  BY <1>1, FS_CardinalityType
<1> HIDE DEF n
<1>8. \A i \in 1..n : o[i] \in S
  BY <1>5, ElementOfSeq
<1>9. CASE ~(n > limit)
  <2>1. page = [items |-> o, cursor |-> NoCursor]
    BY <1>5, <1>9 DEF paginate
  <2>2. items = o /\ page.cursor = NoCursor
    BY <2>1
  <2> HIDE DEF page, items
  <2>3. ASSUME NEW d \in S PROVE Once(o, d)
    <3>1. PICK i : i = Rank(S, R, d) + 1
      OBVIOUS
    <3>2. i \in 1..n /\ o[i] = d /\ DOMAIN o = 1..n
      BY <1>5, <3>1
    <3>3. \A j \in 1..n : o[j] = d => j = i
      BY <1>5, <1>7, <3>1
    <3> QED
      BY <3>2, <3>3 DEF Once
  <2> QED
    BY <1>5, <2>2, <2>3 DEF items, page, o
<1>10. CASE n > limit
  <2>1. limit \in 1..n /\ limit \in Int
    BY <1>7, <1>10
  <2>2. \A i \in 1..limit : i \in 1..n /\ o[i] \in S
    BY <1>7, <1>8, <2>1
  <2> DEFINE x == SubSeq(o, 1, limit)
  <2>3. x \in Seq(S) /\ Len(x) = limit /\ \A i \in 1..limit : x[i] = o[i]
    <3>1. limit - 1 + 1 = limit /\ 1 <= limit /\ 1 \in Int
      BY <2>1
    <3> QED
      BY <2>1, <2>2, <3>1, SubSeqProperties
  <2> HIDE DEF x
  <2>4. page = [items |-> x, cursor |-> <<x[Len(x)]>>]
    BY <1>5, <1>10 DEF paginate, x
  <2>5. PICK m : m = o[limit]
    OBVIOUS
  <2>6. items = x /\ page.cursor = <<m>> /\ m \in S /\ Rank(S, R, m) = limit - 1
    BY <1>5, <2>1, <2>2, <2>3, <2>4, <2>5
  <2> HIDE DEF page, items
  <2>7. ASSUME NEW d \in S PROVE IF DocBefore(t, m, d) THEN Absent(x, d) ELSE Once(x, d)
    <3>1. PICK i : i = Rank(S, R, d) + 1
      OBVIOUS
    <3>2. i \in 1..n /\ o[i] = d /\ DOMAIN x = 1..limit
      BY <1>5, <2>3, <3>1
    <3>3. \A j \in 1..limit : o[j] = d => j = i
      BY <1>5, <1>7, <2>2, <3>1
    <3>4. DocBefore(t, m, d) <=> limit - 1 < Rank(S, R, d)
      BY <1>3, <1>6, <2>6
    <3>5. Rank(S, R, d) \in Nat
      BY <1>6, <1>7
    <3>6. CASE DocBefore(t, m, d)
      <4>1. i \notin 1..limit
        BY <2>1, <3>1, <3>4, <3>5, <3>6
      <4>2. Absent(x, d)
        BY <2>3, <3>2, <3>3, <4>1 DEF Absent
      <4> QED
        BY <3>6, <4>2
    <3>7. CASE ~DocBefore(t, m, d)
      <4>1. i \in 1..limit
        BY <2>1, <3>1, <3>4, <3>5, <3>7
      <4>2. Once(x, d)
        BY <2>3, <3>2, <3>3, <4>1 DEF Once
      <4> QED
        BY <3>7, <4>2
    <3> QED
      BY <3>6, <3>7
  <2> QED
    BY <2>3, <2>6, <2>7 DEF items, page, o
<1> QED
  BY <1>9, <1>10

\* What the list asks for.
DocFound(t, ws, prefix, archived, cursor) ==
    {d \in DOMAIN t : /\ doc_visible(t[d], ws, prefix, archived)
                      /\ cursor # NoCursor => AfterCursor(t, d, cursor)}

\* list_pg: what is at or before the new cursor is given once, the rest not.
LEMMA ListFacts ==
    ASSUME NEW t, DocRows(t), NEW ws, NEW prefix, NEW archived, NEW limit \in Nat \ {0}, NEW cursor
    PROVE  LET page == list_pg(t, ws, prefix, archived, limit, cursor)
               F == DocFound(t, ws, prefix, archived, cursor)
           IN /\ page.items \in Seq(F)
              /\ \/ page.cursor = NoCursor /\ \A d \in F : Once(page.items, d)
                 \/ \E m \in F : /\ page.cursor = <<[updated |-> t[m].updated, id |-> m]>>
                                 /\ \A d \in F : IF AfterCursor(t, d, page.cursor) THEN Absent(page.items, d)
                                                 ELSE Once(page.items, d)
<1> DEFINE F == DocFound(t, ws, prefix, archived, cursor)
           p == paginate(DocsInOrder(t, F), limit)
           page == list_pg(t, ws, prefix, archived, limit, cursor)
<1>1. F \in SUBSET DOMAIN t
  BY DEF DocFound
<1>2. page = [items |-> p.items, cursor |-> IF p.cursor = NoCursor THEN NoCursor
                                             ELSE <<[updated |-> t[p.cursor[1]].updated, id |-> p.cursor[1]]>>]
  BY DEF list_pg, DocFound, AfterCursor
<1> HIDE DEF F
<1>3. /\ p.items \in Seq(F)
      /\ \/ p.cursor = NoCursor /\ \A d \in F : Once(p.items, d)
         \/ \E m \in F : /\ p.cursor = <<m>>
                         /\ \A d \in F : IF DocBefore(t, m, d) THEN Absent(p.items, d) ELSE Once(p.items, d)
  BY <1>1, PageFacts
<1> HIDE DEF p, page
<1>4. page.items = p.items
  BY <1>2
<1>5. CASE p.cursor = NoCursor /\ \A d \in F : Once(p.items, d)
  <2>1. page.cursor = NoCursor
    BY <1>2, <1>5
  <2> QED
    BY <1>3, <1>4, <1>5, <2>1 DEF page, F
<1>6. CASE \E m \in F : /\ p.cursor = <<m>>
                        /\ \A d \in F : IF DocBefore(t, m, d) THEN Absent(p.items, d) ELSE Once(p.items, d)
  <2>1. PICK m \in F : /\ p.cursor = <<m>>
                       /\ \A d \in F : IF DocBefore(t, m, d) THEN Absent(p.items, d) ELSE Once(p.items, d)
    BY <1>6
  <2> DEFINE c == <<[updated |-> t[m].updated, id |-> m]>>
  <2>2. p.cursor # NoCursor /\ p.cursor[1] = m
    BY <2>1 DEF NoCursor
  <2>3. page.cursor = c
    BY <1>2, <2>2
  <2>4. c[1].updated = t[m].updated /\ c[1].id = m
    OBVIOUS
  <2> HIDE DEF c
  <2>5. \A d \in F : AfterCursor(t, d, c) <=> DocBefore(t, m, d)
    <3>1. \A d \in F : d \in Int /\ t[d].updated \in Int
      BY <1>1, DocRowsGiven DEF DocRows
    <3> QED
      BY <2>4, <3>1 DEF AfterCursor, DocBefore
  <2>6. \A d \in F : IF AfterCursor(t, d, c) THEN Absent(page.items, d) ELSE Once(page.items, d)
    BY <1>4, <2>1, <2>5
  <2> QED
    BY <1>3, <1>4, <2>3, <2>6 DEF page, F, c
<1> QED
  BY <1>3, <1>5, <1>6

LEMMA OnceIn ==
    ASSUME NEW f, NEW D, DOMAIN f = D, NEW d
    PROVE  Once(f, d) <=> \E i \in D : \A j \in D : f[j] = d <=> j = i
BY DEF Once

\* A list after another.
LEMMA OnceConcat ==
    ASSUME NEW A, NEW s \in Seq(A), NEW x \in Seq(A), NEW d
    PROVE  /\ Absent(s, d) /\ Absent(x, d) => Absent(s \o x, d)
           /\ Absent(s, d) /\ Once(x, d) => Once(s \o x, d)
           /\ Once(s, d) /\ Absent(x, d) => Once(s \o x, d)
<1> DEFINE r == s \o x
<1>1. PICK m \in Nat : m = Len(s) /\ DOMAIN s = 1..m
  OBVIOUS
<1>2. PICK n \in Nat : n = Len(x) /\ DOMAIN x = 1..n
  OBVIOUS
<1>3. DOMAIN r = 1..(m + n) /\ \A i \in 1..(m + n) : r[i] = IF i <= m THEN s[i] ELSE x[i - m]
  BY <1>1, <1>2, ConcatProperties
<1> HIDE DEF r
<1>4. \A i \in 1..(m + n) : IF i <= m THEN i \in 1..m ELSE i - m \in 1..n
  OBVIOUS
<1>5. Absent(s, d) /\ Absent(x, d) => Absent(r, d)
  BY <1>1, <1>2, <1>3, <1>4 DEF Absent
<1>6. ASSUME Absent(s, d), Once(x, d) PROVE Once(r, d)
  <2>0. PICK k \in DOMAIN x : \A j \in DOMAIN x : x[j] = d <=> j = k
    BY <1>6 DEF Once
  <2>1. k \in 1..n /\ \A j \in 1..n : x[j] = d <=> j = k
    BY <1>2, <2>0
  <2>2. k + m \in 1..(m + n) /\ ~(k + m <= m) /\ (k + m) - m = k
    BY <2>1
  <2>3. \A i \in 1..(m + n) : r[i] = d <=> i = k + m
    <3>1. \A i \in 1..(m + n) : i <= m => r[i] # d /\ i # k + m
      BY <1>1, <1>3, <1>4, <1>6 DEF Absent
    <3>2. \A i \in 1..(m + n) : ~(i <= m) => (r[i] = d <=> i - m = k)
      BY <1>3, <1>4, <2>1
    <3> QED
      BY <2>1, <3>1, <3>2
  <2>4. \E i \in 1..(m + n) : \A j \in 1..(m + n) : r[j] = d <=> j = i
    BY <2>2, <2>3
  <2> QED
    BY <1>3, <2>4, OnceIn
<1>7. ASSUME Once(s, d), Absent(x, d) PROVE Once(r, d)
  <2>0. PICK k \in DOMAIN s : \A j \in DOMAIN s : s[j] = d <=> j = k
    BY <1>7 DEF Once
  <2>1. k \in 1..m /\ \A j \in 1..m : s[j] = d <=> j = k
    BY <1>1, <2>0
  <2>2. k \in 1..(m + n) /\ k <= m
    BY <2>1
  <2>3. \A i \in 1..(m + n) : r[i] = d <=> i = k
    <3>1. \A i \in 1..(m + n) : ~(i <= m) => r[i] # d /\ i # k
      BY <1>2, <1>3, <1>4, <1>7, <2>1 DEF Absent
    <3>2. \A i \in 1..(m + n) : i <= m => (r[i] = d <=> i = k)
      BY <1>3, <1>4, <2>1
    <3> QED
      BY <3>1, <3>2
  <2> QED
    BY <1>3, <2>2, <2>3 DEF Once
<1> QED
  BY <1>5, <1>6, <1>7 DEF r

\* What the walk has given so far, of the documents that stay as they were:
\* those the cursor has passed once, the others not yet.
Listings == {r \in DocCalls : r.op = "list"}

Listed(row, c) == doc_visible(row, c.ws, c.prefix, normalize_archived_filter(c.include, c.archived))

WalkOK(w, t) ==
    /\ DOMAIN w = {"seen", "cursor", "ended", "stable"}
    /\ w.seen \in Seq(DocIds) /\ w.stable \subseteq DOMAIN t /\ CursorOK(w.cursor)
    /\ w.cursor # NoCursor =>
          \A d \in w.stable :
             /\ \A c \in Listings : Listed(t[d], c)
             /\ IF AfterCursor(t, d, w.cursor) THEN Absent(w.seen, d) ELSE Once(w.seen, d)
    /\ w.ended => \A d \in w.stable : Once(w.seen, d)

\* What list_documents makes of the walk.
WalkOn(w, t, c) ==
    LET filter == normalize_archived_filter(c.include, c.archived)
        page == list_pg(t, c.ws, c.prefix, filter, normalize_limit(c.limit), w.cursor)
        start == w.cursor = NoCursor
    IN  [seen   |-> (IF start THEN <<>> ELSE w.seen) \o page.items,
         cursor |-> page.cursor,
         ended  |-> page.cursor = NoCursor,
         stable |-> IF ~start THEN w.stable
                    ELSE {d \in DOMAIN t : doc_visible(t[d], c.ws, c.prefix, filter)}]

LEMMA WalkPage ==
    ASSUME NEW t, DocRows(t), NEW w, WalkOK(w, t), NEW c \in Listings
    PROVE  WalkOK(WalkOn(w, t, c), t)
<1>a. PICK filter : filter = normalize_archived_filter(c.include, c.archived)
  OBVIOUS
<1>b. PICK page : page = list_pg(t, c.ws, c.prefix, filter, normalize_limit(c.limit), w.cursor)
  OBVIOUS
<1> DEFINE start == w.cursor = NoCursor
<1>c. PICK v : v = WalkOn(w, t, c)
  OBVIOUS
<1> SUFFICES WalkOK(v, t)
  BY <1>c
<1>d. v = [seen   |-> (IF start THEN <<>> ELSE w.seen) \o page.items,
           cursor |-> page.cursor,
           ended  |-> page.cursor = NoCursor,
           stable |-> IF ~start THEN w.stable
                      ELSE {d \in DOMAIN t : doc_visible(t[d], c.ws, c.prefix, filter)}]
  BY <1>a, <1>b, <1>c DEF WalkOn
<1> DEFINE F == DocFound(t, c.ws, c.prefix, filter, w.cursor)
<1>1. PICK limit : limit = normalize_limit(c.limit)
  OBVIOUS
<1>2. limit \in Nat \ {0}
  BY <1>1, DocOneListing DEF Listings, normalize_limit, DefaultPage, MaxPage
<1>3. PICK ws, prefix, cursor : ws = c.ws /\ prefix = c.prefix /\ cursor = w.cursor
  OBVIOUS
<1>4. /\ page.items \in Seq(F)
      /\ \/ page.cursor = NoCursor /\ \A d \in F : Once(page.items, d)
         \/ \E m \in F : /\ page.cursor = <<[updated |-> t[m].updated, id |-> m]>>
                         /\ \A d \in F : IF AfterCursor(t, d, page.cursor) THEN Absent(page.items, d)
                                         ELSE Once(page.items, d)
  BY <1>b, <1>1, <1>2, <1>3, ListFacts
<1>5. F \subseteq DOMAIN t /\ F \subseteq DocIds
  BY DEF DocFound, DocRows
<1> DEFINE s == IF start THEN <<>> ELSE w.seen
<1>6. s \in Seq(DocIds) /\ page.items \in Seq(DocIds)
  <2>1. page.items \in Seq(DocIds)
    BY <1>4, <1>5, SeqMonotonic
  <2> QED
    BY <2>1 DEF WalkOK
<1>7. /\ DOMAIN v = {"seen", "cursor", "ended", "stable"}
      /\ v.seen = s \o page.items /\ v.cursor = page.cursor /\ (v.ended <=> page.cursor = NoCursor)
      /\ v.stable = IF ~start THEN w.stable ELSE {d \in DOMAIN t : doc_visible(t[d], c.ws, c.prefix, filter)}
  BY <1>d
<1>8. v.seen \in Seq(DocIds)
  BY <1>6, <1>7, ConcatProperties
<1>9. v.stable \subseteq DOMAIN t
  BY <1>7 DEF WalkOK
<1>10. ASSUME NEW d \in v.stable PROVE \A e \in Listings : Listed(t[d], e)
  <2>1. Listed(t[d], c)
    <3>1. CASE start
      BY <1>a, <1>7, <1>10, <3>1 DEF Listed
    <3>2. CASE ~start
      BY <1>7, <1>10, <3>2 DEF WalkOK
    <3> QED
      BY <3>1, <3>2
  <2>2. \A e \in Listings : e.ws = c.ws /\ e.prefix = c.prefix /\ e.include = c.include /\ e.archived = c.archived
    BY DocOneListing DEF Listings
  <2> QED
    BY <2>1, <2>2 DEF Listed
<1>11. \A d \in v.stable : d \in F <=> (w.cursor # NoCursor => AfterCursor(t, d, w.cursor))
  BY <1>a, <1>9, <1>10 DEF Listed, DocFound
<1>12. ASSUME NEW d \in v.stable
       PROVE  IF d \in F THEN Absent(s, d) ELSE Once(s, d)
  <2>1. CASE start
    <3>1. s = <<>> /\ DOMAIN <<>> = {}
      BY <2>1
    <3>2. Absent(s, d)
      BY <3>1 DEF Absent
    <3> QED
      BY <1>11, <1>12, <2>1, <3>2
  <2>2. CASE ~start
    BY <1>7, <1>11, <1>12, <2>2 DEF WalkOK
  <2> QED
    BY <2>1, <2>2
<1>13. ASSUME NEW d, d \notin F PROVE Absent(page.items, d)
  <2>1. \A j \in DOMAIN page.items : page.items[j] \in F
    BY <1>4, ElementOfSeq
  <2> QED
    BY <1>13, <2>1 DEF Absent
<1> HIDE DEF F, s
<1>14. \A d \in v.stable : /\ Absent(s, d) /\ Absent(page.items, d) => Absent(v.seen, d)
                           /\ Absent(s, d) /\ Once(page.items, d) => Once(v.seen, d)
                           /\ Once(s, d) /\ Absent(page.items, d) => Once(v.seen, d)
  <2>1. PICK x : x = page.items
    OBVIOUS
  <2>2. x \in Seq(DocIds)
    BY <1>6, <2>1
  <2>3. \A d : /\ Absent(s, d) /\ Absent(x, d) => Absent(s \o x, d)
               /\ Absent(s, d) /\ Once(x, d) => Once(s \o x, d)
               /\ Once(s, d) /\ Absent(x, d) => Once(s \o x, d)
    BY <1>6, <2>2, OnceConcat
  <2> QED
    BY <1>7, <2>1, <2>3
<1>15. CASE page.cursor = NoCursor /\ \A d \in F : Once(page.items, d)
  <2>1. \A d \in v.stable : Once(v.seen, d)
    BY <1>12, <1>13, <1>14, <1>15
  <2>2. CursorOK(v.cursor) /\ v.cursor = NoCursor
    BY <1>7, <1>15 DEF CursorOK
  <2> QED
    BY <1>7, <1>8, <1>9, <2>1, <2>2 DEF WalkOK
<1>16. CASE \E m \in F : /\ page.cursor = <<[updated |-> t[m].updated, id |-> m]>>
                         /\ \A d \in F : IF AfterCursor(t, d, page.cursor) THEN Absent(page.items, d)
                                         ELSE Once(page.items, d)
  <2>1. PICK m \in F : /\ page.cursor = <<[updated |-> t[m].updated, id |-> m]>>
                       /\ \A d \in F : IF AfterCursor(t, d, page.cursor) THEN Absent(page.items, d)
                                       ELSE Once(page.items, d)
    BY <1>16
  <2>2. PICK x : x = [updated |-> t[m].updated, id |-> m]
    OBVIOUS
  <2>3. page.cursor = <<x>> /\ x.updated = t[m].updated /\ x.id = m
    BY <2>1, <2>2
  <2>4. v.cursor # NoCursor /\ v.cursor[1] = x /\ ~v.ended
    <3>1. <<x>> # <<>> /\ <<x>>[1] = x
      OBVIOUS
    <3> QED
      BY <1>7, <2>3, <3>1 DEF NoCursor
  <2>5. \A d \in DOMAIN t : d \in Int /\ t[d].updated \in Int
    BY DocRowsGiven DEF DocRows
  <2>6. CursorOK(v.cursor)
    BY <1>5, <2>3, <2>4, <2>5 DEF CursorOK
  <2>7. ASSUME NEW d \in v.stable, d \notin F PROVE ~AfterCursor(t, d, v.cursor)
    <3>1. w.cursor # NoCursor /\ ~AfterCursor(t, d, w.cursor)
      BY <1>11, <2>7
    <3>2. AfterCursor(t, m, w.cursor)
      BY <3>1 DEF DocFound, F
    <3>3. w.cursor[1].updated \in Int /\ w.cursor[1].id \in Int
      BY <3>1 DEF WalkOK, CursorOK
    <3>4. d \in Int /\ t[d].updated \in Int /\ m \in Int /\ t[m].updated \in Int
      BY <1>5, <1>9, <2>5
    <3> QED
      BY <2>3, <2>4, <3>1, <3>2, <3>3, <3>4 DEF AfterCursor
  <2>8. ASSUME NEW d \in v.stable
        PROVE  IF AfterCursor(t, d, v.cursor) THEN Absent(v.seen, d) ELSE Once(v.seen, d)
    BY <1>7, <1>12, <1>13, <1>14, <2>1, <2>7
  <2> QED
    BY <1>7, <1>8, <1>9, <1>10, <2>4, <2>6, <2>8 DEF WalkOK
<1> QED
  BY <1>4, <1>15, <1>16

\* A statement of another request: the walk counts on no row it changed.
LEMMA WalkWritten ==
    ASSUME NEW t, NEW w, WalkOK(w, t), NEW r,
           NEW v, v = [w EXCEPT !.stable = {d \in @ : d \in DOMAIN r /\ r[d] = t[d]}]
    PROVE  WalkOK(v, r)
<1>1. /\ DOMAIN v = DOMAIN w /\ v.seen = w.seen /\ v.cursor = w.cursor /\ v.ended = w.ended
      /\ v.stable = {d \in w.stable : d \in DOMAIN r /\ r[d] = t[d]}
  BY DEF WalkOK
<1>2. \A d \in v.stable : d \in w.stable /\ d \in DOMAIN r /\ r[d] = t[d]
  BY <1>1
<1>3. \A d \in v.stable : AfterCursor(r, d, w.cursor) <=> AfterCursor(t, d, w.cursor)
  BY <1>2 DEF AfterCursor
<1> QED
  BY <1>1, <1>2, <1>3 DEF WalkOK

\* The tables the statements leave behind.
LEMMA RowsWritten ==
    ASSUME NEW t, DocRows(t), NEW now \in Int, NEW ws, NEW d, NEW x, NEW y, NEW z
    PROVE  /\ d \in DocIds => DocRows(create_pg(t, d, ws, x, now).t)
           /\ DocRows(update_pg(t, ws, d, x, y, z, now).t)
           /\ DocRows(delete_pg(t, x, ws, d, y, now).t)
           /\ DocRows(update_tags_pg(t, ws, d, x, y, now).t)
<1>1. \A st, r : Answer(st, r).t = r
  BY DEF Answer
<1>2. d \in DocIds => DocRows(create_pg(t, d, ws, x, now).t)
  <2>1. PICK row : row = NewDoc(ws, x, now)
    OBVIOUS
  <2>2. DOMAIN row = RowFields /\ row.updated = now
    BY <2>1 DEF NewDoc, RowFields
  <2>3. PICK r : r = Insert(t, d, row)
    OBVIOUS
  <2>4. DOMAIN r = DOMAIN t \cup {d} /\ \A e \in DOMAIN r : r[e] = IF e = d THEN row ELSE t[e]
    BY <2>3 DEF Insert
  <2>5. IsFiniteSet(DOMAIN r)
    BY <2>4, FS_AddElement DEF DocRows
  <2>6. d \in DocIds => DocRows(r)
    BY <2>2, <2>4, <2>5 DEF DocRows
  <2>7. create_pg(t, d, ws, x, now).t \in {t, r}
    BY <1>1, <2>1, <2>3 DEF create_pg
  <2> QED
    BY <2>6, <2>7
<1>3. ASSUME NEW row, DOMAIN row = RowFields, row.updated \in Int, NEW r, r = [t EXCEPT ![d] = row]
      PROVE  DocRows(r)
  <2>1. DOMAIN r = DOMAIN t /\ \A e \in DOMAIN r : r[e] = IF e = d THEN row ELSE t[e]
    BY <1>3
  <2> QED
    BY <1>3, <2>1 DEF DocRows
<1>4. DocRows(update_pg(t, ws, d, x, y, z, now).t)
  <2>0. PICK norm : norm = IF x = "none" THEN t[d].norm ELSE normalize_doc_path(x)
    OBVIOUS
  <2>9. PICK at : at = CASE y = "true" /\ z = 0 -> now [] y = "false" /\ z # 0 -> 0 [] OTHER -> t[d].archived
    OBVIOUS
  <2>1. update_pg(t, ws, d, x, y, z, now) =
           IF ~DocLive(t, ws, d) THEN Answer("not_found", t)
           ELSE IF PathTaken(t, ws, d, norm) THEN Answer("conflict", t)
           ELSE Answer("ok", [t EXCEPT ![d].norm = norm, ![d].archived = at, ![d].etag = now, ![d].updated = now])
    BY <2>0, <2>9 DEF update_pg
  <2>2. CASE d \in DOMAIN t
    <3>1. PICK row : row = [t[d] EXCEPT !.norm = norm, !.archived = at, !.etag = now, !.updated = now]
      OBVIOUS
    <3>2. DOMAIN row = RowFields /\ row.updated = now
      BY <2>2, <3>1 DEF DocRows, RowFields
    <3>3. PICK r : r = [t EXCEPT ![d] = row]
      OBVIOUS
    <3>4. [t EXCEPT ![d].norm = norm, ![d].archived = at, ![d].etag = now, ![d].updated = now] = r
      BY <2>2, <3>1, <3>3
    <3>5. DocRows(r)
      BY <1>3, <3>2, <3>3
    <3>6. update_pg(t, ws, d, x, y, z, now) \in {Answer("not_found", t), Answer("conflict", t), Answer("ok", r)}
      BY <2>1, <3>4
    <3> QED
      BY <1>1, <3>5, <3>6
  <2>3. CASE d \notin DOMAIN t
    BY <1>1, <2>1, <2>3 DEF DocLive
  <2> QED
    BY <2>2, <2>3
<1>5. DocRows(delete_pg(t, x, ws, d, y, now).t)
  <2>1. PICK r : r = [e \in DOMAIN t \ {d} |-> t[e]]
    OBVIOUS
  <2>2. DOMAIN r = DOMAIN t \ {d} /\ \A e \in DOMAIN r : r[e] = t[e]
    BY <2>1
  <2>3. IsFiniteSet(DOMAIN r)
    BY <2>2, FS_Subset DEF DocRows
  <2>4. DocRows(r)
    BY <2>2, <2>3 DEF DocRows
  <2>5. DocLive(t, ws, d) => DocRows([t EXCEPT ![d].deleted = now])
    <3>1. PICK row : row = [t[d] EXCEPT !.deleted = now]
      OBVIOUS
    <3>2. DocLive(t, ws, d) => DOMAIN row = RowFields /\ row.updated \in Int
      BY <3>1 DEF DocRows, RowFields, DocLive
    <3>3. PICK q : q = [t EXCEPT ![d] = row]
      OBVIOUS
    <3>4. [t EXCEPT ![d].deleted = now] = q
      BY <3>1, <3>3
    <3> QED
      BY <1>3, <3>2, <3>3, <3>4
  <2> QED
    BY <1>1, <2>1, <2>4, <2>5 DEF delete_pg
<1>6. DocRows(update_tags_pg(t, ws, d, x, y, now).t)
  <2>1. CASE ~DocLive(t, ws, d)
    BY <1>1, <2>1 DEF update_tags_pg
  <2>2. CASE DocLive(t, ws, d)
    <3>1. PICK tags : tags = IF x = "add" THEN t[d].tags \cup y ELSE t[d].tags \ y
      OBVIOUS
    <3>2. PICK row : row = [t[d] EXCEPT !.tags = tags, !.etag = now, !.updated = now]
      OBVIOUS
    <3>3. d \in DOMAIN t /\ DOMAIN row = RowFields /\ row.updated = now
      BY <2>2, <3>2 DEF DocRows, RowFields, DocLive
    <3>4. PICK q : q = [t EXCEPT ![d] = row]
      OBVIOUS
    <3>5. update_tags_pg(t, ws, d, x, y, now) = Answer("ok", q)
      BY <2>2, <3>1, <3>2, <3>3, <3>4 DEF update_tags_pg
    <3>6. DocRows(q)
      BY <1>3, <3>3, <3>4
    <3> QED
      BY <1>1, <3>5, <3>6
  <2> QED
    BY <2>1, <2>2
<1> QED
  BY <1>2, <1>4, <1>5, <1>6

DocWalkInv ==
    /\ DocInv /\ DocRows(docs) /\ docTick \in Int
    /\ \A u \in DocUsers : docReq[u].call.op = "list" => docReq[u].call \in DocCalls
    /\ WalkOK(docWalk, docs)

LEMMA DocWalkInitInv == DocsInit => DocWalkInv
<1> SUFFICES ASSUME DocsInit PROVE DocWalkInv
  OBVIOUS
<1>1. DocRows(docs)
  BY DocRowsGiven DEF DocsInit, DocRows, RowFields
<1>2. \A u \in DocUsers : docReq[u].call.op # "list"
  BY DEF DocsInit, IdleReq
<1>3. /\ docWalk.seen = <<>> /\ docWalk.cursor = NoCursor /\ ~docWalk.ended /\ docWalk.stable = {}
      /\ DOMAIN docWalk = {"seen", "cursor", "ended", "stable"}
  BY DEF DocsInit
<1>4. <<>> \in Seq(DocIds)
  OBVIOUS
<1>5. WalkOK(docWalk, docs)
  BY <1>3, <1>4 DEF WalkOK, CursorOK
<1>6. docTick \in Int
  BY DEF DocsInit
<1> QED
  BY <1>1, <1>2, <1>5, <1>6, DocInitInv DEF DocWalkInv

\* A request keeps its call until another one begins.
DocCallsKept == \A v \in DocUsers : docReq'[v].call = docReq[v].call

LEMMA FinishCalls ==
    ASSUME DocInv, NEW u \in DocUsers, NEW v \in DocUsers, NEW x, NEW y
    PROVE  /\ Finish(u, x)[v].call = docReq[v].call
           /\ Goto(u, x)[v].call = docReq[v].call
           /\ [Goto(u, x) EXCEPT ![u].role = y][v].call = docReq[v].call
           /\ [Goto(u, x) EXCEPT ![u].doc = y][v].call = docReq[v].call
           /\ [Goto(u, x) EXCEPT ![u].got = y][v].call = docReq[v].call
<1>1. DOMAIN docReq = DocUsers /\ DOMAIN docReq[v] = DocFields
  BY DEF DocInv, DocRecord
<1> QED
  BY <1>1 DEF Finish, Goto, DocFields

LEMMA ObserveCalls ==
    ASSUME NEW req, NEW t, NEW roles, NEW v \in DocUsers
    PROVE  Observe(req, t, roles)[v].call = req[v].call
BY DEF Observe

LEMMA WriteCalls ==
    ASSUME DocInv, NEW u \in DocUsers, NEW r, NEW next, Write(u, r, next),
           \A v \in DocUsers : next[v].call = docReq[v].call
    PROVE  DocCallsKept
<1>1. PICK st : st = r.st
  OBVIOUS
<1>2. PICK n : n = IF st = "ok" THEN next ELSE Finish(u, st)
  OBVIOUS
<1>3. \A v \in DocUsers : n[v].call = docReq[v].call
  BY <1>2, FinishCalls
<1>4. PICK t, roles : t = r.t /\ roles = docRoles
  OBVIOUS
<1>5. docReq' = Observe(n, t, roles)
  BY <1>1, <1>2, <1>4 DEF Write
<1> QED
  BY <1>3, <1>5, ObserveCalls DEF DocCallsKept

LEMMA StepCalls ==
    ASSUME DocInv, NEW u \in DocUsers, DocsStep(u)
    PROVE  DocCallsKept
<1> DEFINE c == docReq[u].call
<1>1. CASE doc_require_workspace_role(u)
  <2>1. PICK role, checked : role = docRoles[u] /\ checked = doc_validate(c, docTick)
    OBVIOUS
  <2>2. docReq' \in {Finish(u, "forbidden"), [Goto(u, "acl") EXCEPT ![u].role = role], Finish(u, checked), Goto(u, "op")}
    BY <1>1, <2>1 DEF doc_require_workspace_role, workspace_role_for_user_pg
  <2>3. \A v \in DocUsers : /\ Finish(u, "forbidden")[v].call = docReq[v].call
                            /\ [Goto(u, "acl") EXCEPT ![u].role = role][v].call = docReq[v].call
                            /\ Finish(u, checked)[v].call = docReq[v].call
                            /\ Goto(u, "op")[v].call = docReq[v].call
    BY FinishCalls
  <2> QED
    BY <2>2, <2>3 DEF DocCallsKept
<1>2. CASE doc_require_document_role(u)
  <2>1. PICK checked : checked = doc_validate(c, docTick)
    OBVIOUS
  <2>2. docReq' \in {Finish(u, "forbidden"), Finish(u, checked), Goto(u, "op")}
    BY <1>2, <2>1 DEF doc_require_document_role
  <2> QED
    BY <2>2, FinishCalls DEF DocCallsKept
<1>3. CASE create_document(u)
  <2>1. PICK d, r, at : Write(u, r, [Goto(u, at) EXCEPT ![u].doc = d])
    BY <1>3 DEF create_document
  <2>2. \A v \in DocUsers : [Goto(u, at) EXCEPT ![u].doc = d][v].call = docReq[v].call
    BY FinishCalls
  <2> QED
    BY <2>1, <2>2, WriteCalls
<1>4. CASE create_document_tags(u)
  <2>1. \E r : Write(u, r, Goto(u, "audit"))
    BY <1>4 DEF create_document_tags
  <2>2. \A v \in DocUsers : Goto(u, "audit")[v].call = docReq[v].call
    BY FinishCalls
  <2> QED
    BY <2>1, <2>2, WriteCalls
<1>5. CASE get_document(u)
  <2>1. PICK st : docReq' = Finish(u, st)
    BY <1>5 DEF get_document
  <2> QED
    BY <2>1, FinishCalls DEF DocCallsKept
<1>6. CASE list_documents(u)
  <2>1. docReq' = Finish(u, "ok")
    BY <1>6 DEF list_documents
  <2> QED
    BY <2>1, FinishCalls DEF DocCallsKept
<1>7. CASE doc_check_etag(u)
  <2>1. PICK st, x : st = check_etag_pg(docs, c.ws, c.doc, c.match) /\ x = docs[c.doc].archived
    OBVIOUS
  <2>2. docReq' \in {Finish(u, st), [Goto(u, "write") EXCEPT ![u].got = x]}
    BY <1>7, <2>1 DEF doc_check_etag
  <2>3. \A v \in DocUsers : /\ Finish(u, st)[v].call = docReq[v].call
                            /\ [Goto(u, "write") EXCEPT ![u].got = x][v].call = docReq[v].call
    BY FinishCalls
  <2> QED
    BY <2>2, <2>3 DEF DocCallsKept
<1>8. CASE update_document(u) \/ delete_document(u)
  <2>1. PICK d : d = c.doc
    OBVIOUS
  <2>2. \E r : Write(u, r, [Goto(u, "audit") EXCEPT ![u].doc = d])
    BY <1>8, <2>1 DEF update_document, delete_document
  <2>3. \A v \in DocUsers : [Goto(u, "audit") EXCEPT ![u].doc = d][v].call = docReq[v].call
    BY FinishCalls
  <2> QED
    BY <2>2, <2>3, WriteCalls
<1>9. CASE update_document_tags(u)
  <2>1. \E r : Write(u, r, Finish(u, "ok"))
    BY <1>9 DEF update_document_tags
  <2>2. \A v \in DocUsers : Finish(u, "ok")[v].call = docReq[v].call
    BY FinishCalls
  <2> QED
    BY <2>1, <2>2, WriteCalls
<1>10. CASE create_acl_override_find(u)
  <2>1. docReq' \in {Goto(u, "write"), Finish(u, "not_found")}
    BY <1>10 DEF create_acl_override_find
  <2> QED
    BY <2>1, FinishCalls DEF DocCallsKept
<1>11. CASE create_acl_override(u) \/ delete_acl_override(u)
  <2>1. PICK r : WriteAcl(u, r)
    BY <1>11 DEF create_acl_override, delete_acl_override
  <2>2. PICK st : st = r.st
    OBVIOUS
  <2>3. docReq' = Finish(u, st)
    BY <2>1, <2>2 DEF WriteAcl
  <2> QED
    BY <2>3, FinishCalls DEF DocCallsKept
<1>12. CASE try_record_document_audit_event(u)
  <2>1. docReq' = Finish(u, "ok")
    BY <1>12 DEF try_record_document_audit_event
  <2> QED
    BY <2>1, FinishCalls DEF DocCallsKept
<1> QED
  BY <1>1, <1>2, <1>3, <1>4, <1>5, <1>6, <1>7, <1>8, <1>9, <1>10, <1>11, <1>12 DEF DocsStep

\* The table and the walk after a step of a request.
LEMMA StepWalk ==
    ASSUME DocWalkInv, NEW u \in DocUsers, DocsStep(u)
    PROVE  DocRows(docs') /\ docTick' \in Int /\ WalkOK(docWalk', docs')
<1> DEFINE c == docReq[u].call
<1>1. PICK now : now = docTick + 1
  OBVIOUS
<1>2. now \in Int /\ docTick \in Int
  BY <1>1 DEF DocWalkInv
<1>3. ASSUME NEW r, NEW next, Write(u, r, next), DocRows(r.t)
      PROVE  DocRows(docs') /\ docTick' \in Int /\ WalkOK(docWalk', docs')
  <2>1. PICK t, old, w : t = r.t /\ old = docs /\ w = docWalk
    OBVIOUS
  <2>2. docs' = t /\ docWalk' = [w EXCEPT !.stable = {d \in @ : d \in DOMAIN t /\ t[d] = old[d]}]
    BY <1>3, <2>1 DEF Write
  <2>3. PICK v : v = docWalk'
    OBVIOUS
  <2>4. WalkOK(w, old)
    BY <2>1 DEF DocWalkInv
  <2>5. WalkOK(v, t)
    BY <2>2, <2>3, <2>4, WalkWritten
  <2>6. docTick' \in Int
    BY <1>2, <1>3 DEF Write
  <2> QED
    BY <1>3, <2>1, <2>2, <2>3, <2>5, <2>6
<1>4. PICK t, a : t = docs /\ a = acls
  OBVIOUS
<1>5. DocRows(t)
  BY <1>4 DEF DocWalkInv
<1>6. PICK ws, doc, path, tags, change, archived, got, hard, mine :
         /\ ws = c.ws /\ doc = c.doc /\ path = c.path /\ tags = c.tags /\ change = c.change /\ archived = c.archived
         /\ got = docReq[u].got /\ hard = c.hard /\ mine = docReq[u].doc
  OBVIOUS
<1>7. CASE create_document(u)
  <2>1. PICK d \in DocIds : \E next : Write(u, create_pg(t, d, ws, path, now), next)
    BY <1>1, <1>4, <1>6, <1>7 DEF create_document
  <2>2. DocRows(create_pg(t, d, ws, path, now).t)
    BY <1>2, <1>5, RowsWritten
  <2> QED
    BY <1>3, <2>1, <2>2
<1>8. CASE create_document_tags(u)
  <2>1. PICK next : Write(u, update_tags_pg(t, ws, mine, "add", tags, now), next)
    BY <1>1, <1>4, <1>6, <1>8 DEF create_document_tags
  <2>2. DocRows(update_tags_pg(t, ws, mine, "add", tags, now).t)
    BY <1>2, <1>5, RowsWritten
  <2> QED
    BY <1>3, <2>1, <2>2
<1>9. CASE update_document(u)
  <2>1. PICK next : Write(u, update_pg(t, ws, doc, path, archived, got, now), next)
    BY <1>1, <1>4, <1>6, <1>9 DEF update_document
  <2>2. DocRows(update_pg(t, ws, doc, path, archived, got, now).t)
    BY <1>2, <1>5, RowsWritten
  <2> QED
    BY <1>3, <2>1, <2>2
<1>10. CASE delete_document(u)
  <2>1. PICK next : Write(u, delete_pg(t, a, ws, doc, hard, now), next)
    BY <1>1, <1>4, <1>6, <1>10 DEF delete_document
  <2>2. DocRows(delete_pg(t, a, ws, doc, hard, now).t)
    BY <1>2, <1>5, RowsWritten
  <2> QED
    BY <1>3, <2>1, <2>2
<1>11. CASE update_document_tags(u)
  <2>1. PICK next : Write(u, update_tags_pg(t, ws, doc, change, tags, now), next)
    BY <1>1, <1>4, <1>6, <1>11 DEF update_document_tags
  <2>2. DocRows(update_tags_pg(t, ws, doc, change, tags, now).t)
    BY <1>2, <1>5, RowsWritten
  <2> QED
    BY <1>3, <2>1, <2>2
<1>12. CASE list_documents(u)
  <2>1. PICK call, w, v : call = c /\ w = docWalk /\ v = docWalk'
    OBVIOUS
  <2>2. v = WalkOn(w, t, call)
    BY <1>4, <1>12, <2>1 DEF list_documents, WalkOn
  <2>6. call \in Listings
    BY <1>12, <2>1 DEF list_documents, DocWalkInv, Listings
  <2>7. WalkOK(w, t)
    BY <1>4, <2>1 DEF DocWalkInv
  <2>8. WalkOK(v, t)
    BY <1>5, <2>2, <2>6, <2>7, WalkPage
  <2>9. docs' = t /\ docTick' = docTick
    BY <1>4, <1>12 DEF list_documents
  <2> QED
    BY <1>2, <1>5, <2>1, <2>8, <2>9
<1>13. CASE UNCHANGED <<docs, docWalk>> /\ docTick' \in {docTick, docTick + 1}
  BY <1>2, <1>13 DEF DocWalkInv
<1>14. CASE create_acl_override(u) \/ delete_acl_override(u)
  BY <1>13, <1>14 DEF create_acl_override, delete_acl_override, WriteAcl
<1>15. CASE \/ doc_require_workspace_role(u) \/ doc_require_document_role(u) \/ get_document(u) \/ doc_check_etag(u)
            \/ create_acl_override_find(u) \/ try_record_document_audit_event(u)
  BY <1>13, <1>15 DEF doc_require_workspace_role, doc_require_document_role, get_document, doc_check_etag,
     create_acl_override_find, try_record_document_audit_event
<1> QED
  BY <1>7, <1>8, <1>9, <1>10, <1>11, <1>12, <1>14, <1>15 DEF DocsStep

LEMMA DocWalkNextInv == DocWalkInv /\ [DocsNext]_docVars => DocWalkInv'
<1> SUFFICES ASSUME DocWalkInv, [DocsNext]_docVars PROVE DocWalkInv'
  OBVIOUS
<1>1. DocInv /\ DocInv'
  BY DocNextInv DEF DocWalkInv
<1>2. CASE UNCHANGED docVars
  BY <1>1, <1>2 DEF docVars, DocWalkInv
<1>3. ASSUME NEW u \in DocUsers, NEW c \in DocCalls, DocBegin(u, c) PROVE DocWalkInv'
  <2>1. UNCHANGED <<docs, docWalk, docTick>>
    BY <1>3 DEF DocBegin
  <2>2. \A v \in DocUsers : docReq'[v].call = IF v = u THEN c ELSE docReq[v].call
    BY <1>1, <1>3 DEF DocBegin, DocInv, IdleReq
  <2> QED
    BY <1>1, <2>1, <2>2 DEF DocWalkInv
<1>4. ASSUME NEW u \in DocUsers, DocsStep(u) PROVE DocWalkInv'
  <2>1. DocCallsKept
    BY <1>1, <1>4, StepCalls
  <2>2. DocRows(docs') /\ docTick' \in Int /\ WalkOK(docWalk', docs')
    BY <1>4, StepWalk
  <2> QED
    BY <1>1, <2>1, <2>2 DEF DocWalkInv, DocCallsKept
<1>5. ASSUME NEW u \in DocUsers, NEW role, DocRoleChange(u, role) PROVE DocWalkInv'
  <2>1. UNCHANGED <<docs, docWalk, docTick>> /\ docReq' = Observe(docReq, docs, docRoles')
    BY <1>5 DEF DocRoleChange
  <2>2. PICK req, t, roles : req = docReq /\ t = docs /\ roles = docRoles'
    OBVIOUS
  <2>3. \A v \in DocUsers : docReq'[v].call = docReq[v].call
    BY <2>1, <2>2, ObserveCalls
  <2> QED
    BY <1>1, <2>1, <2>3 DEF DocWalkInv
<1> QED
  BY <1>2, <1>3, <1>4, <1>5 DEF DocsNext

LEMMA DocWalkHolds == DocWalkInv => DocWalkComplete
<1> SUFFICES ASSUME DocWalkInv, docWalk.ended, NEW d \in docWalk.stable
             PROVE  Cardinality({i \in DOMAIN docWalk.seen : docWalk.seen[i] = d}) = 1
  BY DEF DocWalkComplete
<1>1. Once(docWalk.seen, d)
  BY DEF DocWalkInv, WalkOK
<1>2. PICK i \in DOMAIN docWalk.seen : \A j \in DOMAIN docWalk.seen : docWalk.seen[j] = d <=> j = i
  BY <1>1 DEF Once
<1>3. {j \in DOMAIN docWalk.seen : docWalk.seen[j] = d} = {i}
  BY <1>2
<1> QED
  BY <1>3, FS_Singleton

-----------------------------------------------------------------------------
(* Searching.  The cursor is an offset, so a write moves one document over *)
(* it in either direction, and no more than one.                           *)

TopOf(S, R, o) == {e \in S : Rank(S, R, e) < o}

\* One row taken out of an order and put back elsewhere.
MovedOne(S, R, T, Q, d) ==
    /\ S \ {d} = T \ {d}
    /\ \A e, f \in S \ {d} : <<e, f>> \in R <=> <<e, f>> \in Q

LEMMA RankMoves ==
    ASSUME NEW S, IsFiniteSet(S), NEW R, NEW T, IsFiniteSet(T), NEW Q, NEW d, MovedOne(S, R, T, Q, d),
           NEW e \in S \ {d}
    PROVE  /\ Rank(S, R, e) \in Nat /\ Rank(T, Q, e) \in Nat
           /\ Rank(S, R, e) <= Rank(T, Q, e) + 1
           /\ Rank(S, R, e) <= Rank(T, Q, e) \/ (d \in S /\ <<d, e>> \in R)
<1> DEFINE A == BelowIn(S, R, e)
           B == BelowIn(T, Q, e)
<1>1. IsFiniteSet(A) /\ IsFiniteSet(B) /\ Cardinality(A) \in Nat /\ Cardinality(B) \in Nat
  <2>1. A \in SUBSET S /\ B \in SUBSET T
    BY DEF BelowIn
  <2> QED
    BY <2>1, FS_Subset, FS_CardinalityType
<1>2. A \in SUBSET (B \cup {d})
  BY DEF BelowIn, MovedOne
<1>3. ~(d \in S /\ <<d, e>> \in R) => A \in SUBSET B
  BY DEF BelowIn, MovedOne
<1> HIDE DEF A, B
<1>4. /\ IsFiniteSet(B \cup {d})
      /\ Cardinality(B \cup {d}) = IF d \in B THEN Cardinality(B) ELSE Cardinality(B) + 1
  BY <1>1, FS_AddElement
<1>5. Cardinality(A) <= Cardinality(B \cup {d})
  BY <1>2, <1>4, FS_Subset
<1>6. Cardinality(A) <= Cardinality(B) + 1
  BY <1>1, <1>4, <1>5
<1>7. ~(d \in S /\ <<d, e>> \in R) => Cardinality(A) <= Cardinality(B)
  BY <1>1, <1>3, FS_Subset
<1> QED
  BY <1>1, <1>6, <1>7 DEF A, B, Rank

\* One document at most comes before the offset, beside the one written, and
\* one at most after it.
LEMMA TopMoves ==
    ASSUME NEW S, IsFiniteSet(S), NEW R, StrictOrder(S, R), NEW T, IsFiniteSet(T), NEW Q, StrictOrder(T, Q),
           NEW d, MovedOne(S, R, T, Q, d), NEW o \in Int
    PROVE  /\ \A x, y \in (TopOf(T, Q, o) \ {d}) \ TopOf(S, R, o) : x = y
           /\ \A x, y \in (T \ TopOf(T, Q, o)) \ (S \ TopOf(S, R, o)) : x = y
<1>1. MovedOne(T, Q, S, R, d)
  BY DEF MovedOne
<1>2. \A e \in S \ {d} : /\ Rank(S, R, e) \in Nat /\ Rank(T, Q, e) \in Nat
                         /\ Rank(S, R, e) <= Rank(T, Q, e) + 1
  BY RankMoves
<1>3. \A e \in S \ {d} : /\ Rank(T, Q, e) <= Rank(S, R, e) + 1
                         /\ Rank(T, Q, e) <= Rank(S, R, e) \/ (d \in T /\ <<d, e>> \in Q)
  <2>1. \A e \in T \ {d} : /\ Rank(T, Q, e) <= Rank(S, R, e) + 1
                           /\ Rank(T, Q, e) <= Rank(S, R, e) \/ (d \in T /\ <<d, e>> \in Q)
    BY <1>1, RankMoves
  <2> QED
    BY <2>1 DEF MovedOne
<1>4. \A e, f \in S : e # f => Rank(S, R, e) < Rank(S, R, f) \/ Rank(S, R, f) < Rank(S, R, e)
  <2>1. \A e, f \in S : e # f => <<e, f>> \in R \/ <<f, e>> \in R
    BY DEF StrictOrder
  <2>2. \A e, f \in S : <<e, f>> \in R <=> Rank(S, R, e) < Rank(S, R, f)
    BY RankFacts
  <2> QED
    BY <2>1, <2>2
<1>5. \A e, f \in T : <<e, f>> \in Q <=> Rank(T, Q, e) < Rank(T, Q, f)
  BY RankFacts
<1>6. \A e, f \in T : e # f => Rank(T, Q, e) < Rank(T, Q, f) \/ Rank(T, Q, f) < Rank(T, Q, e)
  <2>1. \A e, f \in T : e # f => <<e, f>> \in Q \/ <<f, e>> \in Q
    BY DEF StrictOrder
  <2> QED
    BY <1>5, <2>1
<1>7. \A e \in T : Rank(T, Q, e) \in Nat
  <2>1. Cardinality(T) \in Nat
    BY FS_CardinalityType
  <2>2. \A e \in T : Rank(T, Q, e) \in 0..(Cardinality(T) - 1)
    BY RankFacts
  <2> QED
    BY <2>1, <2>2
<1>8. ASSUME NEW x \in (TopOf(T, Q, o) \ {d}) \ TopOf(S, R, o), NEW y \in (TopOf(T, Q, o) \ {d}) \ TopOf(S, R, o)
      PROVE  x = y
  <2>1. x \in S \ {d} /\ y \in S \ {d}
    BY DEF TopOf, MovedOne
  <2>2. /\ Rank(T, Q, x) < o /\ ~(Rank(S, R, x) < o)
        /\ Rank(T, Q, y) < o /\ ~(Rank(S, R, y) < o)
    BY <2>1 DEF TopOf
  <2> QED
    BY <1>2, <1>4, <2>1, <2>2
<1>9. ASSUME NEW x \in (T \ TopOf(T, Q, o)) \ (S \ TopOf(S, R, o)), NEW y \in (T \ TopOf(T, Q, o)) \ (S \ TopOf(S, R, o))
      PROVE  x = y
  <2>1. \A e \in {x, y} : /\ e \in T /\ ~(Rank(T, Q, e) < o)
                          /\ e # d => e \in S \ {d} /\ Rank(S, R, e) < o
    BY DEF TopOf, MovedOne
  <2>2. CASE x # d /\ y # d
    <3>1. /\ x \in S \ {d} /\ x \in T /\ Rank(S, R, x) < o /\ ~(Rank(T, Q, x) < o)
          /\ y \in S \ {d} /\ y \in T /\ Rank(S, R, y) < o /\ ~(Rank(T, Q, y) < o)
      BY <2>1, <2>2
    <3>2. /\ Rank(S, R, x) \in Nat /\ Rank(T, Q, x) \in Nat /\ Rank(T, Q, x) <= Rank(S, R, x) + 1
          /\ Rank(S, R, y) \in Nat /\ Rank(T, Q, y) \in Nat /\ Rank(T, Q, y) <= Rank(S, R, y) + 1
      BY <1>2, <1>3, <3>1
    <3>3. ~(Rank(T, Q, x) < Rank(T, Q, y)) /\ ~(Rank(T, Q, y) < Rank(T, Q, x))
      BY <3>1, <3>2
    <3> QED
      BY <1>6, <3>1, <3>3
  \* The document written is now before every other that it moved on.
  <2>3. ASSUME NEW e \in {x, y}, e # d, d \in {x, y} PROVE FALSE
    <3>1. e \in S \ {d} /\ e \in T /\ Rank(S, R, e) < o /\ ~(Rank(T, Q, e) < o) /\ ~(Rank(T, Q, d) < o) /\ d \in T
      BY <2>1, <2>3
    <3>2. <<d, e>> \in Q
      BY <1>2, <1>3, <3>1
    <3>3. Rank(T, Q, d) < Rank(T, Q, e)
      BY <1>5, <3>1, <3>2
    <3>4. /\ Rank(S, R, e) \in Nat /\ Rank(T, Q, e) \in Nat /\ Rank(T, Q, d) \in Nat
          /\ Rank(T, Q, e) <= Rank(S, R, e) + 1
      BY <1>2, <1>3, <1>7, <3>1
    <3> QED
      BY <3>1, <3>3, <3>4
  <2> QED
    BY <2>2, <2>3
<1> QED
  BY <1>8, <1>9

LEMMA OneMore ==
    ASSUME NEW A, IsFiniteSet(A), NEW X, \A x, y \in X : x = y, NEW B, B \subseteq A \cup X
    PROVE  IsFiniteSet(B) /\ Cardinality(B) \in Nat /\ Cardinality(B) <= Cardinality(A) + 1
<1>1. Cardinality(A) \in Nat
  BY FS_CardinalityType
<1>2. CASE X = {}
  BY <1>1, <1>2, FS_Subset, FS_CardinalityType
<1>3. CASE X # {}
  <2>1. PICK x : x \in X
    BY <1>3
  <2>2. B \in SUBSET (A \cup {x})
    BY <2>1
  <2>3. IsFiniteSet(A \cup {x}) /\ Cardinality(A \cup {x}) = IF x \in A THEN Cardinality(A) ELSE Cardinality(A) + 1
    BY FS_AddElement
  <2>4. IsFiniteSet(B) /\ Cardinality(B) <= Cardinality(A \cup {x})
    BY <2>2, <2>3, FS_Subset
  <2>5. Cardinality(B) \in Nat
    BY <2>4, FS_CardinalityType
  <2> QED
    BY <1>1, <2>3, <2>4, <2>5
<1> QED
  BY <1>2, <1>3

Given(s) == {s[i] : i \in DOMAIN s}

LEMMA GivenFacts ==
    ASSUME NEW A, NEW s \in Seq(A)
    PROVE  /\ IsFiniteSet(Given(s)) /\ Cardinality(Given(s)) \in Nat /\ Given(s) \subseteq A
           /\ (\A i, j \in 1..Len(s) : s[i] = s[j] => i = j) => Cardinality(Given(s)) = Len(s)
<1>1. PICK n \in Nat : n = Len(s) /\ DOMAIN s = 1..n /\ s \in [1..n -> A]
  OBVIOUS
<1>2. Given(s) = {s[i] : i \in 1..n}
  BY <1>1 DEF Given
<1>3. IsFiniteSet(1..n) /\ Cardinality(1..n) = n
  <2>1. 1 \in Int /\ n \in Int /\ (IF 1 > n THEN 0 ELSE n - 1 + 1) = n
    OBVIOUS
  <2> QED
    BY <2>1, FS_Interval
<1>4. s \in Surjection(1..n, Given(s))
  BY <1>1, <1>2 DEF Surjection
<1>5. IsFiniteSet(Given(s)) /\ Cardinality(Given(s)) \in Nat
  BY <1>3, <1>4, FS_Surjection, FS_CardinalityType
<1>6. Given(s) \subseteq A
  BY <1>1, <1>2
<1>7. ASSUME \A i, j \in 1..n : s[i] = s[j] => i = j PROVE Cardinality(Given(s)) = n
  <2>1. s \in Bijection(1..n, Given(s))
    BY <1>1, <1>2, <1>4, <1>7 DEF Bijection, Injection, IsInjective, Surjection
  <2>2. ExistsBijection(1..n, Given(s))
    BY <2>1 DEF ExistsBijection
  <2> QED
    BY <1>3, <2>2, FS_Bijection
<1> QED
  BY <1>1, <1>5, <1>6, <1>7

LEMMA GivenConcat ==
    ASSUME NEW A, NEW s \in Seq(A), NEW x \in Seq(A)
    PROVE  s \o x \in Seq(A) /\ Len(s \o x) = Len(s) + Len(x) /\ Given(s \o x) = Given(s) \cup Given(x)
<1> DEFINE r == s \o x
<1>1. PICK m \in Nat : m = Len(s) /\ DOMAIN s = 1..m
  OBVIOUS
<1>2. PICK n \in Nat : n = Len(x) /\ DOMAIN x = 1..n
  OBVIOUS
<1>3. /\ r \in Seq(A) /\ Len(r) = m + n /\ DOMAIN r = 1..(m + n)
      /\ \A i \in 1..(m + n) : r[i] = IF i <= m THEN s[i] ELSE x[i - m]
  BY <1>1, <1>2, ConcatProperties
<1> HIDE DEF r
<1>4. ASSUME NEW i \in 1..(m + n) PROVE r[i] \in Given(s) \cup Given(x)
  <2>1. CASE i <= m
    <3>1. i \in 1..m
      BY <2>1
    <3> QED
      BY <1>1, <1>3, <2>1, <3>1 DEF Given
  <2>2. CASE ~(i <= m)
    <3>1. i - m \in 1..n
      BY <2>2
    <3> QED
      BY <1>2, <1>3, <2>2, <3>1 DEF Given
  <2> QED
    BY <2>1, <2>2
<1>5. ASSUME NEW i \in 1..m PROVE s[i] \in Given(r)
  <2>1. i \in 1..(m + n) /\ i <= m
    OBVIOUS
  <2> QED
    BY <1>3, <2>1 DEF Given
<1>6. ASSUME NEW i \in 1..n PROVE x[i] \in Given(r)
  <2>1. PICK j : j = i + m
    OBVIOUS
  <2>2. j \in 1..(m + n) /\ ~(j <= m) /\ j - m = i
    BY <2>1
  <2>3. r[j] = x[i]
    BY <1>3, <2>2
  <2> QED
    BY <1>3, <2>2, <2>3 DEF Given
<1>7. Given(r) = Given(s) \cup Given(x)
  <2>1. Given(r) \subseteq Given(s) \cup Given(x)
    BY <1>3, <1>4 DEF Given
  <2>2. Given(s) \subseteq Given(r) /\ Given(x) \subseteq Given(r)
    <3>1. \A e \in Given(s) : \E i \in 1..m : e = s[i]
      BY <1>1 DEF Given
    <3>2. \A e \in Given(x) : \E i \in 1..n : e = x[i]
      BY <1>2 DEF Given
    <3> QED
      BY <1>5, <1>6, <3>1, <3>2
  <2> QED
    BY <2>1, <2>2
<1> QED
  BY <1>1, <1>2, <1>3, <1>7 DEF r

FoundFields == {"score", "updated", "deleted"}

FoundRows(t) ==
    /\ DOMAIN t = FoundDocs
    /\ \A d \in FoundDocs : DOMAIN t[d] = FoundFields /\ t[d].score \in Int /\ t[d].updated \in Int

InOrder(t) == {p \in Matching(t) \X Matching(t) : RankedBefore(t, p[1], p[2])}

\* The matches before an offset.
Top(t, o) == TopOf(Matching(t), InOrder(t), o)

LEMMA MatchOrder ==
    ASSUME NEW t, FoundRows(t)
    PROVE  /\ IsFiniteSet(Matching(t)) /\ Matching(t) \subseteq FoundDocs
           /\ StrictOrder(Matching(t), InOrder(t))
           /\ \A d, e \in Matching(t) : <<d, e>> \in InOrder(t) <=> RankedBefore(t, d, e)
<1>1. Matching(t) \in SUBSET FoundDocs
  BY DEF Matching, FoundRows
<1>2. IsFiniteSet(Matching(t))
  BY <1>1, FoundDocsGiven, FS_Subset
<1>3. \A d, e \in Matching(t) : <<d, e>> \in InOrder(t) <=> RankedBefore(t, d, e)
  BY DEF InOrder
<1>4. \A d \in Matching(t) : d \in Int /\ t[d].updated \in Int /\ t[d].score \in Int
  BY <1>1, FoundDocsGiven DEF FoundRows
<1>5. \A d \in Matching(t) : ~RankedBefore(t, d, d)
  BY <1>4 DEF RankedBefore
<1>6. \A d, e \in Matching(t) : d # e => RankedBefore(t, d, e) \/ RankedBefore(t, e, d)
  BY <1>4 DEF RankedBefore
<1>7. \A d, e, f \in Matching(t) : RankedBefore(t, d, e) /\ RankedBefore(t, e, f) => RankedBefore(t, d, f)
  BY <1>4 DEF RankedBefore
<1>8. StrictOrder(Matching(t), InOrder(t))
  BY <1>3, <1>5, <1>6, <1>7 DEF StrictOrder
<1> QED
  BY <1>1, <1>2, <1>3, <1>8

\* The rows of a page: none is before the offset, and with them all before
\* the next offset, or all there are, are given.
LEMMA SearchPage ==
    ASSUME NEW t, FoundRows(t), NEW limit \in Nat \ {0}, NEW offset \in Nat
    PROVE  LET page == search_pg(t, limit, offset)
               P == Given(page.items)
           IN /\ page.items \in Seq(Matching(t)) /\ Len(page.items) = Cardinality(P)
              /\ P \cap Top(t, offset) = {}
              /\ \/ page.cursor = NoOffset /\ Matching(t) = Top(t, offset) \cup P
                 \/ page.cursor = offset + limit /\ Top(t, offset + limit) = Top(t, offset) \cup P
<1> DEFINE S == Matching(t)
           R == InOrder(t)
           o == Ranking(t)
           n == Cardinality(S)
<1>1. IsFiniteSet(S) /\ StrictOrder(S, R)
  BY MatchOrder
<1>2. o = Ordered(S, R)
  BY DEF Ranking, InOrder
<1> HIDE DEF o, S, R
<1>3. /\ o \in Seq(S) /\ Len(o) = n
      /\ \A i \in 1..n : Rank(S, R, o[i]) = i - 1
      /\ \A d \in S : Rank(S, R, d) + 1 \in 1..n /\ o[Rank(S, R, d) + 1] = d
  BY <1>1, <1>2, OrderedFacts
<1>4. n \in Nat
  BY <1>1, FS_CardinalityType
<1> HIDE DEF n
<1>5. \A i \in 1..n : o[i] \in S
  BY <1>3, ElementOfSeq
<1>6. \A d \in S : Rank(S, R, d) \in Nat /\ Rank(S, R, d) < n
  <2>1. \A d \in S : Rank(S, R, d) \in 0..(n - 1)
    BY <1>1, RankFacts DEF n
  <2> QED
    BY <1>4, <2>1
\* A stretch of the ranking.
<1>7. ASSUME NEW x \in Seq(S), NEW m \in Nat, Len(x) = m, m = 0 \/ offset + m <= n,
             \A i \in 1..m : x[i] = o[offset + i]
      PROVE  /\ Len(x) = Cardinality(Given(x))
             /\ Given(x) = {d \in S : offset <= Rank(S, R, d) /\ Rank(S, R, d) < offset + m}
  <2>1. \A i \in 1..m : offset + i \in 1..n
    BY <1>4, <1>7
  <2>2. \A i \in 1..m : x[i] \in S /\ Rank(S, R, x[i]) = (offset + i) - 1
    BY <1>3, <1>5, <1>7, <2>1
  <2>3. \A i, j \in 1..m : x[i] = x[j] => i = j
    <3>1. \A i, j \in 1..m : x[i] = x[j] => (offset + i) - 1 = (offset + j) - 1
      BY <2>2
    <3> QED
      BY <3>1
  <2>4. Cardinality(Given(x)) = Len(x)
    BY <1>7, <2>3, GivenFacts
  <2>5. DOMAIN x = 1..m
    BY <1>7
  <2>6. \A d \in Given(x) : d \in S /\ offset <= Rank(S, R, d) /\ Rank(S, R, d) < offset + m
    <3>1. \A i \in 1..m : offset <= (offset + i) - 1 /\ (offset + i) - 1 < offset + m
      OBVIOUS
    <3>2. \A i \in 1..m : x[i] \in S /\ offset <= Rank(S, R, x[i]) /\ Rank(S, R, x[i]) < offset + m
      BY <2>2, <3>1
    <3> QED
      BY <2>5, <3>2 DEF Given
  <2>7. ASSUME NEW d \in S, offset <= Rank(S, R, d), Rank(S, R, d) < offset + m PROVE d \in Given(x)
    <3>1. PICK i : i = (Rank(S, R, d) + 1) - offset
      OBVIOUS
    <3>2. i \in 1..m /\ offset + i = Rank(S, R, d) + 1
      BY <1>6, <2>7, <3>1
    <3>3. x[i] = d
      BY <1>3, <1>7, <3>2
    <3> QED
      BY <2>5, <3>2, <3>3 DEF Given
  <2> QED
    BY <2>4, <2>6, <2>7
<1>8. Top(t, offset) = {d \in S : Rank(S, R, d) < offset}
  BY DEF Top, TopOf, S, R
<1>9. Top(t, offset + limit) = {d \in S : Rank(S, R, d) < offset + limit}
  BY DEF Top, TopOf, S, R
<1> DEFINE page == search_pg(t, limit, offset)
           last == IF offset + limit + 1 < n THEN offset + limit + 1 ELSE n
           rows == SubSeq(o, offset + 1, last)
<1>10. page = search_paginate(rows, limit, offset)
  BY <1>3 DEF search_pg, o
<1> HIDE DEF page
<1>11. last \in Int /\ last <= n /\ offset + 1 \in Int
  BY <1>4
<1> HIDE DEF last
<1>12. \A i \in (offset + 1)..last : o[i] \in S
  BY <1>4, <1>5, <1>11
<1>13. /\ rows \in Seq(S)
       /\ Len(rows) = IF offset + 1 <= last THEN last - (offset + 1) + 1 ELSE 0
       /\ \A i \in 1 .. last - (offset + 1) + 1 : rows[i] = o[(offset + 1) + i - 1]
  BY <1>11, <1>12, SubSeqProperties
<1> HIDE DEF rows
<1>14. CASE offset + limit < n
  <2>1. last = offset + limit + 1
    BY <1>4, <1>14 DEF last
  <2>2. Len(rows) = limit + 1 /\ \A i \in 1..limit : rows[i] = o[offset + i] /\ rows[i] \in S
    <3>1. \A i \in 1..limit : i \in 1 .. last - (offset + 1) + 1 /\ (offset + 1) + i - 1 = offset + i /\ offset + i \in 1..n
      BY <1>4, <1>14, <2>1
    <3>2. offset + 1 <= last /\ last - (offset + 1) + 1 = limit + 1
      BY <2>1
    <3> QED
      BY <1>5, <1>13, <3>1, <3>2
  <2>3. PICK x : x = SubSeq(rows, 1, limit)
    OBVIOUS
  <2>4. x \in Seq(S) /\ Len(x) = limit /\ \A i \in 1..limit : x[i] = rows[i]
    <3>1. 1 \in Int /\ limit \in Int /\ 1 <= limit /\ limit - 1 + 1 = limit /\ \A i \in 1..limit : 1 + i - 1 = i
      OBVIOUS
    <3> QED
      BY <2>2, <2>3, <3>1, SubSeqProperties
  <2>5. page = [items |-> x, cursor |-> offset + limit]
    <3>1. limit + 1 > limit
      OBVIOUS
    <3> QED
      BY <1>10, <2>2, <2>3, <3>1 DEF search_paginate
  <2>6. page.items = x /\ page.cursor = offset + limit
    BY <2>5
  <2>7. limit \in Nat /\ offset + limit <= n /\ \A i \in 1..limit : x[i] = o[offset + i]
    BY <1>4, <1>14, <2>2, <2>4
  <2>8. /\ Len(x) = Cardinality(Given(x))
        /\ Given(x) = {d \in S : offset <= Rank(S, R, d) /\ Rank(S, R, d) < offset + limit}
    BY <1>7, <2>4, <2>7
  <2>9. Given(x) \cap Top(t, offset) = {}
    BY <1>6, <1>8, <2>8
  <2>10. Top(t, offset + limit) = Top(t, offset) \cup Given(x)
    <3>1. \A d \in S : Rank(S, R, d) < offset + limit <=> Rank(S, R, d) < offset \/ (offset <= Rank(S, R, d) /\ Rank(S, R, d) < offset + limit)
      BY <1>6
    <3> QED
      BY <1>8, <1>9, <2>8, <3>1
  <2> QED
    BY <2>4, <2>6, <2>8, <2>9, <2>10 DEF page, S
<1>15. CASE ~(offset + limit < n)
  <2>1. last = n
    BY <1>4, <1>15 DEF last
  <2>2. PICK m : m = IF offset + 1 <= n THEN n - offset ELSE 0
    OBVIOUS
  <2>3. m \in Nat /\ m <= limit /\ (m = 0 \/ offset + m <= n)
    BY <1>4, <1>15, <2>2
  <2>4. Len(rows) = m
    BY <1>4, <1>13, <2>1, <2>2
  <2>5. \A i \in 1..m : rows[i] = o[offset + i]
    <3>1. \A i \in 1..m : i \in 1 .. last - (offset + 1) + 1 /\ (offset + 1) + i - 1 = offset + i
      BY <1>4, <2>1, <2>2, <2>3
    <3> QED
      BY <1>13, <3>1
  <2>6. page = [items |-> rows, cursor |-> NoOffset]
    <3>1. ~(m > limit)
      BY <2>3
    <3> QED
      BY <1>10, <2>4, <3>1 DEF search_paginate
  <2>7. page.items = rows /\ page.cursor = NoOffset
    BY <2>6
  <2>8. /\ Len(rows) = Cardinality(Given(rows))
        /\ Given(rows) = {d \in S : offset <= Rank(S, R, d) /\ Rank(S, R, d) < offset + m}
    BY <1>7, <1>13, <2>3, <2>4, <2>5
  <2>9. Given(rows) \cap Top(t, offset) = {}
    BY <1>6, <1>8, <2>8
  <2>10. S = Top(t, offset) \cup Given(rows)
    <3>1. \A d \in S : Rank(S, R, d) < offset \/ (offset <= Rank(S, R, d) /\ Rank(S, R, d) < offset + m)
      BY <1>4, <1>6, <2>2
    <3> QED
      BY <1>8, <2>8, <3>1
  <2> QED
    BY <1>13, <2>7, <2>8, <2>9, <2>10 DEF page, S
<1> QED
  BY <1>14, <1>15

\* How many of the matches before the offset, other than those written, were
\* not given; and how often one was given again or is to be.
Walking(t, o, s, W, k) ==
    /\ Cardinality((Top(t, o) \ W) \ Given(s)) <= k
    /\ Len(s) - Cardinality(Given(s)) + Cardinality(Given(s) \cap (Matching(t) \ Top(t, o))) <= k

Walked(t, s, W, k) ==
    /\ Cardinality((Matching(t) \ W) \ Given(s)) <= k
    /\ Len(s) - Cardinality(Given(s)) <= k

\* A page moves documents from what is to be given to what was.
LEMMA WalkingPage ==
    ASSUME NEW T, IsFiniteSet(T), NEW B, IsFiniteSet(B), T \cap B = {}, NEW P \in SUBSET B, NEW W,
           NEW s \in Seq(FoundDocs), NEW x \in Seq(FoundDocs), P = Given(x), Len(x) = Cardinality(P), NEW k \in Nat,
           Cardinality((T \ W) \ Given(s)) <= k,
           Len(s) - Cardinality(Given(s)) + Cardinality(Given(s) \cap B) <= k
    PROVE  /\ Cardinality(((T \cup P) \ W) \ Given(s \o x)) <= k
           /\ Len(s \o x) - Cardinality(Given(s \o x)) + Cardinality(Given(s \o x) \cap (B \ P)) <= k
           /\ Len(s \o x) - Cardinality(Given(s \o x)) <= k
<1> DEFINE G == Given(s)
           H == Given(s \o x)
<1>1. Len(s \o x) = Len(s) + Len(x) /\ H = G \cup P
  BY GivenConcat
<1>2. IsFiniteSet(G) /\ Cardinality(G) \in Nat /\ IsFiniteSet(P) /\ Cardinality(P) \in Nat /\ Len(s) \in Nat
  BY GivenFacts
<1> HIDE DEF G, H
<1>3. ((T \cup P) \ W) \ H \in SUBSET ((T \ W) \ G)
  BY <1>1
<1>4. IsFiniteSet((T \ W) \ G) /\ Cardinality((T \ W) \ G) \in Nat
  <2>1. (T \ W) \ G \in SUBSET T
    OBVIOUS
  <2> QED
    BY <2>1, FS_Subset, FS_CardinalityType
<1>5. Cardinality(((T \cup P) \ W) \ H) <= k
  <2>1. /\ IsFiniteSet(((T \cup P) \ W) \ H)
        /\ Cardinality(((T \cup P) \ W) \ H) <= Cardinality((T \ W) \ G)
    BY <1>3, <1>4, FS_Subset
  <2>2. Cardinality(((T \cup P) \ W) \ H) \in Nat
    BY <2>1, FS_CardinalityType
  <2>3. Cardinality((T \ W) \ G) <= k
    BY DEF G
  <2> QED
    BY <1>4, <2>1, <2>2, <2>3
<1>6. /\ IsFiniteSet(H) /\ Cardinality(H) = Cardinality(G) + Cardinality(P) - Cardinality(G \cap P)
      /\ IsFiniteSet(G \cap P) /\ Cardinality(G \cap P) \in Nat
  BY <1>1, <1>2, FS_Union, FS_Intersection, FS_CardinalityType
<1>7. /\ IsFiniteSet(G \cap B) /\ IsFiniteSet(G \cap (B \ P))
      /\ Cardinality(G \cap B) \in Nat /\ Cardinality(G \cap (B \ P)) \in Nat
  BY <1>2, FS_Intersection, FS_CardinalityType
<1>8. Cardinality(G \cap B) = Cardinality(G \cap P) + Cardinality(G \cap (B \ P))
  <2>1. (G \cap P) \cup (G \cap (B \ P)) = G \cap B /\ (G \cap P) \cap (G \cap (B \ P)) = {}
    OBVIOUS
  <2>2. Cardinality({}) = 0
    BY FS_EmptySet
  <2>3. Cardinality((G \cap P) \cup (G \cap (B \ P)))
          = Cardinality(G \cap P) + Cardinality(G \cap (B \ P)) - Cardinality((G \cap P) \cap (G \cap (B \ P)))
    BY <1>6, <1>7, FS_Union
  <2>4. Cardinality(G \cap B) = Cardinality(G \cap P) + Cardinality(G \cap (B \ P)) - 0
    BY <2>1, <2>2, <2>3
  <2> QED
    BY <1>6, <1>7, <2>4
<1>9. H \cap (B \ P) = G \cap (B \ P)
  BY <1>1
<1>10. Len(s) - Cardinality(G) + Cardinality(G \cap B) <= k
  BY DEF G
<1>11. PICK h, g, p, gp, gb, gr, m : /\ h = Cardinality(H) /\ g = Cardinality(G) /\ p = Cardinality(P)
                                     /\ gp = Cardinality(G \cap P) /\ gb = Cardinality(G \cap B)
                                     /\ gr = Cardinality(G \cap (B \ P)) /\ m = Len(s)
  OBVIOUS
<1>12. /\ g \in Nat /\ p \in Nat /\ gp \in Nat /\ gb \in Nat /\ gr \in Nat /\ m \in Nat
       /\ h = g + p - gp /\ gb = gp + gr /\ m - g + gb <= k
  BY <1>2, <1>6, <1>7, <1>8, <1>10, <1>11
<1>13. (m + p) - h + gr <= k /\ (m + p) - h <= k
  BY <1>12
<1>14. Len(s \o x) = m + p /\ Cardinality(H \cap (B \ P)) = gr
  BY <1>1, <1>9, <1>11
<1> QED
  BY <1>5, <1>11, <1>13, <1>14 DEF H

SearchInv ==
    /\ FoundRows(found) /\ searchTick \in Nat
    /\ DOMAIN walk = {"offset", "seen", "state", "limit", "st"}
    /\ walk.offset \in Nat /\ walk.seen \in Seq(FoundDocs) /\ walk.limit \in SearchLimits
    /\ walk.state \in {"walking", "done"}
    /\ walk.state = "walking" => Walking(found, walk.offset, walk.seen, searchWrites, searchTick)
    /\ walk.state = "done" => Walked(found, walk.seen, searchWrites, searchTick)

LEMMA SearchInitInv == SearchInit => SearchInv
<1> SUFFICES ASSUME SearchInit PROVE SearchInv
  OBVIOUS
<1>1. FoundRows(found)
  <2>1. found \in [FoundDocs -> [score : Scores, updated : {0}, deleted : {FALSE}]]
    BY DEF SearchInit
  <2>2. DOMAIN found = FoundDocs /\ \A d \in FoundDocs : found[d] \in [score : Scores, updated : {0}, deleted : {FALSE}]
    BY <2>1
  <2>3. \A x \in [score : Scores, updated : {0}, deleted : {FALSE}] :
          DOMAIN x = FoundFields /\ x.score \in Scores /\ x.updated = 0
    BY DEF FoundFields
  <2>4. \A c \in Scores : c \in Int
    BY ScoresGiven
  <2>5. \A d \in FoundDocs : DOMAIN found[d] = FoundFields /\ found[d].score \in Scores /\ found[d].updated = 0
    BY <2>2, <2>3
  <2> QED
    BY <2>2, <2>4, <2>5 DEF FoundRows
<1>2. PICK limit \in SearchLimits :
        walk = [offset |-> 0, seen |-> <<>>, state |-> "walking", limit |-> limit, st |-> "none"]
  BY DEF SearchInit
<1>3. /\ DOMAIN walk = {"offset", "seen", "state", "limit", "st"}
      /\ walk.offset = 0 /\ walk.seen = <<>> /\ walk.limit \in SearchLimits /\ walk.state = "walking"
  BY <1>2
<1>4. searchTick = 0
  BY DEF SearchInit
<1>5. PICK t : t = found
  OBVIOUS
<1>6. Walking(t, 0, <<>>, searchWrites, 0)
  <2>1. IsFiniteSet(Matching(t)) /\ StrictOrder(Matching(t), InOrder(t))
    BY <1>1, <1>5, MatchOrder
  <2>2. Cardinality(Matching(t)) \in Nat
    BY <2>1, FS_CardinalityType
  <2>3. \A d \in Matching(t) : Rank(Matching(t), InOrder(t), d) \in 0..(Cardinality(Matching(t)) - 1)
    BY <2>1, RankFacts
  <2>4. \A d \in Matching(t) : ~(Rank(Matching(t), InOrder(t), d) < 0)
    BY <2>2, <2>3
  <2>5. Top(t, 0) = {}
    BY <2>4 DEF Top, TopOf
  <2>6. Given(<<>>) = {} /\ Len(<<>>) = 0
    BY DEF Given
  <2>7. Cardinality({}) = 0
    BY FS_EmptySet
  <2>8. (Top(t, 0) \ searchWrites) \ Given(<<>>) = {} /\ Given(<<>>) \cap (Matching(t) \ Top(t, 0)) = {}
    BY <2>5, <2>6
  <2>9. /\ Cardinality((Top(t, 0) \ searchWrites) \ Given(<<>>)) = 0
        /\ Cardinality(Given(<<>>) \cap (Matching(t) \ Top(t, 0))) = 0 /\ Cardinality(Given(<<>>)) = 0
    BY <2>6, <2>7, <2>8
  <2> QED
    BY <2>6, <2>9 DEF Walking
<1>7. <<>> \in Seq(FoundDocs)
  OBVIOUS
<1> QED
  BY <1>1, <1>3, <1>4, <1>5, <1>6, <1>7 DEF SearchInv

LEMMA SearchPageInv ==
    ASSUME SearchInv, NEW q, NEW cursor, search_documents(q, cursor)
    PROVE  SearchInv'
<1>1. UNCHANGED <<found, searchWrites, searchTick>> /\ walk.state = "walking"
  BY DEF search_documents
<1>2. PICK t, o, s, W, k, limit, w : /\ t = found /\ o = walk.offset /\ s = walk.seen /\ W = searchWrites /\ k = searchTick
                                     /\ limit = normalize_limit(walk.limit) /\ w = walk
  OBVIOUS
<1>3. FoundRows(t) /\ o \in Nat /\ s \in Seq(FoundDocs) /\ k \in Nat /\ Walking(t, o, s, W, k)
  BY <1>1, <1>2 DEF SearchInv
<1>4. limit \in Nat \ {0}
  BY <1>2, SearchLimitsGiven DEF SearchInv, normalize_limit, DefaultPage, MaxPage
<1>5. PICK page : page = search_pg(t, limit, o)
  OBVIOUS
<1>6. \/ \E st : walk' = [w EXCEPT !.st = st]
      \/ walk' = [w EXCEPT !.st = "ok", !.seen = @ \o page.items,
                           !.offset = IF page.cursor = NoOffset THEN @ ELSE page.cursor,
                           !.state = IF page.cursor = NoOffset THEN "done" ELSE "walking"]
  BY <1>2, <1>5 DEF search_documents
<1>7. CASE \E st : walk' = [w EXCEPT !.st = st]
  <2>1. /\ walk'.offset = walk.offset /\ walk'.seen = walk.seen /\ walk'.limit = walk.limit
        /\ walk'.state = walk.state /\ DOMAIN walk' = DOMAIN walk
    BY <1>2, <1>7 DEF SearchInv
  <2> QED
    BY <1>1, <2>1 DEF SearchInv
<1>8. CASE walk' = [w EXCEPT !.st = "ok", !.seen = @ \o page.items,
                             !.offset = IF page.cursor = NoOffset THEN @ ELSE page.cursor,
                             !.state = IF page.cursor = NoOffset THEN "done" ELSE "walking"]
  <2>1. PICK x, c : x = page.items /\ c = page.cursor
    OBVIOUS
  <2>2. /\ DOMAIN walk' = DOMAIN walk /\ walk'.seen = s \o x /\ walk'.limit = walk.limit
        /\ walk'.offset = IF c = NoOffset THEN o ELSE c
        /\ walk'.state = IF c = NoOffset THEN "done" ELSE "walking"
    BY <1>2, <1>8, <2>1 DEF SearchInv
  <2>3. /\ x \in Seq(Matching(t)) /\ Len(x) = Cardinality(Given(x)) /\ Given(x) \cap Top(t, o) = {}
        /\ \/ c = NoOffset /\ Matching(t) = Top(t, o) \cup Given(x)
           \/ c = o + limit /\ Top(t, o + limit) = Top(t, o) \cup Given(x)
    BY <1>3, <1>4, <1>5, <2>1, SearchPage
  <2>4. IsFiniteSet(Matching(t)) /\ Matching(t) \subseteq FoundDocs
    BY <1>3, MatchOrder
  <2>5. x \in Seq(FoundDocs)
    BY <2>3, <2>4, SeqMonotonic
  <2>6. s \o x \in Seq(FoundDocs)
    BY <1>3, <2>5, ConcatProperties
  <2>7. PICK T, B, P : T = Top(t, o) /\ B = Matching(t) \ Top(t, o) /\ P = Given(x)
    OBVIOUS
  <2>8. T \subseteq Matching(t) /\ P \subseteq Matching(t)
    <3>1. Given(x) \subseteq Matching(t)
      BY <2>3, GivenFacts
    <3> QED
      BY <2>7, <3>1 DEF Top, TopOf
  <2>9. /\ IsFiniteSet(T) /\ IsFiniteSet(B) /\ T \cap B = {} /\ P \in SUBSET B
    BY <2>3, <2>4, <2>7, <2>8, FS_Subset
  <2>10. /\ Cardinality((T \ W) \ Given(s)) <= k
         /\ Len(s) - Cardinality(Given(s)) + Cardinality(Given(s) \cap B) <= k
    BY <1>3, <2>7 DEF Walking
  <2>11. /\ Cardinality(((T \cup P) \ W) \ Given(s \o x)) <= k
         /\ Len(s \o x) - Cardinality(Given(s \o x)) + Cardinality(Given(s \o x) \cap (B \ P)) <= k
         /\ Len(s \o x) - Cardinality(Given(s \o x)) <= k
    BY <1>3, <2>3, <2>5, <2>7, <2>9, <2>10, WalkingPage
  <2>12. CASE c = NoOffset /\ Matching(t) = Top(t, o) \cup Given(x)
    <3>1. Walked(t, s \o x, W, k)
      BY <2>7, <2>11, <2>12 DEF Walked
    <3> QED
      BY <1>1, <1>2, <1>3, <2>2, <2>6, <2>12, <3>1 DEF SearchInv
  <2>13. CASE c = o + limit /\ Top(t, o + limit) = Top(t, o) \cup Given(x)
    <3>1. c # NoOffset /\ c \in Nat
      BY <1>3, <1>4, <2>13 DEF NoOffset
    <3>2. B \ P = Matching(t) \ Top(t, c)
      BY <2>7, <2>13
    <3>3. Walking(t, c, s \o x, W, k)
      BY <2>7, <2>11, <2>13, <3>2 DEF Walking
    <3> QED
      BY <1>1, <1>2, <1>3, <2>2, <2>6, <3>1, <3>3 DEF SearchInv
  <2> QED
    BY <2>3, <2>12, <2>13
<1> QED
  BY <1>6, <1>7, <1>8

\* A write, of whatever kind, changes one document.
LEMMA WrittenMoves ==
    ASSUME NEW t, FoundRows(t), NEW r, FoundRows(r), NEW d, \A e \in FoundDocs : e # d => r[e] = t[e],
           NEW o \in Nat, NEW s \in Seq(FoundDocs), NEW W, NEW k \in Nat
    PROVE  /\ Walking(t, o, s, W, k) => Walking(r, o, s, W \cup {d}, k + 1)
           /\ Walked(t, s, W, k) => Walked(r, s, W \cup {d}, k + 1)
<1> DEFINE S == Matching(t)
           T == Matching(r)
           R == InOrder(t)
           Q == InOrder(r)
           G == Given(s)
<1>1. IsFiniteSet(S) /\ S \subseteq FoundDocs /\ StrictOrder(S, R)
  BY MatchOrder
<1>2. IsFiniteSet(T) /\ T \subseteq FoundDocs /\ StrictOrder(T, Q)
  BY MatchOrder
<1>3. S \ {d} = T \ {d}
  BY DEF Matching, FoundRows
<1>4. \A e, f \in S \ {d} : <<e, f>> \in R <=> <<e, f>> \in Q
  <2>1. \A e, f \in S : <<e, f>> \in R <=> RankedBefore(t, e, f)
    BY MatchOrder
  <2>2. \A e, f \in T : <<e, f>> \in Q <=> RankedBefore(r, e, f)
    BY MatchOrder
  <2>3. \A e \in S \ {d} : e \in T /\ r[e] = t[e]
    BY <1>1, <1>3
  <2> HIDE DEF S, T, R, Q
  <2>4. \A e, f \in S \ {d} : RankedBefore(t, e, f) <=> RankedBefore(r, e, f)
    BY <2>3 DEF RankedBefore
  <2> QED
    BY <2>1, <2>2, <2>3, <2>4
<1>5. MovedOne(S, R, T, Q, d)
  BY <1>3, <1>4 DEF MovedOne
<1> DEFINE A == TopOf(S, R, o)
           B == TopOf(T, Q, o)
<1>6. Top(t, o) = A /\ Top(r, o) = B
  BY DEF Top
<1>7. A \subseteq S /\ B \subseteq T
  BY DEF TopOf
<1>8. o \in Int
  OBVIOUS
<1> HIDE DEF S, T, R, Q
<1>9. /\ \A x, y \in (B \ {d}) \ A : x = y
      /\ \A x, y \in (T \ B) \ (S \ A) : x = y
  BY <1>1, <1>2, <1>5, <1>8, TopMoves
<1> HIDE DEF A, B
<1>10. IsFiniteSet(G) /\ Cardinality(G) \in Nat /\ Len(s) \in Nat
  BY GivenFacts
<1> HIDE DEF G
<1>11. ASSUME Walking(t, o, s, W, k) PROVE Walking(r, o, s, W \cup {d}, k + 1)
  <2>1. /\ Cardinality((A \ W) \ G) <= k
        /\ Len(s) - Cardinality(G) + Cardinality(G \cap (S \ A)) <= k
    BY <1>6, <1>11 DEF Walking, G, S
  <2>2. /\ IsFiniteSet((A \ W) \ G) /\ Cardinality((A \ W) \ G) \in Nat
        /\ IsFiniteSet(G \cap (S \ A)) /\ Cardinality(G \cap (S \ A)) \in Nat
    <3>1. (A \ W) \ G \in SUBSET S /\ G \cap (S \ A) \in SUBSET S
      BY <1>7
    <3> QED
      BY <1>1, <3>1, FS_Subset, FS_CardinalityType
  <2>3. PICK X, Y, V, Z : /\ X = (B \ {d}) \ A /\ Y = (T \ B) \ (S \ A)
                          /\ V = (B \ (W \cup {d})) \ G /\ Z = G \cap (T \ B)
    OBVIOUS
  <2>4. V \subseteq ((A \ W) \ G) \cup X /\ Z \subseteq (G \cap (S \ A)) \cup Y
    BY <2>3
  <2>a. (\A x, y \in X : x = y) /\ (\A x, y \in Y : x = y)
    BY <1>9, <2>3
  <2>b. PICK C, D : C = (A \ W) \ G /\ D = G \cap (S \ A)
    OBVIOUS
  <2>c. IsFiniteSet(C) /\ V \subseteq C \cup X /\ IsFiniteSet(D) /\ Z \subseteq D \cup Y
    BY <2>2, <2>4, <2>b
  <2>5. Cardinality(V) \in Nat /\ Cardinality(V) <= Cardinality((A \ W) \ G) + 1
    <3>1. Cardinality(V) \in Nat /\ Cardinality(V) <= Cardinality(C) + 1
      BY <2>a, <2>c, OneMore
    <3> QED
      BY <2>b, <3>1
  <2>6. Cardinality(Z) \in Nat /\ Cardinality(Z) <= Cardinality(G \cap (S \ A)) + 1
    <3>1. Cardinality(Z) \in Nat /\ Cardinality(Z) <= Cardinality(D) + 1
      BY <2>a, <2>c, OneMore
    <3> QED
      BY <2>b, <3>1
  <2>7. Cardinality(V) <= k + 1
    BY <2>1, <2>2, <2>5
  <2>8. Len(s) - Cardinality(G) + Cardinality(Z) <= k + 1
    BY <1>10, <2>1, <2>2, <2>6
  <2> QED
    BY <1>6, <2>3, <2>7, <2>8 DEF Walking, G, T
<1>12. ASSUME Walked(t, s, W, k) PROVE Walked(r, s, W \cup {d}, k + 1)
  <2>1. Cardinality((S \ W) \ G) <= k /\ Len(s) - Cardinality(G) <= k
    BY <1>12 DEF Walked, G, S
  <2>2. IsFiniteSet((S \ W) \ G) /\ Cardinality((S \ W) \ G) \in Nat
    <3>1. (S \ W) \ G \in SUBSET S
      OBVIOUS
    <3> QED
      BY <1>1, <3>1, FS_Subset, FS_CardinalityType
  <2>3. PICK V : V = (T \ (W \cup {d})) \ G
    OBVIOUS
  <2>4. V \in SUBSET ((S \ W) \ G)
    BY <1>3, <2>3
  <2>5. IsFiniteSet(V) /\ Cardinality(V) <= Cardinality((S \ W) \ G)
    BY <2>2, <2>4, FS_Subset
  <2>6. Cardinality(V) \in Nat
    BY <2>5, FS_CardinalityType
  <2>7. Cardinality(V) <= k + 1 /\ Len(s) - Cardinality(G) <= k + 1
    BY <1>10, <2>1, <2>2, <2>5, <2>6
  <2> QED
    BY <2>3, <2>7 DEF Walked, G, T
<1> QED
  BY <1>11, <1>12

LEMMA SearchWriteInv ==
    ASSUME SearchInv, NEW d \in FoundDocs, write_document(d)
    PROVE  SearchInv'
<1>1. /\ walk' = walk /\ searchTick' = searchTick + 1 /\ searchWrites' = searchWrites \cup {d}
  BY DEF write_document
<1>2. PICK t, r, o, s, W, k : /\ t = found /\ r = found' /\ o = walk.offset /\ s = walk.seen
                              /\ W = searchWrites /\ k = searchTick
  OBVIOUS
<1>3. FoundRows(t) /\ k \in Nat /\ o \in Nat /\ s \in Seq(FoundDocs)
  BY <1>2 DEF SearchInv
<1>4. \/ \E c \in Scores : r = [t EXCEPT ![d].score = c, ![d].updated = k + 1]
      \/ r = [t EXCEPT ![d].deleted = TRUE]
  BY <1>2 DEF write_document
<1>5. FoundRows(r) /\ \A e \in FoundDocs : e # d => r[e] = t[e]
  <2>1. ASSUME NEW c \in Scores, r = [t EXCEPT ![d].score = c, ![d].updated = k + 1]
        PROVE  FoundRows(r) /\ \A e \in FoundDocs : e # d => r[e] = t[e]
    <3>1. PICK row : row = [t[d] EXCEPT !.score = c, !.updated = k + 1]
      OBVIOUS
    <3>2. DOMAIN row = FoundFields /\ row.score = c /\ row.updated = k + 1
      BY <1>3, <3>1 DEF FoundRows, FoundFields
    <3>3. DOMAIN r = FoundDocs /\ \A e \in FoundDocs : r[e] = IF e = d THEN row ELSE t[e]
      BY <1>3, <2>1, <3>1 DEF FoundRows
    <3>4. c \in Int /\ k + 1 \in Int
      BY <1>3, ScoresGiven
    <3> QED
      BY <1>3, <3>2, <3>3, <3>4 DEF FoundRows
  <2>2. ASSUME r = [t EXCEPT ![d].deleted = TRUE]
        PROVE  FoundRows(r) /\ \A e \in FoundDocs : e # d => r[e] = t[e]
    <3>1. PICK row : row = [t[d] EXCEPT !.deleted = TRUE]
      OBVIOUS
    <3>2. DOMAIN row = FoundFields /\ row.score = t[d].score /\ row.updated = t[d].updated
      BY <1>3, <3>1 DEF FoundRows, FoundFields
    <3>3. DOMAIN r = FoundDocs /\ \A e \in FoundDocs : r[e] = IF e = d THEN row ELSE t[e]
      BY <1>3, <2>2, <3>1 DEF FoundRows
    <3> QED
      BY <1>3, <3>2, <3>3 DEF FoundRows
  <2> QED
    BY <1>4, <2>1, <2>2
<1>6. /\ Walking(t, o, s, W, k) => Walking(r, o, s, W \cup {d}, k + 1)
      /\ Walked(t, s, W, k) => Walked(r, s, W \cup {d}, k + 1)
  BY <1>3, <1>5, WrittenMoves
<1>7. k + 1 \in Nat
  BY <1>3
<1> QED
  BY <1>1, <1>2, <1>3, <1>5, <1>6, <1>7 DEF SearchInv

LEMMA SearchNextInv == SearchInv /\ [SearchNext]_searchVars => SearchInv'
<1> SUFFICES ASSUME SearchInv, [SearchNext]_searchVars PROVE SearchInv'
  OBVIOUS
<1>1. CASE UNCHANGED <<found, walk, searchWrites, searchTick>>
  BY <1>1 DEF SearchInv
<1>2. CASE SearchRoleChange \/ UNCHANGED searchVars
  BY <1>1, <1>2 DEF SearchRoleChange, searchVars
<1> QED
  BY <1>2, SearchPageInv, SearchWriteInv DEF SearchNext

LEMMA SearchWalkHolds == SearchInv => SearchWalkComplete
BY DEF SearchInv, Walked, Given, SearchWalkComplete

\* Reading a list page by page gives what was there all along, for any
\* tables, page sizes and writes in between: of documents exactly once, of
\* search results up to as many as were written meanwhile (list_pg,
\* search_pg).
THEOREM WalksCompleteHolds == RestSpec => []WalksComplete
<1> DEFINE Inv == DocWalkInv /\ SearchInv
<1>1. RestInit => Inv
  BY DocWalkInitInv, SearchInitInv DEF RestInit
<1>2. Inv /\ [RestNext]_<<part, contentVars, accessVars>> => Inv'
  <2> SUFFICES ASSUME Inv, [RestNext]_<<part, contentVars, accessVars>> PROVE Inv'
    OBVIOUS
  <2>1. [DocsNext]_docVars /\ [SearchNext]_searchVars
    BY DEF RestNext, contentVars
  <2> QED
    BY <2>1, DocWalkNextInv, SearchNextInv
<1>3. Inv => WalksComplete
  BY DocWalkHolds, SearchWalkHolds DEF WalksComplete
<1> QED
  BY <1>1, <1>2, <1>3, PTL DEF RestSpec

-----------------------------------------------------------------------------
(* Two stores.  Sorting and then keeping some rows gives the same list as  *)
(* sorting those rows.                                                     *)

\* Rows in one-to-one correspondence are equally many.
LEMMA SameNumber ==
    ASSUME NEW A, IsFiniteSet(A), NEW B, NEW s,
           \A i \in A : s[i] \in B, \A i, j \in A : s[i] = s[j] => i = j, \A d \in B : \E i \in A : s[i] = d
    PROVE  IsFiniteSet(B) /\ Cardinality(B) = Cardinality(A)
<1> DEFINE f == [i \in A |-> s[i]]
<1>1. f \in [A -> B] /\ \A i \in A : f[i] = s[i]
  OBVIOUS
<1> HIDE DEF f
<1>2. f \in Injection(A, B) /\ f \in Surjection(A, B)
  BY <1>1 DEF Injection, IsInjective, Surjection
<1>3. ExistsBijection(A, B)
  BY <1>2 DEF ExistsBijection, Bijection
<1> QED
  BY <1>3, FS_Bijection

LEMMA RetainOrdered ==
    ASSUME NEW S, IsFiniteSet(S), NEW R, StrictOrder(S, R), NEW K,
           NEW T, T = S \cap K, NEW Q, \A d, e \in T : <<d, e>> \in Q <=> <<d, e>> \in R
    PROVE  Retain(Ordered(S, R), K) = Ordered(T, Q)
<1> DEFINE s == Ordered(S, R)
           n == Cardinality(S)
           kept == {i \in DOMAIN s : s[i] \in K}
           B == {p \in kept \X kept : p[1] < p[2]}
           order == Ordered(kept, B)
           m == Cardinality(kept)
<1>1. n \in Nat
  BY FS_CardinalityType
<1>2. /\ s \in Seq(S) /\ Len(s) = n /\ \A i \in 1..n : Rank(S, R, s[i]) = i - 1
      /\ \A d \in S : Rank(S, R, d) + 1 \in 1..n /\ s[Rank(S, R, d) + 1] = d
  BY OrderedFacts
<1>3. DOMAIN s = 1..n /\ \A i \in 1..n : s[i] \in S
  BY <1>1, <1>2
<1>4. \A i, j \in 1..n : s[i] = s[j] => i = j
  BY <1>1, <1>2
<1>5. \A d, e \in S : <<d, e>> \in R <=> Rank(S, R, d) < Rank(S, R, e)
  BY RankFacts
<1>6. \A i, j \in 1..n : <<s[i], s[j]>> \in R <=> i < j
  <2> HIDE DEF s, n
  <2>1. SUFFICES ASSUME NEW i \in 1..n, NEW j \in 1..n PROVE <<s[i], s[j]>> \in R <=> i < j
    OBVIOUS
  <2>2. s[i] \in S /\ s[j] \in S /\ Rank(S, R, s[i]) = i - 1 /\ Rank(S, R, s[j]) = j - 1
    BY <1>2, <1>3
  <2>3. i \in Int /\ j \in Int /\ (i - 1 < j - 1 <=> i < j)
    BY <1>1
  <2> QED
    BY <1>5, <2>2, <2>3
<1> HIDE DEF s, n
<1>7. kept \in SUBSET (1..n) /\ \A i \in kept : i \in 1..n /\ i \in Int /\ s[i] \in T
  BY <1>1, <1>3
<1>8. \A i \in 1..n : s[i] \in T => i \in kept
  BY <1>3
<1> HIDE DEF kept
<1>9. IsFiniteSet(kept) /\ m \in Nat
  <2>1. 1 \in Int /\ n \in Int
    BY <1>1
  <2>2. IsFiniteSet(1..n)
    BY <2>1, FS_Interval
  <2> QED
    BY <1>7, <2>2, FS_Subset, FS_CardinalityType
<1>10. \A i, j \in kept : <<i, j>> \in B <=> i < j
  OBVIOUS
<1> HIDE DEF B
<1>11. StrictOrder(kept, B)
  BY <1>7, <1>10 DEF StrictOrder
<1>12. \A d \in T : \E i \in kept : s[i] = d
  BY <1>2, <1>8
<1>13. \A i, j \in kept : s[i] = s[j] => i = j
  BY <1>4, <1>7
<1>14. IsFiniteSet(T) /\ Cardinality(T) = m
  BY <1>7, <1>9, <1>12, <1>13, SameNumber
<1>15. StrictOrder(T, Q)
  <2>1. \A d \in T : d \in S
    OBVIOUS
  <2> QED
    BY <2>1 DEF StrictOrder
<1>16. /\ order \in Seq(kept) /\ Len(order) = m /\ \A j \in 1..m : Rank(kept, B, order[j]) = j - 1
  BY <1>9, <1>11, OrderedFacts
<1>17. \A d \in T : Ordered(T, Q)[Rank(T, Q, d) + 1] = d
  BY <1>14, <1>15, OrderedFacts
<1> HIDE DEF order, m
<1>18. ASSUME NEW j \in 1..m PROVE s[order[j]] = Ordered(T, Q)[j]
  <2>1. PICK i : i = order[j]
    OBVIOUS
  <2>2. i \in kept
    BY <1>9, <1>16, <2>1
  <2>3. PICK d : d = s[i]
    OBVIOUS
  <2>4. d \in T /\ i \in 1..n
    BY <1>7, <2>2, <2>3
  <2> DEFINE A == BelowIn(kept, B, i)
             C == BelowIn(T, Q, d)
  <2>5. A = {h \in kept : h < i}
    BY <1>10, <2>2 DEF BelowIn
  <2>6. \A h \in kept : h < i <=> <<s[h], d>> \in Q
    BY <1>6, <1>7, <2>3, <2>4
  <2>7. C = {e \in T : <<e, d>> \in Q}
    BY DEF BelowIn
  <2>8. IsFiniteSet(A)
    <3>1. A \in SUBSET kept
      BY <2>5
    <3> QED
      BY <1>9, <3>1, FS_Subset
  <2> HIDE DEF A, C
  <2>9. \A h \in A : s[h] \in C
    BY <1>7, <2>5, <2>6, <2>7
  <2>10. \A e \in C : \E h \in A : s[h] = e
    BY <1>12, <2>5, <2>6, <2>7
  <2>11. \A h, k \in A : s[h] = s[k] => h = k
    BY <1>13, <2>5
  <2>12. Cardinality(C) = Cardinality(A)
    BY <2>8, <2>9, <2>10, <2>11, SameNumber
  <2>13. Rank(T, Q, d) = j - 1
    BY <1>16, <2>1, <2>12 DEF Rank, A, C
  <2>14. (j - 1) + 1 = j
    BY <1>9
  <2> QED
    BY <1>17, <2>1, <2>3, <2>4, <2>13, <2>14
<1>19. Retain(s, K) = [j \in 1..m |-> s[order[j]]]
  BY DEF Retain, order, m, kept, B
<1>20. Ordered(T, Q) = [j \in 1..m |-> Ordered(T, Q)[j]]
  <2>1. Ordered(T, Q) \in Seq(T) /\ Len(Ordered(T, Q)) = m
    BY <1>14, <1>15, OrderedFacts
  <2>2. PICK o : o = Ordered(T, Q)
    OBVIOUS
  <2>3. o \in Seq(T) /\ Len(o) = m /\ DOMAIN o = 1..m
    BY <2>1, <2>2
  <2>4. o = [j \in 1..m |-> o[j]]
    BY <2>3
  <2> QED
    BY <2>2, <2>4
<1>21. Retain(s, K) = Ordered(T, Q)
  <2>1. PICK o : o = Ordered(T, Q)
    OBVIOUS
  <2>2. o = [j \in 1..m |-> o[j]] /\ \A j \in 1..m : s[order[j]] = o[j]
    BY <1>18, <1>20, <2>1
  <2> QED
    BY <1>19, <2>1, <2>2
<1> QED
  BY <1>21 DEF s

-----------------------------------------------------------------------------
(* Two stores of documents *)

\* A function is what it maps.
IsMap(f) == f = [x \in DOMAIN f |-> f[x]]

\* The tables the statements leave behind are functions.
LEMMA MapsWritten ==
    ASSUME NEW t, IsMap(t), NEW ws, NEW d, NEW x, NEW y, NEW z, NEW now
    PROVE  /\ IsMap(create_pg(t, d, ws, x, now).t)
           /\ IsMap(update_pg(t, ws, d, x, y, z, now).t)
           /\ IsMap(delete_pg(t, x, ws, d, y, now).t)
           /\ IsMap(update_tags_pg(t, ws, d, x, y, now).t)
<1>1. \A st, r : Answer(st, r).t = r
  BY DEF Answer
<1>2. \A row : IsMap(Insert(t, d, row))
  BY DEF IsMap, Insert
<1>3. IsMap([e \in DOMAIN t \ {d} |-> t[e]])
  BY DEF IsMap
<1>4. \A row : IsMap([t EXCEPT ![d] = row])
  BY DEF IsMap
<1>5. IsMap(create_pg(t, d, ws, x, now).t)
  BY <1>1, <1>2 DEF create_pg
<1>6. IsMap(update_pg(t, ws, d, x, y, z, now).t)
  <2> DEFINE norm == IF x = "none" THEN t[d].norm ELSE normalize_doc_path(x)
             at == CASE y = "true" /\ z = 0 -> now [] y = "false" /\ z # 0 -> 0 [] OTHER -> t[d].archived
  <2>1. update_pg(t, ws, d, x, y, z, now) =
           IF ~DocLive(t, ws, d) THEN Answer("not_found", t)
           ELSE IF PathTaken(t, ws, d, norm) THEN Answer("conflict", t)
           ELSE Answer("ok", [t EXCEPT ![d].norm = norm, ![d].archived = at, ![d].etag = now, ![d].updated = now])
    BY DEF update_pg
  <2> HIDE DEF norm, at
  <2>2. [t EXCEPT ![d].norm = norm, ![d].archived = at, ![d].etag = now, ![d].updated = now]
          = [t EXCEPT ![d] = [t[d] EXCEPT !.norm = norm, !.archived = at, !.etag = now, !.updated = now]]
    OBVIOUS
  <2> QED
    BY <1>1, <1>4, <2>1, <2>2
<1>7. IsMap(delete_pg(t, x, ws, d, y, now).t)
  <2>1. [t EXCEPT ![d].deleted = now] = [t EXCEPT ![d] = [t[d] EXCEPT !.deleted = now]]
    OBVIOUS
  <2> QED
    BY <1>1, <1>3, <1>4, <2>1 DEF delete_pg
<1>8. IsMap(update_tags_pg(t, ws, d, x, y, now).t)
  <2>1. CASE ~DocLive(t, ws, d)
    BY <1>1, <2>1 DEF update_tags_pg
  <2>2. CASE DocLive(t, ws, d)
    <3>1. PICK tags : tags = IF x = "add" THEN t[d].tags \cup y ELSE t[d].tags \ y
      OBVIOUS
    <3>2. PICK row : row = [t[d] EXCEPT !.tags = tags, !.etag = now, !.updated = now]
      OBVIOUS
    <3>3. d \in DOMAIN t
      BY <2>2 DEF DocLive
    <3>4. update_tags_pg(t, ws, d, x, y, now) = Answer("ok", [t EXCEPT ![d] = row])
      BY <2>2, <3>1, <3>2, <3>3 DEF update_tags_pg
    <3> QED
      BY <1>1, <1>4, <3>4
  <2> QED
    BY <2>1, <2>2
<1> QED
  BY <1>5, <1>6, <1>7, <1>8

LEMMA DocsMap == IsMap(docs) /\ [DocsNext]_docVars => IsMap(docs)'
<1> SUFFICES ASSUME IsMap(docs), [DocsNext]_docVars PROVE IsMap(docs)'
  OBVIOUS
<1>1. CASE UNCHANGED docs
  BY <1>1 DEF IsMap
<1>2. ASSUME NEW u \in DocUsers, NEW r, NEW next, Write(u, r, next), IsMap(r.t) PROVE IsMap(docs)'
  BY <1>2 DEF Write, IsMap
<1>3. ASSUME NEW u \in DocUsers, DocsStep(u) PROVE IsMap(docs)'
  <2>1. CASE create_document(u)
    BY <1>2, <2>1, MapsWritten DEF create_document
  <2>2. CASE create_document_tags(u) \/ update_document_tags(u)
    BY <1>2, <2>2, MapsWritten DEF create_document_tags, update_document_tags
  <2>3. CASE update_document(u)
    BY <1>2, <2>3, MapsWritten DEF update_document
  <2>4. CASE delete_document(u)
    BY <1>2, <2>4, MapsWritten DEF delete_document
  <2> QED
    BY <1>1, <1>3, <2>1, <2>2, <2>3, <2>4
       DEF DocsStep, doc_require_workspace_role, doc_require_document_role, get_document, list_documents,
           doc_check_etag, create_acl_override_find, create_acl_override, delete_acl_override, WriteAcl,
           try_record_document_audit_event
<1> QED
  BY <1>1, <1>3 DEF DocsNext, DocBegin, DocRoleChange, docVars

\* Of an update both make the same row, but for the time of archiving.
LEMMA UpdatesAgree ==
    ASSUME NEW t, DocRows(t), NEW ws, NEW d, NEW m, NEW path, NEW archived \in {"none", "true", "false"}, NEW now
    PROVE  LET c == check_etag_pg(t, ws, d, m)
               pg == IF c # "ok" THEN Answer(c, t) ELSE update_pg(t, ws, d, path, archived, t[d].archived, now)
               mem == update_mem(t, ws, d, m, path, archived, now)
           IN  \/ pg = mem
               \/ pg.st = "conflict" /\ mem.st = "ok"
               \/ /\ archived = "true" /\ t[d].archived # 0
                  /\ pg.t = [mem.t EXCEPT ![d].archived = t[d].archived]
<1> DEFINE c == check_etag_pg(t, ws, d, m)
           pg == IF c # "ok" THEN Answer(c, t) ELSE update_pg(t, ws, d, path, archived, t[d].archived, now)
           mem == update_mem(t, ws, d, m, path, archived, now)
<1> SUFFICES \/ pg = mem
             \/ pg.st = "conflict" /\ mem.st = "ok"
             \/ archived = "true" /\ t[d].archived # 0 /\ pg.t = [mem.t EXCEPT ![d].archived = t[d].archived]
  OBVIOUS
<1>1. CASE ~DocLive(t, ws, d)
  <2>1. c = "not_found" /\ pg = Answer("not_found", t)
    BY <1>1 DEF check_etag_pg
  <2>2. mem = Answer("not_found", t)
    BY <1>1 DEF update_mem
  <2> QED
    BY <2>1, <2>2
<1>2. CASE DocLive(t, ws, d) /\ ~etag_matches(m, t[d].etag)
  <2>1. c = "precondition_failed" /\ pg = Answer("precondition_failed", t)
    BY <1>2 DEF check_etag_pg
  <2>2. mem = Answer("precondition_failed", t)
    BY <1>2 DEF update_mem
  <2> QED
    BY <2>1, <2>2
<1>3. CASE DocLive(t, ws, d) /\ etag_matches(m, t[d].etag)
  <2>1. PICK norm : norm = IF path = "none" THEN t[d].norm ELSE normalize_doc_path(path)
    OBVIOUS
  <2>2. PICK at : at = CASE archived = "true" /\ t[d].archived = 0 -> now
                         [] archived = "false" /\ t[d].archived # 0 -> 0
                         [] OTHER -> t[d].archived
    OBVIOUS
  <2>3. PICK now2 : now2 = CASE archived = "true" -> now [] archived = "false" -> 0 [] OTHER -> t[d].archived
    OBVIOUS
  <2>4. c = "ok"
    BY <1>3 DEF check_etag_pg
  <2>5. pg = IF PathTaken(t, ws, d, norm) THEN Answer("conflict", t)
             ELSE Answer("ok", [t EXCEPT ![d].norm = norm, ![d].archived = at, ![d].etag = now, ![d].updated = now])
    BY <1>3, <2>1, <2>2, <2>4 DEF update_pg
  <2>6. mem = Answer("ok", [t EXCEPT ![d].norm = norm, ![d].archived = now2, ![d].etag = now, ![d].updated = now])
    BY <1>3, <2>1, <2>3 DEF update_mem
  <2> HIDE DEF pg, mem, c
  <2>7. CASE PathTaken(t, ws, d, norm)
    BY <2>5, <2>6, <2>7 DEF Answer
  <2>8. CASE ~PathTaken(t, ws, d, norm) /\ at = now2
    BY <2>5, <2>6, <2>8
  <2>9. CASE ~PathTaken(t, ws, d, norm) /\ at # now2
    <3>1. archived = "true" /\ t[d].archived # 0 /\ at = t[d].archived
      <4>1. CASE archived = "true"
        BY <2>2, <2>3, <2>9, <4>1
      <4>2. CASE archived = "false"
        BY <2>2, <2>3, <2>9, <4>2
      <4>3. CASE archived = "none"
        BY <2>2, <2>3, <2>9, <4>3
      <4> QED
        BY <4>1, <4>2, <4>3
    <3>2. PICK row : row = t[d]
      OBVIOUS
    <3>3. d \in DOMAIN t /\ DOMAIN row = RowFields
      BY <1>3, <3>2 DEF DocLive, DocRows
    <3>4. PICK a, b : /\ a = [row EXCEPT !.norm = norm, !.archived = at, !.etag = now, !.updated = now]
                      /\ b = [row EXCEPT !.norm = norm, !.archived = now2, !.etag = now, !.updated = now]
      OBVIOUS
    <3>5. a = [b EXCEPT !.archived = at]
      BY <3>3, <3>4 DEF RowFields
    <3>6. pg.t = [t EXCEPT ![d] = a] /\ mem.t = [t EXCEPT ![d] = b]
      BY <2>5, <2>6, <2>9, <3>2, <3>3, <3>4 DEF Answer
    <3>7. [[t EXCEPT ![d] = b] EXCEPT ![d].archived = at] = [t EXCEPT ![d] = a]
      BY <3>3, <3>5
    <3> QED
      BY <3>1, <3>6, <3>7
  <2> QED
    BY <2>7, <2>8, <2>9
<1> QED
  BY <1>1, <1>2, <1>3

LEMMA DocStoresHold == DocWalkInv /\ IsMap(docs) => DocStoresAgree
<1> SUFFICES ASSUME DocWalkInv, IsMap(docs) PROVE DocStoresAgree
  OBVIOUS
<1> DEFINE now == docTick + 1
<1>0. DocRows(docs)
  BY DEF DocWalkInv
<1>1. ASSUME NEW ws, NEW prefix, NEW archived
      PROVE  list_mem(docs, ws, prefix, archived, normalize_limit(1))
               = list_pg(docs, ws, prefix, archived, normalize_limit(1), NoCursor).items
  <2> DEFINE F == {d \in DOMAIN docs : doc_visible(docs[d], ws, prefix, archived)}
             G == {d \in DOMAIN docs :
                    /\ doc_visible(docs[d], ws, prefix, archived)
                    /\ NoCursor # NoCursor =>
                        \/ docs[d].updated < NoCursor[1].updated
                        \/ docs[d].updated = NoCursor[1].updated /\ d < NoCursor[1].id}
             page(S) == paginate(DocsInOrder(docs, S), normalize_limit(1))
  <2>1. G = F
    OBVIOUS
  <2>2. list_mem(docs, ws, prefix, archived, normalize_limit(1)) = page(F).items
    BY DEF list_mem
  <2>3. list_pg(docs, ws, prefix, archived, normalize_limit(1), NoCursor).items = page(G).items
    BY DEF list_pg
  <2> HIDE DEF F, G, page
  <2> QED
    BY <2>1, <2>2, <2>3
<1>2. ASSUME NEW u \in DocUsers, \E v \in DocUsers : docRoles[v] # "none"
      PROVE  workspace_role_for_user_mem(docRoles, u) = workspace_role_for_user_pg(docRoles, u)
  BY <1>2 DEF workspace_role_for_user_mem, workspace_role_for_user_pg
<1>3. ASSUME NEW ws, NEW d, NEW path, d \notin DOMAIN docs
      PROVE  create_mem(docs, d, ws, path, now) = create_pg(docs, d, ws, path, now)
  <2>1. PathTaken(docs, ws, d, normalize_doc_path(path)) <=>
          \E e \in DOMAIN docs : /\ docs[e].ws = ws /\ docs[e].norm = normalize_doc_path(path)
                                 /\ docs[e].deleted = 0
    BY <1>3 DEF PathTaken, DocLive
  <2> QED
    BY <2>1 DEF create_mem, create_pg
<1>4. ASSUME NEW ws, NEW d, NEW hard \in BOOLEAN
      PROVE  \/ delete_mem(docs, ws, d, hard, now) = delete_pg(docs, acls, ws, d, hard, now)
             \/ hard /\ d \in DOMAIN docs /\ (docs[d].ws # ws \/ DocReferenced(docs, acls, d))
  <2>1. d \notin DOMAIN docs => [e \in DOMAIN docs \ {d} |-> docs[e]] = docs
    <3>1. d \notin DOMAIN docs => DOMAIN docs \ {d} = DOMAIN docs
      OBVIOUS
    <3> QED
      BY <3>1 DEF IsMap
  <2>2. CASE hard
    BY <2>1, <2>2 DEF delete_mem, delete_pg
  <2>3. CASE ~hard
    BY <2>3 DEF delete_mem, delete_pg
  <2> QED
    BY <2>2, <2>3
<1>5. \A ws, d : get_mem(docs, ws, d) = get_pg(docs, ws, d)
  BY DEF get_mem, get_pg
<1>6. \A ws, d, op, tags :
        update_tags_mem(docs, ws, d, op, tags, now) = update_tags_pg(docs, ws, d, op, tags, now)
  BY DEF update_tags_mem, update_tags_pg
<1>7. \A ws, d, i : delete_acl_override_mem(acls, ws, d, i) = delete_acl_override_pg(acls, ws, d, i)
  BY DEF delete_acl_override_mem, delete_acl_override_pg
<1>8. \A ws, d, i, c : DocLive(docs, ws, d) =>
        create_acl_override_mem(docs, acls, i, ws, d, c, now) = create_acl_override_pg(docs, acls, i, ws, d, c, now)
  BY DEF create_acl_override_mem, create_acl_override_pg, DocLive
<1>9. \A u, ws, d : acl_override_role_for_user_mem(acls, u, ws, d, docTick)
                      = acl_override_role_for_user_pg(acls, u, ws, d, docTick)
  BY DEF acl_override_role_for_user_mem, acl_override_role_for_user_pg
<1> DEFINE Changed(ws, d, m, path, archived) ==
             LET c == check_etag_pg(docs, ws, d, m)
                 pg == IF c # "ok" THEN Answer(c, docs)
                       ELSE update_pg(docs, ws, d, path, archived, docs[d].archived, now)
                 mem == update_mem(docs, ws, d, m, path, archived, now)
             IN  \/ pg = mem
                 \/ pg.st = "conflict" /\ mem.st = "ok"
                 \/ /\ archived = "true" /\ docs[d].archived # 0
                    /\ pg.t = [mem.t EXCEPT ![d].archived = docs[d].archived]
<1>10. ASSUME NEW ws, NEW d, NEW m, NEW path, NEW archived \in {"none", "true", "false"}
       PROVE  Changed(ws, d, m, path, archived)
  BY <1>0, UpdatesAgree
<1>11. \A ws \in {"w1", "w2"}, prefix \in {"none", "a"}, archived \in {"none", "true", "false"} :
         list_mem(docs, ws, prefix, archived, normalize_limit(1))
           = list_pg(docs, ws, prefix, archived, normalize_limit(1), NoCursor).items
  BY <1>1
<1>12. \A u \in DocUsers :
         (\E v \in DocUsers : docRoles[v] # "none") =>
            workspace_role_for_user_mem(docRoles, u) = workspace_role_for_user_pg(docRoles, u)
  BY <1>2
<1> DEFINE Agree(ws, d) ==
             /\ get_mem(docs, ws, d) = get_pg(docs, ws, d)
             /\ \A path \in {"A", "a/b"} : d \notin DOMAIN docs =>
                  create_mem(docs, d, ws, path, now) = create_pg(docs, d, ws, path, now)
             /\ \A m \in {0, docTick}, path \in {"none", "A", "a/b"}, archived \in {"none", "true", "false"} :
                  Changed(ws, d, m, path, archived)
             /\ \A hard \in BOOLEAN :
                  \/ delete_mem(docs, ws, d, hard, now) = delete_pg(docs, acls, ws, d, hard, now)
                  \/ hard /\ d \in DOMAIN docs /\ (docs[d].ws # ws \/ DocReferenced(docs, acls, d))
             /\ \A op \in {"add", "remove"}, tags \in {{"t"}} :
                  update_tags_mem(docs, ws, d, op, tags, now) = update_tags_pg(docs, ws, d, op, tags, now)
             /\ \A i \in AclIds :
                  delete_acl_override_mem(acls, ws, d, i) = delete_acl_override_pg(acls, ws, d, i)
             /\ DocLive(docs, ws, d) => \A i \in AclIds \ DOMAIN acls :
                  LET c == [kind |-> "user", user |-> CHOOSE u \in DocUsers : TRUE,
                            role |-> "viewer", expires |-> 0]
                  IN  create_acl_override_mem(docs, acls, i, ws, d, c, now)
                        = create_acl_override_pg(docs, acls, i, ws, d, c, now)
             /\ \A u \in DocUsers :
                  acl_override_role_for_user_mem(acls, u, ws, d, docTick)
                    = acl_override_role_for_user_pg(acls, u, ws, d, docTick)
<1>13. ASSUME NEW ws, NEW d PROVE Agree(ws, d)
  <2> HIDE DEF Changed, now
  <2>1. \A m \in {0, docTick}, path \in {"none", "A", "a/b"}, archived \in {"none", "true", "false"} :
          Changed(ws, d, m, path, archived)
    BY <1>10
  <2> QED
    BY <1>3, <1>4, <1>5, <1>6, <1>7, <1>8, <1>9, <2>1
<1>14. \A ws \in {"w1", "w2"}, d \in DocIds : Agree(ws, d)
  <2> HIDE DEF Agree
  <2> QED
    BY <1>13
<1> QED
  BY <1>11, <1>12, <1>14, Zenon DEF DocStoresAgree

-----------------------------------------------------------------------------
(* Two stores of comments and of share links, and two ways to cut a page   *)

\* The version's parity gives the status, so what Postgres explains by the
\* row it reads afterwards is never "internal".
LEMMA ComStoresHold == ComInv => ComStoresAgree
<1> SUFFICES ASSUME ComInv PROVE ComStoresAgree
  OBVIOUS
<1>1. \A i \in DOMAIN threads : threads[i].status \in {"open", "resolved"}
  BY DEF ComInv, ComVersionOnce
<1>2. \A ws, i : get_thread_with_messages_mem(threads, ws, i) = get_thread_with_messages_pg(threads, ws, i)
  BY DEF get_thread_with_messages_mem, get_thread_with_messages_pg, InThread
<1> DEFINE n == comCount.msgs + 1
<1>3. ASSUME NEW ws, NEW i
      PROVE  LET msg == create_message_pg(threads, messages, ws, i, n)
             IN  create_message_mem(threads, messages, ws, i, n) =
                   IF msg.st = "ok" THEN msg
                   ELSE Result(create_message_status_pg(threads, ws, i), msg.t, msg.m)
  <2> DEFINE msg == create_message_pg(threads, messages, ws, i, n)
             mem == create_message_mem(threads, messages, ws, i, n)
  <2> SUFFICES mem = IF msg.st = "ok" THEN msg
                     ELSE Result(create_message_status_pg(threads, ws, i), msg.t, msg.m)
    OBVIOUS
  <2>1. CASE InThread(threads, ws, i) /\ threads[i].status = "open"
    <3>1. msg = Result("ok", threads, [messages EXCEPT ![i] = Append(@, n)]) /\ mem = msg
      BY <2>1 DEF create_message_pg, create_message_mem, InThread
    <3>2. msg.st = "ok"
      BY <3>1 DEF Result
    <3> QED
      BY <3>1, <3>2
  <2>2. CASE ~(InThread(threads, ws, i) /\ threads[i].status = "open")
    <3>1. msg = Result("no_row", threads, messages)
      BY <2>2 DEF create_message_pg
    <3>2. msg.st # "ok" /\ msg.t = threads /\ msg.m = messages
      BY <3>1 DEF Result
    <3>3. mem = Result(create_message_status_pg(threads, ws, i), threads, messages)
      BY <1>1, <2>2 DEF create_message_mem, create_message_status_pg, InThread
    <3> QED
      BY <3>2, <3>3
  <2> QED
    BY <2>1, <2>2
<1>4. ASSUME NEW ws, NEW i, NEW version, NEW next
      PROVE  LET set == set_thread_status_pg(threads, messages, ws, i, version, next)
             IN  set_thread_status_mem(threads, messages, ws, i, version, next) =
                   IF set.st = "ok" THEN set
                   ELSE Result(set_thread_status_metadata_pg(threads, ws, i, version, next), set.t, set.m)
  <2> DEFINE set == set_thread_status_pg(threads, messages, ws, i, version, next)
             mem == set_thread_status_mem(threads, messages, ws, i, version, next)
             may == /\ InThread(threads, ws, i) /\ threads[i].version = version
                    /\ threads[i].status = required_current_status(next)
  <2> SUFFICES mem = IF set.st = "ok" THEN set
                     ELSE Result(set_thread_status_metadata_pg(threads, ws, i, version, next), set.t, set.m)
    OBVIOUS
  <2>1. CASE may
    <3>1. set = Result("ok", [threads EXCEPT ![i].status = next, ![i].version = @ + 1], messages) /\ mem = set
      BY <2>1 DEF set_thread_status_pg, set_thread_status_mem, InThread
    <3>2. set.st = "ok"
      BY <3>1 DEF Result
    <3> QED
      BY <3>1, <3>2
  <2>2. CASE ~may
    <3>1. set = Result("no_row", threads, messages)
      BY <2>2 DEF set_thread_status_pg
    <3>2. set.st # "ok" /\ set.t = threads /\ set.m = messages
      BY <3>1 DEF Result
    <3>3. mem = Result(set_thread_status_metadata_pg(threads, ws, i, version, next), threads, messages)
      BY <2>2 DEF set_thread_status_mem, set_thread_status_metadata_pg, InThread
    <3> QED
      BY <3>2, <3>3
  <2> QED
    BY <2>1, <2>2
<1>5. \A i, ws, d : create_thread_mem(threads, messages, i, ws, d, n) = create_thread_pg(threads, messages, i, ws, d, n)
  BY DEF create_thread_mem, create_thread_pg
<1>6. ASSUME NEW ws, NEW d, NEW filter, NEW limit
      PROVE  list_threads_mem(threads, ws, d, filter, limit) = list_threads_pg(threads, ws, d, filter, limit, NoCursor)
  <2> DEFINE F == {i \in DOMAIN threads : /\ threads[i].ws = ws /\ threads[i].doc = d
                                          /\ filter \in {"none", threads[i].status}}
             G == {i \in DOMAIN threads : /\ threads[i].ws = ws /\ threads[i].doc = d
                                          /\ filter \in {"none", threads[i].status}
                                          /\ NoCursor # NoCursor => i < NoCursor[1]}
             page(S) == paginate(ThreadsInOrder(S), limit)
  <2>1. G = F
    OBVIOUS
  <2>2. list_threads_mem(threads, ws, d, filter, limit) = page(F)
    BY DEF list_threads_mem
  <2>3. list_threads_pg(threads, ws, d, filter, limit, NoCursor) = page(G)
    BY DEF list_threads_pg
  <2> HIDE DEF F, G, page
  <2> QED
    BY <2>1, <2>2, <2>3
<1> DEFINE SayAgree(ws, i) ==
             LET msg == create_message_pg(threads, messages, ws, i, n)
             IN  create_message_mem(threads, messages, ws, i, n) =
                   IF msg.st = "ok" THEN msg
                   ELSE Result(create_message_status_pg(threads, ws, i), msg.t, msg.m)
           SetAgree(ws, i, version, next) ==
             LET set == set_thread_status_pg(threads, messages, ws, i, version, next)
             IN  set_thread_status_mem(threads, messages, ws, i, version, next) =
                   IF set.st = "ok" THEN set
                   ELSE Result(set_thread_status_metadata_pg(threads, ws, i, version, next),
                               set.t, set.m)
           ListAgree(ws, d, filter, limit) ==
             list_threads_mem(threads, ws, d, filter, normalize_limit(limit))
               = list_threads_pg(threads, ws, d, filter, normalize_limit(limit), NoCursor)
           NewAgree(ws, i, d) ==
             create_thread_mem(threads, messages, i, ws, d, n)
               = create_thread_pg(threads, messages, i, ws, d, n)
           GetAgree(ws, i) == get_thread_with_messages_mem(threads, ws, i) = get_thread_with_messages_pg(threads, ws, i)
<1>7. \A ws, i : SayAgree(ws, i)
  BY <1>3
<1>8. \A ws, i, version, next : SetAgree(ws, i, version, next)
  BY <1>4
<1>9. \A ws, d, filter, limit : ListAgree(ws, d, filter, limit)
  BY <1>6
<1>10. \A ws, i : GetAgree(ws, i)
  BY <1>2
<1>11. \A ws, i, d : NewAgree(ws, i, d)
  BY <1>5
<1>12. \A ws \in {"w1", "w2"}, i \in ComThreads :
         /\ GetAgree(ws, i)
         /\ SayAgree(ws, i)
         /\ \A version \in 1 .. ComMaxCalls, next \in {"open", "resolved"} : SetAgree(ws, i, version, next)
         /\ \A d \in ComDocs :
              /\ i \notin DOMAIN threads => NewAgree(ws, i, d)
              /\ \A filter \in {"none", "open", "resolved"}, limit \in 0 .. 2 : ListAgree(ws, d, filter, limit)
  <2> HIDE DEF GetAgree, SayAgree, SetAgree, NewAgree, ListAgree
  <2> QED
    BY <1>7, <1>8, <1>9, <1>10, <1>11, Zenon
<1> QED
  BY <1>12, Zenon DEF ComStoresAgree

LEMMA ShStoresHold == ShStoresAgree
<1>1. list_share_links_memory(links, 1) = list_share_links_pg(links, 1)
  BY DEF list_share_links_memory, list_share_links_pg
<1>2. \A i : /\ find_share_link_by_token_hash_memory(links, i) = find_share_link_by_token_hash_pg(links, i)
             /\ increment_share_link_use_count_memory(links, i) = increment_share_link_use_count_pg(links, i)
  BY DEF find_share_link_by_token_hash_memory, find_share_link_by_token_hash_pg,
         increment_share_link_use_count_memory, increment_share_link_use_count_pg
<1>3. \A i, c : c.ws = 1 => create_share_link_memory(links, i, c) = create_share_link_pg(links, i, c)
  BY DEF create_share_link_memory, create_share_link_pg
<1>4. ASSUME NEW i, NEW tag, NEW c
      PROVE  update_share_link_memory(links, 1, i, tag, c) =
               LET st == check_link_etag_pg(links, 1, i, tag)
               IN  IF st # "ok" THEN Found(st, links) ELSE update_share_link_pg(links, 1, i, c, links[i])
  <2>1. CASE ~share_link_record_by_id_pg(links, 1, i)
    BY <2>1 DEF update_share_link_memory, check_link_etag_pg, share_link_record_by_id_pg
  <2>2. CASE share_link_record_by_id_pg(links, 1, i) /\ ~link_etag_matches(tag, links[i])
    BY <2>2 DEF update_share_link_memory, check_link_etag_pg, share_link_record_by_id_pg
  <2>3. CASE share_link_record_by_id_pg(links, 1, i) /\ link_etag_matches(tag, links[i])
    <3>1. check_link_etag_pg(links, 1, i, tag) = "ok"
      BY <2>3 DEF check_link_etag_pg
    <3>2. PICK p, e, m, x : /\ p = IF c.perm = "keep" THEN links[i].perm ELSE c.perm
                            /\ e = OrElse(c.expires, links[i].expires) /\ m = OrElse(c.max, links[i].max)
                            /\ x = IF c.disabled = "keep" THEN links[i].disabled ELSE c.disabled = "true"
      OBVIOUS
    <3>3. PICK t : t = [links EXCEPT ![i].perm = p, ![i].expires = e, ![i].max = m, ![i].disabled = x]
      OBVIOUS
    <3>4. update_share_link_pg(links, 1, i, c, links[i]) = Found("ok", t)
      BY <2>3, <3>2, <3>3 DEF update_share_link_pg
    <3>5. update_share_link_memory(links, 1, i, tag, c) = Found("ok", t)
      BY <2>3, <3>2, <3>3 DEF update_share_link_memory, share_link_record_by_id_pg
    <3> QED
      BY <3>1, <3>4, <3>5
  <2> QED
    BY <2>1, <2>2, <2>3
<1>5. ASSUME NEW i, NEW tag
      PROVE  revoke_share_link_memory(links, 1, i, tag) =
               LET st == check_link_etag_pg(links, 1, i, tag)
               IN  IF st # "ok" THEN Found(st, links) ELSE revoke_share_link_pg(links, 1, i)
  BY DEF revoke_share_link_memory, revoke_share_link_pg, check_link_etag_pg, share_link_record_by_id_pg
<1> QED
  BY <1>1, <1>2, <1>3, <1>4, <1>5, Zenon DEF ShStoresAgree

\* LIMIT and OFFSET cut what the function cuts.
LEMMA SearchStoresHold == SearchInv => SearchStoresAgree
<1> SUFFICES ASSUME SearchInv, NEW want \in SearchLimits, NEW offset \in 0..Cardinality(FoundDocs) + 1
             PROVE  search_pg(found, normalize_limit(want), offset) = search_mem(found, normalize_limit(want), offset)
  BY DEF SearchStoresAgree
<1> DEFINE S == Matching(found)
           o == Ranking(found)
           n == Len(o)
<1>1. IsFiniteSet(S) /\ StrictOrder(S, InOrder(found))
  BY MatchOrder DEF SearchInv
<1>2. o \in Seq(S) /\ n \in Nat
  BY <1>1, OrderedFacts, FS_CardinalityType DEF Ranking, InOrder
<1>3. PICK limit : limit = normalize_limit(want)
  OBVIOUS
<1>4. limit \in Nat \ {0}
  BY <1>3, SearchLimitsGiven DEF normalize_limit, DefaultPage, MaxPage
<1>5. offset \in Nat
  BY FoundDocsGiven, FS_CardinalityType
<1> HIDE DEF n, o, S
<1> DEFINE last == IF offset + limit + 1 < n THEN offset + limit + 1 ELSE n
           rows == SubSeq(o, offset + 1, last)
           rest == SubSeq(o, offset + 1, n)
<1>6. search_pg(found, limit, offset) = search_paginate(rows, limit, offset)
  BY DEF search_pg, o, n
<1>7. search_mem(found, limit, offset)
        = IF offset >= n THEN [items |-> <<>>, cursor |-> NoOffset]
          ELSE IF Len(rest) > limit THEN [items |-> SubSeq(rest, 1, limit), cursor |-> offset + limit]
          ELSE [items |-> rest, cursor |-> NoOffset]
  BY DEF search_mem, paginate_with_offset, o, n
<1>8. \A j \in 1..n : o[j] \in S
  BY <1>2 DEF n
<1>9. CASE offset >= n
  <2>1. last = n /\ offset + 1 > n
    BY <1>2, <1>4, <1>5, <1>9
  <2>2. rows = <<>>
    BY <1>2, <1>5, <2>1
  <2>3. search_paginate(rows, limit, offset) = [items |-> <<>>, cursor |-> NoOffset]
    <3>1. search_paginate(rows, limit, offset) = search_paginate(<<>>, limit, offset)
      BY <2>2
    <3>2. ~(Len(<<>>) > limit)
      BY <1>4
    <3> QED
      BY <3>1, <3>2 DEF search_paginate
  <2> QED
    BY <1>3, <1>6, <1>7, <1>9, <2>3
<1>10. CASE offset < n /\ ~(offset + limit < n)
  <2>1. last = n
    BY <1>2, <1>4, <1>5, <1>10
  <2>2. rows = rest /\ Len(rest) = n - offset
    BY <1>2, <1>5, <1>8, <1>10, <2>1
  <2>3. ~(Len(rest) > limit) /\ ~(offset >= n)
    BY <1>2, <1>4, <1>5, <1>10, <2>2
  <2>4. search_paginate(rows, limit, offset) = [items |-> rest, cursor |-> NoOffset]
    BY <2>2, <2>3 DEF search_paginate
  <2> QED
    BY <1>3, <1>6, <1>7, <2>3, <2>4
<1>11. CASE offset + limit < n
  <2>1. last = IF offset + limit + 1 < n THEN offset + limit + 1 ELSE n
    OBVIOUS
  <2>2. last = offset + limit + 1 /\ offset + 1 <= last /\ last <= n
    BY <1>2, <1>4, <1>5, <1>11
  <2>3. ~(offset >= n) /\ n - offset > limit /\ limit + 1 > limit /\ 1 <= limit
    BY <1>2, <1>4, <1>5, <1>11
  <2> HIDE DEF last
  <2>4. PICK a, b : a = rows /\ b = rest
    OBVIOUS
  <2>5. a \in Seq(S) /\ Len(a) = limit + 1 /\ \A i \in 1..limit : a[i] = o[offset + i]
    <3>1. \A j \in offset + 1..last : o[j] \in S
      BY <1>2, <1>5, <1>8, <2>2
    <3>2. last - (offset + 1) + 1 = limit + 1
      BY <1>4, <1>5, <2>2
    <3>3. \A i \in 1..limit : i \in 1..last - (offset + 1) + 1 /\ (offset + 1) + i - 1 = offset + i
      BY <1>4, <1>5, <2>2
    <3> QED
      BY <1>2, <1>5, <2>2, <2>4, <3>1, <3>2, <3>3, SubSeqProperties
  <2>6. b \in Seq(S) /\ Len(b) = n - offset /\ \A i \in 1..limit : b[i] = o[offset + i]
    <3>1. \A j \in offset + 1..n : o[j] \in S
      BY <1>2, <1>5, <1>8
    <3>2. n - (offset + 1) + 1 = n - offset /\ offset + 1 <= n
      BY <1>2, <1>4, <1>5, <1>11
    <3>3. \A i \in 1..limit : i \in 1..n - (offset + 1) + 1 /\ (offset + 1) + i - 1 = offset + i
      BY <1>2, <1>4, <1>5, <1>11
    <3> QED
      BY <1>2, <1>5, <2>4, <3>1, <3>2, <3>3, SubSeqProperties
  <2>7. SubSeq(a, 1, limit) = SubSeq(b, 1, limit)
    <3>1. \A i \in 1..limit : i \in 1..Len(a) /\ i \in 1..Len(b) /\ 1 + i - 1 = i /\ a[i] \in S /\ b[i] \in S
      BY <1>2, <1>4, <1>5, <1>11, <2>5, <2>6
    <3>2. SubSeq(a, 1, limit) = [i \in 1..limit |-> a[i]] /\ SubSeq(b, 1, limit) = [i \in 1..limit |-> b[i]]
      BY <1>4, <2>5, <2>6, <3>1
    <3> QED
      BY <2>5, <2>6, <3>2
  <2>8. search_paginate(rows, limit, offset) = [items |-> SubSeq(a, 1, limit), cursor |-> offset + limit]
    BY <2>3, <2>4, <2>5 DEF search_paginate
  <2>9. Len(rest) > limit
    BY <2>3, <2>4, <2>6
  <2> QED
    BY <1>3, <1>6, <1>7, <2>3, <2>4, <2>7, <2>8, <2>9
<1> QED
  BY <1>2, <1>4, <1>5, <1>9, <1>10, <1>11

-----------------------------------------------------------------------------
(* Two stores of workspaces.  There are finitely many rows, and what they  *)
(* are sorted by are numbers.                                              *)

RowsSortable(w, m) ==
    /\ IsFiniteSet(DOMAIN w) /\ \A v \in DOMAIN w : w[v].created \in Int
    /\ IsFiniteSet(DOMAIN m)
    /\ \A k \in DOMAIN m : k = <<k[1], k[2]>> /\ k[2] \in WsUsers /\ m[k].joined \in Int

WsRows == RowsSortable(wss, members)

LEMMA WsRowsInit == WsInit => WsRows
<1> SUFFICES ASSUME WsInit PROVE WsRows
  OBVIOUS
<1>1. DOMAIN wss = {1} /\ wss[1].created = 0 /\ members = WsInitMembers
  BY DEF WsInit
<1>2. IsFiniteSet({1})
  BY FS_Singleton
<1>3. \A k \in DOMAIN WsInitMembers : k \in WsIds \X WsUsers /\ WsInitMembers[k].joined \in Nat
  BY WsAssumption
<1>4. \A k \in DOMAIN WsInitMembers : k = <<k[1], k[2]>> /\ k[2] \in WsUsers
  BY <1>3
<1> QED
  BY <1>1, <1>2, <1>3, <1>4, WsAssumption DEF WsRows, RowsSortable

\* The rows a statement leaves behind.
LEMMA WsRowsWritten ==
    ASSUME WsInv, WsRows, NEW u \in WsUsers, NEW now \in Int, NEW w, NEW m, NEW x, NEW y, NEW z
    PROVE  /\ LET r == create_workspace_pg(u, w, x, now) IN RowsSortable(r.w, r.m)
           /\ LET r == update_workspace_pg(w, x, y, z, now) IN RowsSortable(r.w, r.m)
           /\ LET r == update_member_pg(w, m, x, y) IN RowsSortable(r.w, r.m)
           /\ LET r == delete_member_pg(w, m) IN RowsSortable(r.w, r.m)
           /\ LET r == create_invite_pg(w, m, x, y) IN RowsSortable(r.w, r.m)
           /\ LET r == accept_invite_pg(u, m, now) IN RowsSortable(r.w, r.m)
<1>1. \A st, a, b, c : Tables(st, a, b, c).w = a /\ Tables(st, a, b, c).m = b
  BY DEF Tables
<1>2. \A st : Refuse(st).w = wss /\ Refuse(st).m = members
  BY DEF Refuse, Tables
<1>3. RowsSortable(wss, members)
  BY DEF WsRows
<1>4. /\ \A v \in DOMAIN wss : "created" \in DOMAIN wss[v]
      /\ \A k \in DOMAIN members : "joined" \in DOMAIN members[k]
  BY DEF WsInv, WsTypeOK
<1>5. ASSUME NEW row, row.joined \in Int, NEW ws
      PROVE  LET t == Insert(members, <<ws, u>>, row)
             IN  IsFiniteSet(DOMAIN t)
                 /\ \A k \in DOMAIN t : k = <<k[1], k[2]>> /\ k[2] \in WsUsers /\ t[k].joined \in Int
  <2> DEFINE k0 == <<ws, u>>
             t == Insert(members, k0, row)
  <2>1. k0 = <<k0[1], k0[2]>> /\ k0[2] \in WsUsers
    OBVIOUS
  <2> HIDE DEF k0
  <2>2. DOMAIN t = DOMAIN members \cup {k0} /\ \A k \in DOMAIN t : t[k] = IF k = k0 THEN row ELSE members[k]
    BY DEF Insert
  <2>3. IsFiniteSet(DOMAIN members \cup {k0})
    BY <1>3, FS_AddElement DEF RowsSortable
  <2> HIDE DEF t
  <2>4. \A k \in DOMAIN t : k = <<k[1], k[2]>> /\ k[2] \in WsUsers /\ t[k].joined \in Int
    BY <1>3, <1>5, <2>1, <2>2 DEF RowsSortable
  <2>5. IsFiniteSet(DOMAIN t)
    BY <2>2, <2>3
  <2> QED
    BY <2>4, <2>5 DEF t, k0
<1>6. LET r == create_workspace_pg(u, w, x, now) IN RowsSortable(r.w, r.m)
  <2>1. CASE SlugTaken(wss, w, x)
    BY <1>2, <1>3, <2>1 DEF create_workspace_pg
  <2>2. CASE ~SlugTaken(wss, w, x)
    <3> DEFINE row == [slug |-> x, created |-> now, updated |-> now]
               t == Insert(wss, w, row)
               mem == Insert(members, <<w, u>>, NewMember("owner", now))
    <3>1. create_workspace_pg(u, w, x, now) = Tables("ok", t, mem, invites)
      BY <2>2 DEF create_workspace_pg
    <3>2. NewMember("owner", now).joined \in Int /\ row.created \in Int
      BY DEF NewMember
    <3> HIDE DEF row
    <3>3. DOMAIN t = DOMAIN wss \cup {w} /\ \A v \in DOMAIN t : t[v] = IF v = w THEN row ELSE wss[v]
      BY DEF Insert
    <3>4. IsFiniteSet(DOMAIN t)
      BY <1>3, <3>3, FS_AddElement DEF RowsSortable
    <3> HIDE DEF t
    <3>5. \A v \in DOMAIN t : t[v].created \in Int
      BY <1>3, <3>2, <3>3 DEF RowsSortable
    <3>6. IsFiniteSet(DOMAIN mem) /\ \A k \in DOMAIN mem : k = <<k[1], k[2]>> /\ k[2] \in WsUsers /\ mem[k].joined \in Int
      BY <1>5, <3>2
    <3> HIDE DEF mem
    <3>7. RowsSortable(t, mem)
      BY <3>4, <3>5, <3>6 DEF RowsSortable
    <3> QED
      BY <1>1, <3>1, <3>7
  <2> QED
    BY <2>1, <2>2
<1>7. LET r == update_workspace_pg(w, x, y, z, now) IN RowsSortable(r.w, r.m)
  <2>1. CASE wss[w].updated # z \/ (x # Keep /\ SlugTaken(wss, w, x))
    BY <1>2, <1>3, <2>1 DEF update_workspace_pg
  <2>2. CASE ~(wss[w].updated # z \/ (x # Keep /\ SlugTaken(wss, w, x)))
    <3>1. PICK a, b : a = Coalesce(x, wss[w].slug) /\ b = IF x = Keep /\ y = Keep THEN wss[w].updated ELSE now
      OBVIOUS
    <3>2. PICK t : t = [wss EXCEPT ![w].slug = a, ![w].updated = b]
      OBVIOUS
    <3>3. update_workspace_pg(w, x, y, z, now) = Tables("ok", t, members, invites)
      BY <2>2, <3>1, <3>2 DEF update_workspace_pg
    <3>4. DOMAIN t = DOMAIN wss /\ \A v \in DOMAIN wss : t[v].created = wss[v].created
      BY <1>4, <3>2
    <3>5. RowsSortable(t, members)
      BY <1>3, <3>4 DEF RowsSortable
    <3> QED
      BY <1>1, <3>3, <3>5
  <2> QED
    BY <2>1, <2>2
<1>8. LET r == update_member_pg(w, m, x, y) IN RowsSortable(r.w, r.m)
  <2>1. CASE <<w, m>> \notin DOMAIN members
    BY <1>2, <1>3, <2>1 DEF update_member_pg
  <2>2. CASE <<w, m>> \in DOMAIN members
    <3>1. PICK k0 : k0 = <<w, m>>
      OBVIOUS
    <3>2. PICK a, b : a = Coalesce(x, members[k0].role) /\ b = Coalesce(y, members[k0].status)
      OBVIOUS
    <3>3. PICK t : t = [members EXCEPT ![k0].role = a, ![k0].status = b]
      OBVIOUS
    <3>4. update_member_pg(w, m, x, y) = Tables("ok", wss, t, invites)
      BY <2>2, <3>1, <3>2, <3>3 DEF update_member_pg
    <3>5. DOMAIN t = DOMAIN members /\ \A k \in DOMAIN members : t[k].joined = members[k].joined
      BY <1>4, <3>3
    <3>6. RowsSortable(wss, t)
      BY <1>3, <3>5 DEF RowsSortable
    <3> QED
      BY <1>1, <3>4, <3>6
  <2> QED
    BY <2>1, <2>2
<1>9. LET r == delete_member_pg(w, m) IN RowsSortable(r.w, r.m)
  <2>1. PICK k0 : k0 = <<w, m>>
    OBVIOUS
  <2>2. PICK t : t = [k \in DOMAIN members \ {k0} |-> members[k]]
    OBVIOUS
  <2>3. delete_member_pg(w, m) = Tables("ok", wss, t, invites)
    BY <2>1, <2>2 DEF delete_member_pg
  <2>4. DOMAIN t \in SUBSET DOMAIN members /\ \A k \in DOMAIN t : t[k] = members[k]
    BY <2>2
  <2>5. IsFiniteSet(DOMAIN t)
    BY <1>3, <2>4, FS_Subset DEF RowsSortable
  <2>6. RowsSortable(wss, t)
    BY <1>3, <2>4, <2>5 DEF RowsSortable
  <2> QED
    BY <1>1, <2>3, <2>6
<1>10. LET r == create_invite_pg(w, m, x, y) IN RowsSortable(r.w, r.m)
  BY <1>1, <1>3 DEF create_invite_pg
<1>11. LET r == accept_invite_pg(u, m, now) IN RowsSortable(r.w, r.m)
  <2>1. PICK ws : ws = invites[m].ws
    OBVIOUS
  <2>2. PICK row : row = [NewMember(invites[m].role, now) EXCEPT
                            !.joined = IF <<ws, u>> \in DOMAIN members THEN members[<<ws, u>>].joined ELSE @]
    OBVIOUS
  <2>3. row.joined \in Int
    BY <1>3, <2>2 DEF NewMember, RowsSortable
  <2>4. PICK t : t = Insert(members, <<ws, u>>, row)
    OBVIOUS
  <2>5. accept_invite_pg(u, m, now) = Tables("ok", wss, t, [invites EXCEPT ![m].accepted = now])
    BY <2>1, <2>2, <2>4 DEF accept_invite_pg
  <2>6. IsFiniteSet(DOMAIN t) /\ \A k \in DOMAIN t : k = <<k[1], k[2]>> /\ k[2] \in WsUsers /\ t[k].joined \in Int
    BY <1>5, <2>3, <2>4
  <2>7. RowsSortable(wss, t)
    BY <1>3, <2>6 DEF RowsSortable
  <2> QED
    BY <1>1, <2>5, <2>7
<1> QED
  BY <1>6, <1>7, <1>8, <1>9, <1>10, <1>11

LEMMA WsRowsNext == WsInv /\ WsRows /\ [WsNext]_wsVars => WsRows'
<1> SUFFICES ASSUME WsInv, WsRows, [WsNext]_wsVars PROVE WsRows'
  OBVIOUS
<1>1. wsTick + 1 \in Int
  BY DEF WsInv, WsTypeOK
<1>2. ASSUME UNCHANGED <<wss, members>> PROVE WsRows'
  BY <1>2 DEF WsRows
<1>3. ASSUME NEW u, NEW r, WsWrite(u, r), RowsSortable(r.w, r.m) PROVE WsRows'
  <2>1. wss' = r.w /\ members' = r.m
    BY <1>3 DEF WsWrite
  <2> QED
    BY <1>3, <2>1 DEF WsRows
<1>4. ASSUME NEW u \in WsUsers, WsStep(u) PROVE WsRows'
  <2>1. CASE create_workspace(u)
    <3>1. CASE UNCHANGED <<wss, members>>
      BY <1>2, <3>1
    <3>2. CASE \E w : WsWrite(u, create_workspace_pg(u, w, wsReq[u].call.slug, wsTick + 1))
      BY <1>1, <1>3, <3>2, WsRowsWritten
    <3> QED
      BY <2>1, <3>1, <3>2 DEF create_workspace
  <2>2. CASE update_workspace(u)
    BY <1>1, <1>3, <2>2, WsRowsWritten DEF update_workspace
  <2>3. CASE update_member(u)
    BY <1>1, <1>3, <2>3, WsRowsWritten DEF update_member
  <2>4. CASE delete_member(u)
    BY <1>1, <1>3, <2>4, WsRowsWritten DEF delete_member
  <2>5. CASE create_invite(u)
    BY <1>1, <1>3, <2>5, WsRowsWritten DEF create_invite
  <2>6. CASE accept_invite(u)
    BY <1>1, <1>3, <2>6, WsRowsWritten DEF accept_invite
  <2>7. CASE \/ ws_require_workspace_role(u) \/ ws_read(u) \/ ws_missing(u) \/ update_workspace_check(u)
             \/ member_check(u) \/ accept_invite_check(u) \/ try_record_audit_event(u)
    <3>1. UNCHANGED <<wss, members>>
      BY <2>7 DEF ws_require_workspace_role, ws_read, ws_missing, update_workspace_check,
                  member_check, accept_invite_check, try_record_audit_event
    <3> QED
      BY <1>2, <3>1
  <2> QED
    BY <1>4, <2>1, <2>2, <2>3, <2>4, <2>5, <2>6, <2>7 DEF WsStep
<1>5. ASSUME NEW u \in WsUsers, NEW c \in WsCalls, WsBegin(u, c) PROVE WsRows'
  BY <1>2, <1>5 DEF WsBegin
<1>6. CASE UNCHANGED wsVars
  BY <1>2, <1>6 DEF wsVars
<1> QED
  BY <1>4, <1>5, <1>6 DEF WsNext

\* Workspaces are sorted by what is never the same for two of them, and so
\* are the members of one workspace.
LEMMA WorkspacesOrdered ==
    ASSUME WsInv, WsRows, NEW S, S \subseteq DOMAIN wss
    PROVE  IsFiniteSet(S) /\ StrictOrder(S, {p \in S \X S : WorkspaceBefore(p[1], p[2])})
<1> DEFINE R == {p \in S \X S : WorkspaceBefore(p[1], p[2])}
<1>1. IsFiniteSet(S)
  BY FS_Subset DEF WsRows, RowsSortable
<1>2. \A v \in S : v \in Int /\ wss[v].created \in Int
  BY WsAssumption DEF WsInv, WsTypeOK, WsRows, RowsSortable
<1>3. \A v, w \in S : <<v, w>> \in R <=> \/ wss[v].created > wss[w].created
                                         \/ wss[v].created = wss[w].created /\ v > w
  BY DEF WorkspaceBefore
<1> HIDE DEF R
<1>4. StrictOrder(S, R)
  BY <1>2, <1>3 DEF StrictOrder
<1> QED
  BY <1>1, <1>4 DEF R

LEMMA MembersOrdered ==
    ASSUME WsInv, WsRows, NEW w, NEW S, S \subseteq {k \in DOMAIN members : k[1] = w}
    PROVE  IsFiniteSet(S) /\ StrictOrder(S, {p \in S \X S : MemberBefore(p[1], p[2])})
<1> DEFINE R == {p \in S \X S : MemberBefore(p[1], p[2])}
<1>1. S \subseteq DOMAIN members
  OBVIOUS
<1>2. IsFiniteSet(S)
  BY <1>1, FS_Subset DEF WsRows, RowsSortable
<1>3. \A k \in S : k = <<w, k[2]>> /\ k[2] \in Int /\ members[k].joined \in Int
  BY WsAssumption DEF WsRows, RowsSortable
<1>4. \A k, l \in S : k # l => k[2] # l[2]
  BY <1>3
<1>5. \A k, l \in S : <<k, l>> \in R <=> \/ members[k].joined < members[l].joined
                                         \/ members[k].joined = members[l].joined /\ k[2] < l[2]
  BY DEF MemberBefore
<1> HIDE DEF R
<1>6. StrictOrder(S, R)
  <2>1. PICK joined : joined = [k \in S |-> members[k].joined]
    OBVIOUS
  <2>2. PICK user : user = [k \in S |-> k[2]]
    OBVIOUS
  <2>3. \A k \in S : joined[k] \in Int /\ user[k] \in Int
    BY <1>3, <2>1, <2>2
  <2>4. \A k, l \in S : k # l => user[k] # user[l]
    BY <1>4, <2>2
  <2>5. \A k, l \in S : <<k, l>> \in R <=> joined[k] < joined[l] \/ (joined[k] = joined[l] /\ user[k] < user[l])
    BY <1>5, <2>1, <2>2
  <2> QED
    BY <2>3, <2>4, <2>5 DEF StrictOrder
<1> QED
  BY <1>2, <1>6 DEF R

\* The function sorts and then drops what the cursor has passed; the
\* statement sorts what is after the cursor.
LEMMA WsListsAgree ==
    ASSUME WsInv, WsRows, NEW limit
    PROVE  /\ \A w : \A cursor \in {NoCursor} \cup {<<k>> : k \in DOMAIN members} :
                list_members_memory(w, limit, cursor) = list_members_pg(w, limit, cursor)
           /\ \A u : \A cursor \in {NoCursor} \cup {<<w>> : w \in DOMAIN wss} :
                list_workspaces_memory(u, limit, cursor) = list_workspaces_pg(u, limit, cursor)
<1>1. \A x : <<x>> # NoCursor
  BY DEF NoCursor
<1>2. ASSUME NEW w PROVE list_members_memory(w, limit, NoCursor) = list_members_pg(w, limit, NoCursor)
  <2> DEFINE A == {k \in DOMAIN members : k[1] = w}
             B == {k \in DOMAIN members : k[1] = w /\ (NoCursor # NoCursor => MemberBefore(NoCursor[1], k))}
             page(S) == paginate(MembersInOrder(S), limit)
  <2>1. A = B
    OBVIOUS
  <2>2. list_members_memory(w, limit, NoCursor) = page(A)
    BY DEF list_members_memory
  <2>3. list_members_pg(w, limit, NoCursor) = page(B)
    BY DEF list_members_pg
  <2> HIDE DEF A, B, page
  <2> QED
    BY <2>1, <2>2, <2>3
<1>3. ASSUME NEW w, NEW a, NEW cursor, cursor = <<a>>
      PROVE  list_members_memory(w, limit, cursor) = list_members_pg(w, limit, cursor)
  <2> DEFINE S == {k \in DOMAIN members : k[1] = w}
             R == {p \in S \X S : MemberBefore(p[1], p[2])}
             K == {k \in DOMAIN members : MemberBefore(cursor[1], k)}
             T == {k \in DOMAIN members : k[1] = w /\ (cursor # NoCursor => MemberBefore(cursor[1], k))}
             Q == {p \in T \X T : MemberBefore(p[1], p[2])}
  <2>1. IsFiniteSet(S) /\ StrictOrder(S, R)
    BY MembersOrdered
  <2>2. cursor # NoCursor
    BY <1>1, <1>3
  <2>3. T = S \cap K
    BY <2>2
  <2>4. \A d, e \in T : <<d, e>> \in Q <=> <<d, e>> \in R
    <3>1. \A d \in T : d \in S
      OBVIOUS
    <3>2. \A d, e \in S : <<d, e>> \in R <=> MemberBefore(d, e)
      OBVIOUS
    <3>3. \A d, e \in T : <<d, e>> \in Q <=> MemberBefore(d, e)
      OBVIOUS
    <3> HIDE DEF S, T, R, Q
    <3> QED
      BY <3>1, <3>2, <3>3
  <2>5. list_members_memory(w, limit, cursor) = paginate(Retain(Ordered(S, R), K), limit)
    BY <2>2 DEF list_members_memory, MembersInOrder
  <2>6. list_members_pg(w, limit, cursor) = paginate(Ordered(T, Q), limit)
    BY DEF list_members_pg, MembersInOrder
  <2> HIDE DEF S, T, R, Q, K
  <2>7. Retain(Ordered(S, R), K) = Ordered(T, Q)
    BY <2>1, <2>3, <2>4, RetainOrdered
  <2> QED
    BY <2>5, <2>6, <2>7
<1>4. ASSUME NEW u PROVE list_workspaces_memory(u, limit, NoCursor) = list_workspaces_pg(u, limit, NoCursor)
  <2> DEFINE A == {w \in DOMAIN wss : <<w, u>> \in DOMAIN members /\ members[<<w, u>>].status = "active"}
             B == {w \in DOMAIN wss : IsActive(w, u) /\ (NoCursor # NoCursor => WorkspaceBefore(NoCursor[1], w))}
             page(S) == paginate(WorkspacesInOrder(S), limit)
  <2>1. A = B
    BY DEF IsActive
  <2>2. list_workspaces_memory(u, limit, NoCursor) = page(A)
    BY DEF list_workspaces_memory
  <2>3. list_workspaces_pg(u, limit, NoCursor) = page(B)
    BY DEF list_workspaces_pg
  <2> HIDE DEF A, B, page
  <2> QED
    BY <2>1, <2>2, <2>3
<1>5. ASSUME NEW u, NEW a, NEW cursor, cursor = <<a>>
      PROVE  list_workspaces_memory(u, limit, cursor) = list_workspaces_pg(u, limit, cursor)
  <2> DEFINE S == {w \in DOMAIN wss : <<w, u>> \in DOMAIN members /\ members[<<w, u>>].status = "active"}
             R == {p \in S \X S : WorkspaceBefore(p[1], p[2])}
             K == {w \in DOMAIN wss : WorkspaceBefore(cursor[1], w)}
             T == {w \in DOMAIN wss : IsActive(w, u) /\ (cursor # NoCursor => WorkspaceBefore(cursor[1], w))}
             Q == {p \in T \X T : WorkspaceBefore(p[1], p[2])}
  <2>0. S \subseteq DOMAIN wss
    OBVIOUS
  <2>1. IsFiniteSet(S) /\ StrictOrder(S, R)
    BY <2>0, WorkspacesOrdered
  <2>2. cursor # NoCursor
    BY <1>1, <1>5
  <2>3. T = S \cap K
    BY <2>2 DEF IsActive
  <2>4. \A d, e \in T : <<d, e>> \in Q <=> <<d, e>> \in R
    <3>1. \A d \in T : d \in S
      BY DEF IsActive
    <3>2. \A d, e \in S : <<d, e>> \in R <=> WorkspaceBefore(d, e)
      OBVIOUS
    <3>3. \A d, e \in T : <<d, e>> \in Q <=> WorkspaceBefore(d, e)
      OBVIOUS
    <3> HIDE DEF S, T, R, Q
    <3> QED
      BY <3>1, <3>2, <3>3
  <2>5. list_workspaces_memory(u, limit, cursor) = paginate(Retain(Ordered(S, R), K), limit)
    BY <2>2 DEF list_workspaces_memory, WorkspacesInOrder
  <2>6. list_workspaces_pg(u, limit, cursor) = paginate(Ordered(T, Q), limit)
    BY DEF list_workspaces_pg, WorkspacesInOrder
  <2> HIDE DEF S, T, R, Q, K
  <2>7. Retain(Ordered(S, R), K) = Ordered(T, Q)
    BY <2>1, <2>3, <2>4, RetainOrdered
  <2> QED
    BY <2>5, <2>6, <2>7
<1> QED
  BY <1>2, <1>3, <1>4, <1>5

\* A workspace that is updated: the two stores differ where a slug is taken
\* and the etag old, and in updated_at when the slug was that already.
LEMMA WsUpdatesAgree ==
    ASSUME WsInv, NEW w \in DOMAIN wss, NEW u, NEW m, NEW slug, NEW now
    PROVE  LET st == IF ~IsActive(w, u) THEN "forbidden" ELSE update_workspace_read(w, u, m)
               pg == IF st # "ok" THEN Refuse(st)
                     ELSE update_workspace_pg(w, slug, Keep, wss[w].updated, now)
               mem == update_workspace_memory(w, u, m, slug, now)
           IN  \/ pg = mem
               \/ pg.st = "precondition_failed" /\ mem.st = "conflict"
               \/ /\ slug = wss[w].slug
                  /\ pg.w = [mem.w EXCEPT ![w].updated = now]
<1> DEFINE st == IF ~IsActive(w, u) THEN "forbidden" ELSE update_workspace_read(w, u, m)
           pg == IF st # "ok" THEN Refuse(st) ELSE update_workspace_pg(w, slug, Keep, wss[w].updated, now)
           mem == update_workspace_memory(w, u, m, slug, now)
           mine == <<w, u>> \in DOMAIN members /\ members[<<w, u>>].status = "active"
                   /\ members[<<w, u>>].role = "owner"
           taken == slug # Keep /\ SlugTaken(wss, w, slug)
           fresh == etag_matches(m, wss[w].updated)
<1>1. \A s, a, b, c : Tables(s, a, b, c).st = s /\ Tables(s, a, b, c).w = a
  BY DEF Tables
<1>2. \A s : Refuse(s).st = s
  BY DEF Refuse, Tables
<1>3. CASE ~mine
  <2>1. st = "forbidden" /\ mem = Refuse("forbidden")
    BY <1>3 DEF IsActive, update_workspace_read, update_workspace_memory
  <2> QED
    BY <2>1
<1>4. CASE mine /\ ~fresh
  <2>1. st = "precondition_failed"
    BY <1>4 DEF IsActive, update_workspace_read
  <2>2. mem = IF taken THEN Refuse("conflict") ELSE Refuse("precondition_failed")
    BY <1>4 DEF update_workspace_memory
  <2> QED
    BY <1>2, <2>1, <2>2
<1>5. CASE mine /\ fresh /\ taken
  <2>1. st = "ok"
    BY <1>5 DEF IsActive, update_workspace_read
  <2>2. update_workspace_pg(w, slug, Keep, wss[w].updated, now) = Refuse("conflict")
    BY <1>5 DEF update_workspace_pg
  <2>3. mem = Refuse("conflict")
    BY <1>5 DEF update_workspace_memory
  <2> QED
    BY <2>1, <2>2, <2>3
<1>6. CASE mine /\ fresh /\ ~taken
  <2>1. st = "ok"
    BY <1>6 DEF IsActive, update_workspace_read
  <2>2. PICK s, b, c : /\ s = Coalesce(slug, wss[w].slug)
                       /\ b = IF slug = Keep /\ Keep = Keep THEN wss[w].updated ELSE now
                       /\ c = IF Coalesce(slug, wss[w].slug) = wss[w].slug THEN wss[w].updated ELSE now
    OBVIOUS
  <2> DEFINE t(x) == [wss EXCEPT ![w].slug = s, ![w].updated = x]
  <2>3. update_workspace_pg(w, slug, Keep, wss[w].updated, now) = Tables("ok", t(b), members, invites)
    BY <1>6, <2>2 DEF update_workspace_pg
  <2>4. mem = Tables("ok", t(c), members, invites)
    BY <1>6, <2>2 DEF update_workspace_memory
  <2>5. pg = Tables("ok", t(b), members, invites)
    BY <2>1, <2>3
  <2>6. b = c \/ (slug = wss[w].slug /\ b = now /\ c = wss[w].updated)
    BY <2>2 DEF Coalesce
  <2>7. t(now) = [t(c) EXCEPT ![w].updated = now]
    <3>1. DOMAIN wss[w] = {"slug", "created", "updated"}
      BY DEF WsInv, WsTypeOK
    <3> DEFINE f == t(now)
               g == [t(c) EXCEPT ![w].updated = now]
    <3>2. DOMAIN f = DOMAIN wss /\ DOMAIN g = DOMAIN wss
      OBVIOUS
    <3>3. \A v \in DOMAIN wss : v # w => f[v] = wss[v] /\ g[v] = wss[v]
      OBVIOUS
    <3>4. f[w] = [wss[w] EXCEPT !.slug = s, !.updated = now]
      OBVIOUS
    <3>5. g[w] = [[wss[w] EXCEPT !.slug = s, !.updated = c] EXCEPT !.updated = now]
      OBVIOUS
    <3>6. f[w] = g[w]
      BY <3>4, <3>5
    <3>7. f = [v \in DOMAIN wss |-> f[v]] /\ g = [v \in DOMAIN wss |-> g[v]]
      OBVIOUS
    <3> HIDE DEF f, g
    <3>8. f = g
      BY <3>3, <3>6, <3>7
    <3> QED
      BY <3>8 DEF f, g
  <2> HIDE DEF pg, mem, t
  <2>8. pg.w = t(b) /\ mem.w = t(c)
    BY <1>1, <2>4, <2>5
  <2>9. CASE b = c
    BY <2>4, <2>5, <2>9 DEF pg, mem
  <2>10. CASE slug = wss[w].slug /\ b = now
    <3>1. pg.w = [mem.w EXCEPT ![w].updated = now]
      BY <2>7, <2>8, <2>10
    <3> QED
      BY <2>10, <3>1 DEF pg, mem
  <2> QED
    BY <2>6, <2>9, <2>10
<1> QED
  BY <1>3, <1>4, <1>5, <1>6

\* An invite that is taken: joined_at of who was a member already.
LEMMA WsInvitesAgree ==
    ASSUME NEW u, NEW i, NEW now
    PROVE  LET st == invite_read(i, now)
               pg == IF st # "ok" THEN Refuse(st) ELSE accept_invite_pg(u, i, now)
               mem == accept_invite_memory(u, i, now)
           IN  \/ pg = mem
               \/ /\ <<invites[i].ws, u>> \in DOMAIN members
                  /\ mem.m = [pg.m EXCEPT ![<<invites[i].ws, u>>].joined = now]
<1> DEFINE st == invite_read(i, now)
           pg == IF st # "ok" THEN Refuse(st) ELSE accept_invite_pg(u, i, now)
           mem == accept_invite_memory(u, i, now)
<1>1. CASE st # "ok"
  <2>1. mem = Refuse(st)
    BY <1>1 DEF invite_read, accept_invite_memory
  <2> QED
    BY <1>1, <2>1
<1>2. CASE st = "ok"
  <2>1. PICK k : k = <<invites[i].ws, u>>
    OBVIOUS
  <2>2. PICK role : role = invites[i].role
    OBVIOUS
  <2>3. PICK inv : inv = [invites EXCEPT ![i].accepted = now]
    OBVIOUS
  <2>4. PICK was : was = IF k \in DOMAIN members THEN members[k].joined ELSE now
    OBVIOUS
  <2> DEFINE t(x) == Insert(members, k, [role |-> role, status |-> "active", joined |-> x])
  <2>5. [NewMember(role, now) EXCEPT !.joined = IF k \in DOMAIN members THEN members[k].joined ELSE @]
          = [role |-> role, status |-> "active", joined |-> was]
    BY <2>4 DEF NewMember
  <2>6. pg = Tables("ok", wss, t(was), inv)
    BY <1>2, <2>1, <2>2, <2>3, <2>5 DEF accept_invite_pg
  <2>7. mem = Tables("ok", wss, t(now), inv)
    BY <1>2, <2>1, <2>2, <2>3 DEF accept_invite_memory, invite_read, NewMember
  <2>8. CASE k \notin DOMAIN members
    BY <2>4, <2>6, <2>7, <2>8
  <2>9. CASE k \in DOMAIN members
    <3> DEFINE f == t(now)
               g == [t(was) EXCEPT ![k].joined = now]
    <3>1. DOMAIN t(was) = DOMAIN members \cup {k} /\ DOMAIN f = DOMAIN members \cup {k}
      BY DEF Insert
    <3>2. DOMAIN g = DOMAIN members \cup {k}
      BY <3>1
    <3>3. \A x \in DOMAIN members : x # k => f[x] = members[x] /\ g[x] = members[x]
      BY DEF Insert
    <3>4. f[k] = g[k]
      <4>1. t(was)[k] = [role |-> role, status |-> "active", joined |-> was]
        BY DEF Insert
      <4>2. f[k] = [role |-> role, status |-> "active", joined |-> now]
        BY DEF Insert
      <4>3. g[k] = [t(was)[k] EXCEPT !.joined = now]
        BY <3>1
      <4> QED
        BY <4>1, <4>2, <4>3
    <3>5. f = [x \in DOMAIN members \cup {k} |-> f[x]]
      BY DEF Insert
    <3>6. g = [x \in DOMAIN members \cup {k} |-> g[x]]
      BY <3>2
    <3> HIDE DEF f, g
    <3>7. f = g
      BY <3>3, <3>4, <3>5, <3>6
    <3>8. \A s, a, b, c : Tables(s, a, b, c).m = b
      BY DEF Tables
    <3>9. mem.m = f /\ g = [pg.m EXCEPT ![k].joined = now]
      BY <2>6, <2>7, <3>8 DEF f, g
    <3>10. mem.m = [pg.m EXCEPT ![k].joined = now]
      BY <3>7, <3>9
    <3> QED
      BY <2>1, <2>9, <3>10
  <2> QED
    BY <2>8, <2>9
<1> QED
  BY <1>1, <1>2

LEMMA WsStoresHold == WsInv /\ WsRows => WsStoresAgree
<1> SUFFICES ASSUME WsInv, WsRows PROVE WsStoresAgree
  OBVIOUS
<1> DEFINE now == wsTick + 1
           MembersListed(w, cursor) ==
             list_members_memory(w, normalize_limit(1), cursor) = list_members_pg(w, normalize_limit(1), cursor)
           WsListed(u, cursor) ==
             list_workspaces_memory(u, normalize_limit(1), cursor) = list_workspaces_pg(u, normalize_limit(1), cursor)
           Created(u, slug, w) == create_workspace_memory(u, w, slug, now) = create_workspace_pg(u, w, slug, now)
           Seen(w, u) == /\ get_workspace_memory(w, u) = get_workspace_pg(w, u)
                         /\ ws_role_for_user_memory(w, u) = ws_role_for_user_pg(w, u)
           Updated(w, u, slug, m) ==
             LET st == IF ~IsActive(w, u) THEN "forbidden" ELSE update_workspace_read(w, u, m)
                 pg == IF st # "ok" THEN Refuse(st)
                       ELSE update_workspace_pg(w, slug, Keep, wss[w].updated, now)
                 mem == update_workspace_memory(w, u, m, slug, now)
             IN  \/ pg = mem
                 \/ pg.st = "precondition_failed" /\ mem.st = "conflict"
                 \/ /\ slug = wss[w].slug
                    /\ pg.w = [mem.w EXCEPT ![w].updated = now]
           Changed(w, u, m, role, status) ==
             LET st == member_read(w, u, m, "member", role)
             IN  update_member_memory(w, u, m, role, status)
                   = IF st # "ok" THEN Refuse(st) ELSE update_member_pg(w, u, role, status)
           Removed(w, u, m) ==
             LET st == member_read(w, u, m, "remove", Keep)
             IN  delete_member_memory(w, u, m)
                   = IF st # "ok" THEN Refuse(st) ELSE delete_member_pg(w, u)
           Invited(w, i) == create_invite_memory(w, i, "viewer", now) = create_invite_pg(w, i, "viewer", now)
           Accepted(u, i) ==
             LET st == invite_read(i, wsTick)
                 pg == IF st # "ok" THEN Refuse(st) ELSE accept_invite_pg(u, i, wsTick)
                 mem == accept_invite_memory(u, i, wsTick)
             IN  \/ pg = mem
                 \/ /\ <<invites[i].ws, u>> \in DOMAIN members
                    /\ mem.m = [pg.m EXCEPT ![<<invites[i].ws, u>>].joined = wsTick]
<1>1. \A w : \A cursor \in {NoCursor} \cup {<<k>> : k \in DOMAIN members} : MembersListed(w, cursor)
  BY WsListsAgree
<1>2. \A u : \A cursor \in {NoCursor} \cup {<<w>> : w \in DOMAIN wss} : WsListed(u, cursor)
  BY WsListsAgree
<1>3. ASSUME NEW u, NEW slug, NEW w, w \notin DOMAIN wss PROVE Created(u, slug, w)
  <2>1. SlugTaken(wss, w, slug) <=> \E v \in DOMAIN wss : Same(wss[v].slug, slug)
    BY <1>3 DEF SlugTaken
  <2> QED
    BY <2>1 DEF create_workspace_memory, create_workspace_pg
<1>4. \A w, u : Seen(w, u)
  BY DEF get_workspace_memory, get_workspace_pg, workspace_row_for_user, resolve_missing_workspace_access,
         ws_role_for_user_memory, ws_role_for_user_pg, IsActive
<1>5. \A w \in DOMAIN wss : \A u, slug, m : Updated(w, u, slug, m)
  BY WsUpdatesAgree
<1>6. ASSUME NEW w, NEW u, NEW m, NEW role, NEW status PROVE Changed(w, u, m, role, status)
  BY DEF update_member_memory, update_member_pg, member_read
<1>7. ASSUME NEW w, NEW u, NEW m PROVE Removed(w, u, m)
  BY DEF delete_member_memory, delete_member_pg, member_read
<1>8. \A w \in DOMAIN wss : \A i : Invited(w, i)
  BY DEF create_invite_memory, create_invite_pg
<1>9. \A u, i : Accepted(u, i)
  BY WsInvitesAgree
<1>10. /\ \A w \in WsIds, cursor \in {NoCursor} \cup {<<k>> : k \in DOMAIN members} : MembersListed(w, cursor)
       /\ \A u \in WsUsers :
           /\ \A slug \in {"S", "t"}, w \in WsIds \ DOMAIN wss : Created(u, slug, w)
           /\ \A cursor \in {NoCursor} \cup {<<w>> : w \in DOMAIN wss} : WsListed(u, cursor)
           /\ \A w \in WsIds :
                /\ get_workspace_memory(w, u) = get_workspace_pg(w, u)
                /\ ws_role_for_user_memory(w, u) = ws_role_for_user_pg(w, u)
                /\ w \in DOMAIN wss => \A slug \in {"S", "t", Keep}, m \in {0, wsTick} : Updated(w, u, slug, m)
                /\ \A m \in {0, wsTick}, role \in Roles \cup {Keep}, status \in {"suspended", Keep} :
                     Changed(w, u, m, role, status)
                /\ \A m \in {0, wsTick} : Removed(w, u, m)
                /\ w \in DOMAIN wss => \A i \in InviteIds \ DOMAIN invites : Invited(w, i)
           /\ \A i \in InviteIds : Accepted(u, i)
  <2> HIDE DEF MembersListed, WsListed, Created, Updated, Changed, Removed, Invited, Accepted
  <2>1. \A u, slug, w : w \notin DOMAIN wss => Created(u, slug, w)
    BY <1>3
  <2>2. \A w, u, m, role, status : Changed(w, u, m, role, status)
    BY <1>6
  <2>3. \A w, u, m : Removed(w, u, m)
    BY <1>7
  <2>4. ASSUME NEW u \in WsUsers, NEW w \in WsIds
        PROVE  /\ get_workspace_memory(w, u) = get_workspace_pg(w, u)
               /\ ws_role_for_user_memory(w, u) = ws_role_for_user_pg(w, u)
               /\ w \in DOMAIN wss => \A slug \in {"S", "t", Keep}, m \in {0, wsTick} : Updated(w, u, slug, m)
               /\ \A m \in {0, wsTick}, role \in Roles \cup {Keep}, status \in {"suspended", Keep} :
                    Changed(w, u, m, role, status)
               /\ \A m \in {0, wsTick} : Removed(w, u, m)
               /\ w \in DOMAIN wss => \A i \in InviteIds \ DOMAIN invites : Invited(w, i)
    BY <1>4, <1>5, <1>8, <2>2, <2>3
  <2>5. ASSUME NEW u \in WsUsers
        PROVE  /\ \A slug \in {"S", "t"}, w \in WsIds \ DOMAIN wss : Created(u, slug, w)
               /\ \A cursor \in {NoCursor} \cup {<<w>> : w \in DOMAIN wss} : WsListed(u, cursor)
               /\ \A i \in InviteIds : Accepted(u, i)
    BY <1>2, <1>9, <2>1, Zenon
  <2> QED
    BY <1>1, <2>4, <2>5, Zenon
<1> QED
  BY <1>10, Zenon DEF WsStoresAgree

\* One request at a time, the stores the tests run on answer and change their
\* tables as Postgres does, but for the differences the property lists, for
\* any rows, users, workspaces and requests: listings, pages, refusals and
\* what is written (the *_mem, *_memory and *_pg functions of api/documents.rs,
\* api/comments.rs, api/search.rs and api/mod.rs).
THEOREM StoresAgreeHolds == RestSpec => []StoresAgree
<1> DEFINE Inv == /\ DocWalkInv /\ IsMap(docs)
                  /\ ComInv /\ SearchInv
                  /\ WsInv /\ WsRows
<1>1. RestInit => Inv
  <2> SUFFICES ASSUME RestInit PROVE Inv
    OBVIOUS
  <2>1. DocsInit /\ ComInit /\ SearchInit /\ WsInit
    BY DEF RestInit
  <2>2. IsMap(docs)
    BY <2>1, DocRowsGiven DEF DocsInit, IsMap
  <2> QED
    BY <2>1, <2>2, DocWalkInitInv, ComInitInv, SearchInitInv, WsInitInv, WsRowsInit
<1>2. Inv /\ [RestNext]_<<part, contentVars, accessVars>> => Inv'
  <2> SUFFICES ASSUME Inv, [RestNext]_<<part, contentVars, accessVars>> PROVE Inv'
    OBVIOUS
  <2>1. [DocsNext]_docVars /\ [ComNext]_comVars /\ [SearchNext]_searchVars /\ [WsNext]_wsVars
    BY DEF RestNext, contentVars, accessVars
  <2> QED
    BY <2>1, DocWalkNextInv, DocsMap, ComNextInv, SearchNextInv, WsNextInv, WsRowsNext
<1>3. Inv => StoresAgree
  BY DocStoresHold, ComStoresHold, SearchStoresHold, WsStoresHold, ShStoresHold DEF StoresAgree
<1> QED
  BY <1>1, <1>2, <1>3, PTL DEF RestSpec

=============================================================================
