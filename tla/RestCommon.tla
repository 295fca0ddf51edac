----------------------------- MODULE RestCommon -----------------------------
(***************************************************************************)
(* What the HTTP handlers of the relay share: workspace roles              *)
(* (crates/relay/src/auth/middleware.rs), If-Match, page sizes.            *)
(*                                                                         *)
(* Each API keeps its rows in a store that is either Postgres or, for the  *)
(* tests, a map behind a lock.  A statement of Postgres is one step; what  *)
(* happens between two statements of a handler is open to other requests.  *)
(***************************************************************************)
EXTENDS Integers, Sequences, FiniteSets, TLC, SequencesExt, Maps

\* The header If-Match is absent, "*", or an etag, which is a number here.
NoIfMatch  == -2
AnyIfMatch == -1

Roles == {"viewer", "editor", "owner"}

RoleLevel == [viewer |-> 1, editor |-> 2, owner |-> 3]

allows(role, required) == RoleLevel[role] >= RoleLevel[required]

etag_matches(ifMatch, etag) == ifMatch = AnyIfMatch \/ ifMatch = etag

\* DEFAULT_PAGE_SIZE and MAX_PAGE_SIZE, scaled down; a limit that was not
\* given is 0, as if 0 had been given.
DefaultPage == 2
MaxPage == 3
normalize_limit(limit) ==
    IF limit = 0 THEN DefaultPage ELSE IF limit > MaxPage THEN MaxPage ELSE limit

\* ORDER BY: the rows of S in the order of the pairs `before`.  A row comes
\* after as many rows as are before it.
Ordered(S, before) ==
    [i \in 1..Cardinality(S) |-> CHOOSE d \in S : Cardinality({e \in S : <<e, d>> \in before}) = i - 1]

\* Vec::retain: the items that are in `keep`, in the order they had.
Retain(items, keep) ==
    LET kept  == {i \in DOMAIN items : items[i] \in keep}
        order == Ordered(kept, {p \in kept \X kept : p[1] < p[2]})
    IN  [j \in 1..Cardinality(kept) |-> items[order[j]]]

\* The first rows of a sorted listing, and the row the cursor names: the
\* last one given when more are left.
NoCursor == <<>>
paginate(items, limit) ==
    LET more == Len(items) > limit
        page == IF more THEN SubSeq(items, 1, limit) ELSE items
    IN  [items  |-> page,
         cursor |-> IF more THEN <<page[Len(page)]>> ELSE NoCursor]

=============================================================================
