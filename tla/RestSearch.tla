----------------------------- MODULE RestSearch -----------------------------
(***************************************************************************)
(* Searching the documents of a workspace page by page                     *)
(* (crates/relay/src/api/search.rs).  The cursor is an offset into the     *)
(* ranking, which every write to a document between two pages may change.  *)
(*                                                                         *)
(* How well a title and a path match is abstracted to a score, 0 for no    *)
(* match: ts_rank_cd in Postgres, counted hits in the in-memory store.     *)
(***************************************************************************)
EXTENDS RestCommon

CONSTANTS
    FoundDocs,      \* document ids
    Scores,         \* 0 and the scores of matches
    SearchLimits,   \* the limits clients ask for
    SearchMaxWrites, SearchMaxRequests

ASSUME FoundDocsGiven == FoundDocs \subseteq Int /\ IsFiniteSet(FoundDocs)
ASSUME ScoresGiven == Scores \subseteq Int
ASSUME SearchLimitsGiven == SearchLimits \subseteq Nat

VARIABLES
    found,        \* table documents: id -> [score, updated, deleted]
    searchRole,   \* the client's active role in the workspace, or "none"
    walk,         \* the client's walk: [offset, seen, state, limit, st]
    searchWrites, \* documents written since the walk began, and
    searchTick,   \* how often: the clock of updated_at
    searchRequests

searchVars == <<found, searchRole, walk, searchWrites, searchTick, searchRequests>>

-----------------------------------------------------------------------------
(* The ranking: score, then newest, then id. *)

RankedBefore(t, d, e) ==
    \/ t[d].score > t[e].score
    \/ t[d].score = t[e].score /\ t[d].updated > t[e].updated
    \/ t[d].score = t[e].score /\ t[d].updated = t[e].updated /\ d > e

Matching(t) == {d \in DOMAIN t : ~t[d].deleted /\ t[d].score > 0}

Ranking(t) == Ordered(Matching(t), {p \in Matching(t) \X Matching(t) : RankedBefore(t, p[1], p[2])})

NoOffset == -1
\* Mutant: the next page starts one result too far on.
PageSkipsOne(rows, limit, offset) ==
    IF Len(rows) > limit THEN [items |-> SubSeq(rows, 1, limit), cursor |-> offset + limit + 1]
    ELSE [items |-> rows, cursor |-> NoOffset]

\* The rows LIMIT limit + 1 OFFSET offset gave.
search_paginate(rows, limit, offset) ==
    IF Len(rows) > limit THEN [items |-> SubSeq(rows, 1, limit), cursor |-> offset + limit]
    ELSE [items |-> rows, cursor |-> NoOffset]

search_pg(t, limit, offset) ==
    LET ranking == Ranking(t)
        last == IF offset + limit + 1 < Len(ranking) THEN offset + limit + 1 ELSE Len(ranking)
    IN search_paginate(SubSeq(ranking, offset + 1, last), limit, offset)

\* The whole ranking, cut by the function itself.
paginate_with_offset(items, limit, offset) ==
    LET sliced == SubSeq(items, offset + 1, Len(items))
    IN IF offset >= Len(items) THEN [items |-> <<>>, cursor |-> NoOffset]
       ELSE IF Len(sliced) > limit THEN [items |-> SubSeq(sliced, 1, limit), cursor |-> offset + limit]
       ELSE [items |-> sliced, cursor |-> NoOffset]

search_mem(t, limit, offset) == paginate_with_offset(Ranking(t), limit, offset)

-----------------------------------------------------------------------------
(* The handler. *)

\* The workspace in the token is the one of the path, and the member row is
\* active and allows a viewer.
search_require_workspace_role(role) == role # "none" /\ allows(role, "viewer")

\* A query of blanks, one that is too long, or none at all.
validate_query(q) == q = "words"

\* parse_cursor: what was not a number is refused.
parse_search_cursor(cursor) == cursor # "junk"

search_documents(q, cursor) ==
    /\ searchRequests < SearchMaxRequests
    /\ searchRequests' = searchRequests + 1
    /\ walk.state = "walking"
    /\ LET page == search_pg(found, normalize_limit(walk.limit), walk.offset)
       IN walk' =
            CASE ~search_require_workspace_role(searchRole) -> [walk EXCEPT !.st = "forbidden"]
              [] search_require_workspace_role(searchRole) /\ ~(validate_query(q) /\ parse_search_cursor(cursor)) ->
                   [walk EXCEPT !.st = "bad_request"]
              [] OTHER -> [walk EXCEPT !.st = "ok", !.seen = @ \o page.items,
                                       !.offset = IF page.cursor = NoOffset THEN @ ELSE page.cursor,
                                       !.state = IF page.cursor = NoOffset THEN "done" ELSE "walking"]
    /\ UNCHANGED <<found, searchRole, searchWrites, searchTick>>

\* A document is renamed, retitled or deleted (api/documents.rs): its score
\* may become any, and it is the newest.
write_document(d) ==
    /\ searchTick < SearchMaxWrites
    /\ searchTick' = searchTick + 1
    /\ \/ \E s \in Scores : found' = [found EXCEPT ![d].score = s, ![d].updated = searchTick + 1]
       \/ found' = [found EXCEPT ![d].deleted = TRUE]
    /\ found[d].deleted = FALSE
    /\ searchWrites' = searchWrites \union {d}
    /\ UNCHANGED <<searchRole, walk, searchRequests>>

SearchRoleChange ==
    /\ searchRole' \in {"viewer", "none"} \ {searchRole}
    /\ UNCHANGED <<found, walk, searchWrites, searchTick, searchRequests>>

SearchInit ==
    /\ found \in [FoundDocs -> [score : Scores, updated : {0}, deleted : {FALSE}]]
    /\ searchRole = "viewer"
    /\ \E limit \in SearchLimits : walk = [offset |-> 0, seen |-> <<>>, state |-> "walking", limit |-> limit, st |-> "none"]
    /\ searchWrites = {}
    /\ searchTick = 0 /\ searchRequests = 0

SearchNext ==
    \/ \E q \in {"words", "blank"}, cursor \in {"given", "junk"} : search_documents(q, cursor)
    \/ \E d \in FoundDocs : write_document(d)
    \/ SearchRoleChange

SearchSpec == SearchInit /\ [][SearchNext]_searchVars

-----------------------------------------------------------------------------
(* Properties. *)

\* search_pg: a walk over all pages gives every match that was not written
\* meanwhile, except as many as writes may have moved to pages already given,
\* and repeats none but as many as writes may have moved onto a later page.
SearchWalkComplete ==
    LET kept == Matching(found) \ searchWrites
        given == {walk.seen[i] : i \in DOMAIN walk.seen}
    IN walk.state = "done" =>
          /\ Cardinality(kept \ given) <= searchTick
          /\ Len(walk.seen) - Cardinality(given) <= searchTick

\* search_pg and search_mem cut the same pages from the same ranking.
SearchStoresAgree ==
    \A limit \in SearchLimits, offset \in 0..Cardinality(FoundDocs) + 1 :
       search_pg(found, normalize_limit(limit), offset) = search_mem(found, normalize_limit(limit), offset)
=============================================================================
