------------------------------ MODULE Sections ------------------------------
(***************************************************************************)
(* The sections of a Markdown document: the tree parse_sections builds     *)
(* (crates/common), the daemon's SectionTracker that diffs two trees and   *)
(* keeps who edited a section last, the overlap of editors' cursors, and   *)
(* what doc.bundle takes from the tree (parents, descendants, comments and *)
(* the token budget).                                                      *)
(*                                                                         *)
(* A document is a sequence of lines; a line is blank, text or an ATX      *)
(* heading with a level.  What the Markdown parser recognises as a heading *)
(* is external (pulldown_cmark).  A heading is one of HeadingTexts, and    *)
(* Slug says what slugify makes of each.                                   *)
(***************************************************************************)
EXTENDS Integers, Sequences, SequencesExt, FiniteSetsExt, Functions

CONSTANTS HeadingTexts, Slug, Levels, TextLines, MaxLines, MaxUpdates, Origins

VARIABLES markdown, sections, last_edited_by, changedBy, updates

secVars == <<markdown, sections, last_edited_by, changedBy, updates>>

NoOrigin == "none"

NoParent == <<>>

Heading(level, text) == [kind |-> "heading", level |-> level, text |-> text]

Prose(text) == [kind |-> "text", level |-> 0, text |-> text]

Blank == [kind |-> "blank", level |-> 0, text |-> ""]

LineSet == {Heading(l, t) : l \in Levels, t \in HeadingTexts} \union {Prose(t) : t \in TextLines} \union {Blank}

-----------------------------------------------------------------------------
(* The tree.                                                               *)

slugify(heading) == Slug[heading]

\* The parts of "ancestor/ancestor/leaf", and the ordinal of "~n".
make_section_id(ancestors, heading, level, ordinal) ==
    LET leaf == IF slugify(heading) = "" THEN <<"", level, ordinal>> ELSE <<slugify(heading), 0, 0>>
    IN <<ancestors, leaf>>

\* Mutant: only the second of equal ids is numbered.
DisambiguateSecond(base, occurrence) == Append(base, IF occurrence > 1 THEN 2 ELSE 1)

disambiguate(base, occurrence) == Append(base, occurrence)

\* The drafts of the parser: the numbers of the heading lines.
Drafts(lines) == SetToSortSeq({i \in DOMAIN lines : lines[i].kind = "heading"}, <)

RECURSIVE PopTo(_, _, _)
PopTo(stack, built, level) ==
    IF stack # <<>> /\ built[Last(stack)].level >= level THEN PopTo(Front(stack), built, level) ELSE stack

build_tree(lines) ==
    LET drafts == Drafts(lines)
        add(acc, index) ==
            LET draft == lines[drafts[index]]
                stack == PopTo(acc.stack, acc.built, draft.level)
                base  == make_section_id([i \in DOMAIN stack |-> slugify(acc.built[stack[i]].heading)],
                                         draft.text, draft.level, index)
                count == Cardinality({i \in DOMAIN acc.bases : acc.bases[i] = base}) + 1
                section == [id |-> disambiguate(base, count),
                            parent_id |-> IF stack = <<>> THEN NoParent ELSE acc.built[Last(stack)].id,
                            heading |-> draft.text, level |-> draft.level,
                            start_line |-> drafts[index],
                            end_line |-> IF index < Len(drafts) THEN drafts[index + 1] ELSE Len(lines) + 1]
            IN [built |-> Append(acc.built, section), stack |-> Append(stack, index), bases |-> Append(acc.bases, base)]
    IN FoldLeft(add, [built |-> <<>>, stack |-> <<>>, bases |-> <<>>], [i \in DOMAIN drafts |-> i]).built

parse_sections(lines) == build_tree(lines)

-----------------------------------------------------------------------------
(* SectionTracker.                                                         *)

\* What content_hashes hashes of a section.
content(lines, section) == SubSeq(lines, section.start_line, Min({section.end_line - 1, Len(lines)}))

section_metadata_differs(a, b) == a.heading # b.heading \/ a.level # b.level \/ a.parent_id # b.parent_id

SectionIds(tree) == {tree[i].id : i \in DOMAIN tree}

ById(tree, id) == CHOOSE s \in Range(tree) : s.id = id

diff_sections(old, old_md, new, new_md) ==
    [removed  |-> SectionIds(old) \ SectionIds(new),
     added    |-> SectionIds(new) \ SectionIds(old),
     modified |-> {id \in SectionIds(old) \intersect SectionIds(new) :
                     \/ section_metadata_differs(ById(old, id), ById(new, id))
                     \/ content(old_md, ById(old, id)) # content(new_md, ById(new, id))}]

\* SectionTracker::update.
tracker_update(lines, origin) ==
    LET tree == parse_sections(lines)
        diff == diff_sections(sections, markdown, tree, lines)
        touched == diff.added \union diff.modified
    IN /\ last_edited_by' =
            IF origin = NoOrigin THEN last_edited_by
            ELSE [id \in (DOMAIN last_edited_by \ diff.removed) \union touched |->
                    IF id \in touched THEN origin ELSE last_edited_by[id]]
       /\ sections' = tree
       /\ markdown' = lines

-----------------------------------------------------------------------------
(* Overlap of editors.                                                     *)

find_section_for_line(tree, line) ==
    LET around == {s \in Range(tree) : s.start_line <= line /\ line < s.end_line}
    IN IF around = {} THEN {} ELSE {CHOOSE s \in around : \A t \in around : t.level <= s.level}

\* The paragraph number of every line; a blank line has one of its own.
build_paragraph_map(lines) ==
    LET add(acc, line) ==
            IF line.kind = "blank" THEN [map |-> Append(acc.map, acc.idx + 1), idx |-> acc.idx + 2, inside |-> FALSE]
            ELSE LET idx == IF acc.inside THEN acc.idx ELSE acc.idx + 1
                 IN [map |-> Append(acc.map, idx), idx |-> idx, inside |-> TRUE]
    IN FoldLeft(add, [map |-> <<>>, idx |-> 0, inside |-> FALSE], lines).map

classify_severity(cursors, group, map) ==
    IF \E a, b \in group : /\ a # b /\ cursors[a] \in DOMAIN map /\ cursors[b] \in DOMAIN map
                           /\ map[cursors[a]] = map[cursors[b]]
    THEN "warning" ELSE "info"

\* The overlaps of editors whose cursor lines are `cursors`.
detect_overlaps(tree, cursors, lines) ==
    LET group(s) == {e \in DOMAIN cursors : s \in find_section_for_line(tree, cursors[e])}
    IN {[section |-> s.id, editors |-> group(s),
         severity |-> classify_severity(cursors, group(s), build_paragraph_map(lines))] :
           s \in {t \in Range(tree) : Cardinality(group(t)) >= 2}}

-----------------------------------------------------------------------------
(* doc.bundle.                                                             *)

extract_section_content(lines, section) ==
    SelectSeq([i \in DOMAIN lines |-> <<i, lines[i]>>],
              LAMBDA p : p[1] >= section.start_line /\ p[1] < section.end_line)

RECURSIVE section_parent_chain(_, _)
section_parent_chain(tree, section) ==
    IF section.parent_id \in SectionIds(tree)
    THEN Append(section_parent_chain(tree, ById(tree, section.parent_id)), section.parent_id) ELSE <<>>

RECURSIVE section_is_descendant_of(_, _, _)
section_is_descendant_of(tree, candidate, ancestor) ==
    /\ candidate.parent_id # NoParent
    /\ \/ candidate.parent_id = ancestor
       \/ /\ candidate.parent_id \in SectionIds(tree)
          /\ section_is_descendant_of(tree, ById(tree, candidate.parent_id), ancestor)

section_descendants(tree, section) ==
    {s.id : s \in {t \in Range(tree) : t.id # section.id /\ section_is_descendant_of(tree, t, section.id)}}

\* Whether a comment of section `on` belongs in the bundle of `target`; of a
\* section that is not in the tree only the path of its id is known.
comment_matches_target_section(tree, on, target) ==
    \/ on = NoParent
    \/ on = target.id
    \/ on \in SectionIds(tree) /\ section_is_descendant_of(tree, ById(tree, on), target.id)
    \/ /\ on \notin SectionIds(tree) /\ target.id[3] = 1
       /\ IsPrefix(Append(target.id[1], target.id[2][1]), on[1])

\* The tokens of a bundle: `fixed` for the section and one for every item of
\* the four lists (parents, children, backlinks, comments).
count_bundle_tokens(fixed, lens) == fixed + lens[1] + lens[2] + lens[3] + lens[4]

\* The lists lose their last items, comments first and parents last, until
\* the bundle fits.
RECURSIVE DropFrom(_, _, _, _)
DropFrom(fixed, lens, list, budget) ==
    IF count_bundle_tokens(fixed, lens) <= budget \/ list = 0 THEN lens
    ELSE IF lens[list] > 0 THEN DropFrom(fixed, [lens EXCEPT ![list] = @ - 1], list, budget)
    ELSE DropFrom(fixed, lens, list - 1, budget)

apply_bundle_token_budget(fixed, lens, budget) == DropFrom(fixed, lens, 4, budget)

-----------------------------------------------------------------------------
(* Editing a document line by line.                                        *)

SecInit ==
    /\ markdown = <<>> /\ sections = <<>>
    /\ last_edited_by = << >>
    /\ changedBy = << >>
    /\ updates = 0

\* What a reader would say changed: the sections with an id and the lines
\* they hold, compared before and after.
Body(lines, tree, id) == LET s == ById(tree, id) IN <<s.heading, s.level, s.parent_id, content(lines, s)>>

SecUpdate(lines, origin) ==
    /\ updates < MaxUpdates /\ updates' = updates + 1
    /\ tracker_update(lines, origin)
    /\ LET tree == parse_sections(lines)
           same(id) == id \in SectionIds(sections) /\ Body(markdown, sections, id) = Body(lines, tree, id)
       IN changedBy' = [id \in SectionIds(tree) |-> IF same(id) THEN changedBy[id] ELSE origin]

insert_line == \E i \in 1..Len(markdown) + 1, line \in LineSet, origin \in Origins :
                  Len(markdown) < MaxLines /\ SecUpdate(InsertAt(markdown, i, line), origin)

remove_line == \E i \in DOMAIN markdown, origin \in Origins : SecUpdate(RemoveAt(markdown, i), origin)

replace_line == \E i \in DOMAIN markdown, line \in LineSet, origin \in Origins :
                   line # markdown[i] /\ SecUpdate([markdown EXCEPT ![i] = line], origin)

SecNext == insert_line \/ remove_line \/ replace_line

SecSpec == SecInit /\ [][SecNext]_secVars

-----------------------------------------------------------------------------
(* Properties.                                                             *)

\* build_tree: the ids are distinct, the sections are the lines from the
\* first heading to the end without gap or overlap, a section's parent is the
\* nearest heading above it of a lower level, and doc.bundle's descendants of
\* a section are the headings below it up to the next of its level.
SecTreeSound ==
    LET tree == sections
        deeper(i, j) == i < j /\ \A k \in i + 1..j : tree[k].level > tree[i].level
    IN /\ Cardinality(SectionIds(tree)) = Len(tree)
       /\ FlattenSeq([i \in DOMAIN tree |-> content(markdown, tree[i])]) =
             (IF tree = <<>> THEN <<>> ELSE SubSeq(markdown, tree[1].start_line, Len(markdown)))
       /\ \A i \in DOMAIN tree :
             LET above == {j \in 1..i - 1 : tree[j].level < tree[i].level}
             IN /\ tree[i].parent_id = IF above = {} THEN NoParent ELSE tree[Max(above)].id
                /\ section_descendants(tree, tree[i]) = {tree[j].id : j \in {k \in DOMAIN tree : deeper(i, k)}}

\* SectionTracker::update: as long as no update without an origin touched a
\* section, it is attributed to the origin that changed it last.
SecAttributed ==
    \A id \in SectionIds(sections) :
       changedBy[id] # NoOrigin => id \in DOMAIN last_edited_by /\ last_edited_by[id] = changedBy[id]

\* detect_overlaps: two editors overlap exactly when the nearest heading above
\* their cursors is the same, and it is a warning exactly when two of them
\* are in one run of lines without a blank one; a cursor on the empty line
\* after a final newline (line Len + 1) is in no section.
SecOverlapExact ==
    \A a, b \in 1..Len(markdown) + 1 :
       LET cursors == <<a, b>>
           heading(line) == Max({0} \union {i \in 1..line : i <= Len(markdown) /\ markdown[i].kind = "heading"})
           both == a <= Len(markdown) /\ b <= Len(markdown)
           lo == Min({a, b})
           hi == Max({a, b})
           near == a = b \/ \A i \in lo..hi : markdown[i].kind # "blank"
           found == detect_overlaps(sections, cursors, markdown)
       IN /\ (found # {}) = (both /\ heading(a) = heading(b) /\ heading(a) # 0)
          /\ \A o \in found : o.editors = {1, 2} /\ (o.severity = "warning") = near

\* doc.bundle of a section: its text is the section's lines, and whatever
\* the budget, a bundle that is still over it has lost all its context, and
\* one that fits lost no item it had room for, comments before backlinks
\* before descendants before parents.
SecBundleTight ==
    \A target \in Range(sections), budget \in 0..3 :
       LET comments == {id \in SectionIds(sections) : comment_matches_target_section(sections, id, target)}
           lens == <<Len(section_parent_chain(sections, target)), Cardinality(section_descendants(sections, target)),
                     1, Cardinality(comments)>>
           text == extract_section_content(markdown, target)
           kept == apply_bundle_token_budget(Len(text), lens, budget)
           used == count_bundle_tokens(Len(text), kept)
           lost == {i \in 1..4 : kept[i] < lens[i]}
       IN /\ [i \in DOMAIN text |-> text[i][2]] = content(markdown, target)
          /\ comments = {target.id} \union section_descendants(sections, target)
          /\ used > budget => kept = [i \in 1..4 |-> 0]
          /\ lost # {} => used + 1 > budget /\ \A i \in Min(lost) + 1..4 : kept[i] = 0

\* The tree, who edited it, who meets in it and what a bundle takes of it.
SecSound == SecTreeSound /\ SecAttributed /\ SecOverlapExact /\ SecBundleTight
=============================================================================
