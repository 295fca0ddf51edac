------------------------------ MODULE TextDiff ------------------------------
(***************************************************************************)
(* The text diffs of the repository: diff_to_patch_ops and                 *)
(* apply_patch_ops_to_ytext of crates/common (a file saved by an editor    *)
(* becomes operations on the CRDT text), and the line diff doc.diff shows  *)
(* (render_markdown_patch of the daemon).                                  *)
(*                                                                         *)
(* A text is a sequence of characters; Width gives the bytes of each in    *)
(* UTF-8, and operations carry byte offsets.  A text is diffed and the     *)
(* operations are applied one by one, as the loop over patch_ops does, to  *)
(* the bytes of the CRDT text.                                             *)
(***************************************************************************)
EXTENDS Integers, Sequences, SequencesExt, FiniteSetsExt

CONSTANTS Chars, Newline, WideChars, MaxText, LINE_DIFF_THRESHOLD, MAX_LCS_CELLS

VARIABLES oldText, newText, ops, ytext, offset

diffVars == <<oldText, newText, ops, ytext, offset>>

Width(ch) == IF ch \in WideChars THEN 2 ELSE 1

\* The bytes of a text: the i-th byte of character ch is <<ch, i>>.
Bytes(text) == FlattenSeq([i \in DOMAIN text |-> [b \in 1..Width(text[i]) |-> <<text[i], b>>]])
\* Mutant: characters are counted.
CharCount(text) == Len(text)

utf8_len(text) == Len(Bytes(text))

-----------------------------------------------------------------------------
(* Myers' algorithm over any two sequences (characters or lines).          *)

RECURSIVE Snake(_, _, _, _)
Snake(old, new, x, y) ==
    IF x < Len(old) /\ y < Len(new) /\ old[x + 1] = new[y + 1]
    THEN Snake(old, new, x + 1, y + 1) ELSE x

\* The diagonal that diagonal k was reached from in round d.
GoesDown(v, k, d) == k = -d \/ (k # d /\ v[k - 1] < v[k + 1])

Furthest(old, new, v, k, d) ==
    LET x == IF GoesDown(v, k, d) THEN v[k + 1] ELSE v[k - 1] + 1
    IN Snake(old, new, x, x - k)

Diagonals(d) == {k \in -d..d : (k + d) % 2 = 0}

\* The rounds d = 0, 1, ... up to the first that reaches the end of both;
\* trace[d + 1] is the vector v before round d.
RECURSIVE Rounds(_, _, _, _)
Rounds(old, new, trace, d) ==
    LET v == trace[d + 1]
        reached == [k \in Diagonals(d) |-> Furthest(old, new, v, k, d)]
        max == Len(old) + Len(new)
    IN IF \E k \in Diagonals(d) : reached[k] >= Len(old) /\ reached[k] - k >= Len(new)
       THEN trace
       ELSE Rounds(old, new, Append(trace, [k \in -max..max |-> IF k \in Diagonals(d) THEN reached[k] ELSE v[k]]), d + 1)

Edit(kind, item) == [kind |-> kind, item |-> item]

RECURSIVE Backtrack(_, _, _, _, _, _)
Backtrack(old, new, trace, d, x, y) ==
    LET v == trace[d + 1]
        k == x - y
        prev_k == CASE d = 0 -> 0 [] d > 0 /\ GoesDown(v, k, d) -> k + 1 [] OTHER -> k - 1
        prev_x == IF d = 0 THEN 0 ELSE v[prev_k]
        prev_y == prev_x - prev_k
        equal == Min({x - prev_x, y - prev_y})
        tail == [i \in 1..equal |-> Edit("equal", old[x - equal + i])]
    IN IF d = 0 THEN tail
       ELSE (IF x - equal = prev_x
             THEN Append(Backtrack(old, new, trace, d - 1, prev_x, y - equal - 1), Edit("insert", new[y - equal]))
             ELSE Append(Backtrack(old, new, trace, d - 1, x - equal - 1, y - equal), Edit("delete", old[x - equal])))
            \o tail

All(kind, items) == [i \in DOMAIN items |-> Edit(kind, items[i])]

\* myers_char_edits and myers_line_edits.
myers_edits(old, new) ==
    CASE old = <<>> -> All("insert", new)
      [] old # <<>> /\ new = <<>> -> All("delete", old)
      [] OTHER ->
           LET max == Len(old) + Len(new)
               trace == Rounds(old, new, <<[k \in -max..max |-> 0]>>, 0)
           IN Backtrack(old, new, trace, Len(trace) - 1, Len(old), Len(new))

-----------------------------------------------------------------------------
(* From edits to operations: neighbours of one kind are merged.            *)

Op(kind, index, len, text) == [kind |-> kind, index |-> index, len |-> len, text |-> text]

ToOp(acc, edit) ==
    LET w == Width(edit.item)
        last == IF acc.ops = <<>> THEN Op("none", 0, 0, <<>>) ELSE Last(acc.ops)
        merge(op) == [acc.ops EXCEPT ![Len(acc.ops)] = op]
    IN CASE edit.kind = "equal" -> [acc EXCEPT !.at = @ + w]
         [] edit.kind = "delete" ->
              [at |-> acc.at + w,
               ops |-> IF last.kind = "delete" /\ last.index + last.len = acc.at
                       THEN merge([last EXCEPT !.len = @ + w])
                       ELSE Append(acc.ops, Op("delete", acc.at, w, <<>>))]
         [] edit.kind = "insert" ->
              [acc EXCEPT !.ops = IF last.kind = "insert" /\ last.index = acc.at
                                  THEN merge([last EXCEPT !.text = Append(@, edit.item)])
                                  ELSE Append(@, Op("insert", acc.at, 0, <<edit.item>>))]

edits_to_patch_ops(edits) == FoldLeft(ToOp, [at |-> 0, ops |-> <<>>], edits).ops

\* str::split_inclusive('\n'): the lines with their newline.
Lines(text) ==
    LET split(acc, ch) == IF acc # <<>> /\ Last(Last(acc)) # Newline
                          THEN [acc EXCEPT ![Len(acc)] = Append(@, ch)] ELSE Append(acc, <<ch>>)
    IN FoldLeft(split, <<>>, text)

\* Deleted and inserted lines pile up until an equal line, and are then
\* refined by characters.  `start` is the byte offset where the pile began.
Flush(acc) ==
    LET sub == edits_to_patch_ops(myers_edits(acc.old, acc.new))
    IN [acc EXCEPT !.ops = @ \o [i \in DOMAIN sub |-> [sub[i] EXCEPT !.index = @ + acc.start]],
                   !.old = <<>>, !.new = <<>>]

WalkLine(acc, edit) ==
    LET w == utf8_len(edit.item)
        start == IF acc.old = <<>> /\ acc.new = <<>> THEN acc.at ELSE acc.start
    IN CASE edit.kind = "equal"  -> [Flush(acc) EXCEPT !.at = @ + w, !.start = acc.at + w]
         [] edit.kind = "delete" -> [acc EXCEPT !.start = start, !.old = @ \o edit.item, !.at = @ + w]
         [] edit.kind = "insert" -> [acc EXCEPT !.start = start, !.new = @ \o edit.item]

line_then_char_diff(old, new) ==
    LET begin == [ops |-> <<>>, at |-> 0, old |-> <<>>, new |-> <<>>, start |-> 0]
    IN Flush(FoldLeft(WalkLine, begin, myers_edits(Lines(old), Lines(new)))).ops

diff_to_patch_ops(old, new) ==
    CASE old = new -> <<>>
      [] old # new /\ utf8_len(old) + utf8_len(new) < LINE_DIFF_THRESHOLD ->
           edits_to_patch_ops(myers_edits(old, new))
      [] OTHER -> line_then_char_diff(old, new)

-----------------------------------------------------------------------------
(* doc.diff: the longest common subsequence of the lines.                  *)

lcs(from, to) ==
    LET len[i \in 1..Len(from) + 1, j \in 1..Len(to) + 1] ==
            CASE i > Len(from) \/ j > Len(to) -> 0
              [] i <= Len(from) /\ j <= Len(to) /\ from[i] = to[j] -> len[i + 1, j + 1] + 1
              [] OTHER -> Max({len[i + 1, j], len[i, j + 1]})
    IN len

RECURSIVE WalkLcs(_, _, _, _, _)
WalkLcs(from, to, len, i, j) ==
    CASE i > Len(from) -> All("insert", SubSeq(to, j, Len(to)))
      [] i <= Len(from) /\ j > Len(to) -> All("delete", SubSeq(from, i, Len(from)))
      [] i <= Len(from) /\ j <= Len(to) /\ from[i] = to[j] ->
           <<Edit("equal", from[i])>> \o WalkLcs(from, to, len, i + 1, j + 1)
      [] i <= Len(from) /\ j <= Len(to) /\ from[i] # to[j] /\ len[i + 1, j] >= len[i, j + 1] ->
           <<Edit("delete", from[i])>> \o WalkLcs(from, to, len, i + 1, j)
      [] OTHER -> <<Edit("insert", to[j])>> \o WalkLcs(from, to, len, i, j + 1)

diff_markdown_lines(from, to) ==
    IF Len(from) * Len(to) > MAX_LCS_CELLS THEN All("delete", from) \o All("insert", to)
    ELSE WalkLcs(from, to, lcs(from, to), 1, 1)

\* str::split('\n'): a newline at the end begins an empty last line.
split_markdown_lines(text) ==
    LET split(acc, ch) == IF ch = Newline THEN Append(acc, <<>>) ELSE [acc EXCEPT ![Len(acc)] = Append(@, ch)]
    IN IF text = <<>> THEN <<>> ELSE FoldLeft(split, <<(<<>>)>>, text)

\* The edits shown; none for equal texts.
render_markdown_patch(from, to) ==
    IF from = to THEN <<>> ELSE diff_markdown_lines(split_markdown_lines(from), split_markdown_lines(to))

-----------------------------------------------------------------------------
(* Applying the operations.                                                *)
shifted_index(index, by) == index + by

\* remove_range and insert of yrs, at byte offsets.
remove_range(bytes, at, len) == SubSeq(bytes, 1, at) \o SubSeq(bytes, at + len + 1, Len(bytes))

insert_at(bytes, at, text) == SubSeq(bytes, 1, at) \o Bytes(text) \o SubSeq(bytes, at + 1, Len(bytes))

TextsUpTo(n) == UNION {[1..i -> Chars] : i \in 0..n}

DiffInit ==
    /\ oldText \in TextsUpTo(MaxText) /\ newText \in TextsUpTo(MaxText)
    /\ ops = diff_to_patch_ops(oldText, newText)
    /\ ytext = Bytes(oldText)
    /\ offset = 0

apply_patch_op ==
    /\ ops # <<>>
    /\ LET op == Head(ops)
           target == shifted_index(op.index, offset)
       IN \/ /\ op.kind = "delete"
             /\ ytext' = remove_range(ytext, target, op.len)
             /\ offset' = offset - op.len
          \/ /\ op.kind = "insert"
             /\ ytext' = insert_at(ytext, target, op.text)
             /\ offset' = offset + utf8_len(op.text)
    /\ ops' = Tail(ops)
    /\ UNCHANGED <<oldText, newText>>

DiffNext == apply_patch_op

DiffSpec == DiffInit /\ [][DiffNext]_diffVars

-----------------------------------------------------------------------------
(* Properties.                                                             *)

Items(edits, kinds) == LET kept == SelectSeq(edits, LAMBDA e : e.kind \in kinds)
                       IN [i \in DOMAIN kept |-> kept[i].item]

Changes(edits) == Len(SelectSeq(edits, LAMBDA e : e.kind # "equal"))

\* diff_to_patch_ops and apply_patch_ops_to_ytext: once every operation is
\* applied the CRDT text is the new text, byte for byte, whether it was
\* diffed by characters or by lines, with characters of several bytes.
DiffRebuilds == ops = <<>> => ytext = Bytes(newText)

\* myers_char_edits finds as few changes as the longest common subsequence
\* allows, and the patch of doc.diff (diff_markdown_lines) holds both texts:
\* its equal and deleted lines are the old one, its equal and inserted lines
\* the new one, with as few changes as there can be below MAX_LCS_CELLS.
DiffSmallest ==
    LET common(a, b) == lcs(a, b)[1, 1]
        from == split_markdown_lines(oldText)
        to   == split_markdown_lines(newText)
        patch == render_markdown_patch(oldText, newText)
    IN /\ Changes(myers_edits(oldText, newText)) = Len(oldText) + Len(newText) - 2 * common(oldText, newText)
       /\ oldText # newText =>
            /\ Items(patch, {"equal", "delete"}) = from
            /\ Items(patch, {"equal", "insert"}) = to
            /\ Len(from) * Len(to) <= MAX_LCS_CELLS =>
                 Changes(patch) = Len(from) + Len(to) - 2 * common(from, to)

\* A diff rebuilds the new text and is as small as it can be.
DiffSound == DiffRebuilds /\ DiffSmallest
=============================================================================
