---------------------------- MODULE SequencedLog ----------------------------
(***************************************************************************)
(* What the relay promises about one document, without connections,        *)
(* sessions or channels (SPEC.md, "Consistency Model"): every update gets  *)
(* one sequence number above all earlier ones, keeps it, and everything a  *)
(* reader is told or shown is an update that has its number.  Gaps between *)
(* numbers are allowed.                                                    *)
(***************************************************************************)
EXTENDS Naturals

CONSTANTS Updates, Readers

VARIABLES
    order,   \* update -> its sequence number, 0 while it has none
    told,    \* <<update, number>> pairs acknowledged to a writer
    seen     \* reader -> the sequence numbers shown to it

vars == <<order, told, seen>>

Init ==
    /\ order = [u \in Updates |-> 0]
    /\ told = {}
    /\ seen = [r \in Readers |-> {}]

Sequence(u) ==
    /\ order[u] = 0
    /\ order'[u] \in Nat
    /\ \A v \in Updates : order[v] < order'[u]
    /\ order' = [order EXCEPT ![u] = order'[u]]
    /\ UNCHANGED <<told, seen>>

Tell(u) ==
    /\ order[u] # 0
    /\ told' = told \cup {<<u, order[u]>>}
    /\ UNCHANGED <<order, seen>>

Sequenced == {order[u] : u \in Updates} \ {0}

Show(r, S) ==
    /\ S \subseteq Sequenced
    /\ seen' = [seen EXCEPT ![r] = @ \cup S]
    /\ UNCHANGED <<order, told>>

Next ==
    \/ \E u \in Updates : Sequence(u)
    \/ \E u \in Updates : Tell(u)
    \/ \E r \in Readers : \E S \in SUBSET Sequenced : Show(r, S)

Spec == Init /\ [][Next]_vars
=============================================================================
