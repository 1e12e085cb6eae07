---------------------------- MODULE MCScheduling ----------------------------
(* Instances of RunScheduling for TLC. *)
EXTENDS RunScheduling, TLC

CONSTANTS a, b, c, d, b1, b2, p1

Before(x) == CASE x = a -> 1 [] x = b -> 2 [] x = c -> 3 [] x = d -> 4
RankOf == [t \in Task |-> Before(t)]

\* a; b and c after a; d after both.
Diamond == [t \in Task |-> CASE t = a -> {} [] t = d -> {b, c} [] OTHER -> {a}]
\* a and b are roots; c after both.
Meet == [t \in Task |-> IF t = c THEN {a, b} ELSE {}]
\* a and b are roots; c after b, on b's session; d meets a and c.
Braid == [t \in Task |-> CASE t = c -> {b} [] t = d -> {a, c} [] OTHER -> {}]
\* Independent tasks.
Roots == [t \in Task |-> {}]
\* Three roots met by d.
Fan == [t \in Task |-> IF t = d THEN {a, b, c} ELSE {}]

WorkMoves == {<<"pending", "in_progress">>, <<"in_progress", "completed">>}
WorkOrFail == WorkMoves \cup {<<"in_progress", "failed">>}
Finish == {<<"in_progress", "completed">>}

Branches == Permutations(Branch)
=============================================================================
