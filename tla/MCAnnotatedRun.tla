--------------------------- MODULE MCAnnotatedRun ---------------------------
(* Instances of AnnotatedRun: the loops of Loops, clauses that bound x,    *)
(* and one that says nothing about it.                                     *)
EXTENDS AnnotatedRun, Loops, TLC

TheHolds ==
  "x <= 2" :> {0, 1, 2} @@ "x != 3" :> {0, 1, 2} @@ "x <= 1" :> {0, 1}
    @@ "x >= 1" :> {1, 2, 3} @@ "y == old y" :> Values
TheClauses == DOMAIN TheHolds
TheSizes == [c \in TheClauses |-> IF c = "x != 3" THEN 5 ELSE 3]
TheMentions == [c \in TheClauses |-> IF c = "y == old y" THEN {"y"} ELSE {"x"}]

(* Answers with nothing, one, two or too many clauses, in either order.    *)
TheAnswers ==
  {<<>>, <<"x <= 2">>, <<"x <= 1">>, <<"y == old y">>, <<"x != 3", "x <= 2">>,
   <<"x <= 1", "x >= 1">>, <<"x >= 1", "x != 3">>, <<"x >= 1", "y == old y", "x <= 1">>,
   <<"x <= 1", "x >= 1", "x <= 2", "x != 3">>}
SomeClauses ==
  {<<>>, <<"x <= 1", "x >= 1", "x <= 1">>, <<"x <= 2", "x <= 1", "x >= 1", "y == old y">>}
=============================================================================
