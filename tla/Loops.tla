------------------------------- MODULE Loops -------------------------------
(* Transition models of loops over one variable x with four values.        *)
EXTENDS Naturals, Sequences

Values == 0..3
Increment == [x \in Values |-> IF x < 3 THEN x + 1 ELSE x]

Branch(guard, access, next) ==
  [guardDefined |-> Values, guard |-> guard, updatesDefined |-> Values,
   access |-> access, next |-> next, assigns |-> {"x"}]

Loop(machine, pre, cond, branches, post) ==
  [machine |-> machine, precondition |-> pre, conditionDefined |-> Values,
   condition |-> cond, branches |-> branches, postcondition |-> post]

(* while (x < 2) x++; as mathematical and, with the sum of the largest     *)
(* value and one undefined, as machine integers.                           *)
CountUp == Loop(FALSE, {0}, {0, 1}, <<Branch(Values, {}, Increment)>>, {{2}})
CountUpC ==
  [CountUp EXCEPT !.machine = TRUE, !.branches[1].updatesDefined = {0, 1, 2}]

(* while (6 / (3 - x) != 6) if (x == 0) x++; else x = a[x]; with an array  *)
(* a = {3, 2} of length 2.                                                 *)
TwoBranches ==
  [Loop(TRUE, {0, 1}, {0, 1}, <<Branch({0}, {}, Increment),
                                Branch({1, 2, 3}, {{0, 1}}, [x \in Values |-> IF x = 1 THEN 2 ELSE 3])>>, {})
     EXCEPT !.conditionDefined = {0, 1, 2}]

(* while (x < 3) x = a[x]; over mathematical integers, with an array       *)
(* a = {1, 0} of length 2.                                                 *)
Indexed ==
  Loop(FALSE, {0}, {0, 1, 2},
       <<Branch(Values, {{0, 1}}, [x \in Values |-> IF x = 0 THEN 1 ELSE 0])>>, {})

(* A switch with five cases in the loop: the final proof takes all queries *)
(* there are.                                                              *)
Wide == [CountUpC EXCEPT !.branches = [b \in 1..5 |-> CountUpC.branches[1]]]

(* while (x < 2) if (4 / (2 - x) > 1) x++; else x = 0; over C integers.    *)
Guarded ==
  LET branches == <<Branch({0, 1}, {}, Increment), Branch({3}, {}, [x \in Values |-> 0])>>
  IN  Loop(TRUE, {0}, {0, 1},
           [b \in {1, 2} |-> [branches[b] EXCEPT !.guardDefined = {0, 1, 3}]], {{2}})

AllModels    == {CountUp, Indexed, CountUpC, TwoBranches, Guarded, Wide}
=============================================================================
