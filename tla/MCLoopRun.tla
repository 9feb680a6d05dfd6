----------------------------- MODULE MCLoopRun -----------------------------
(* Families of loops for LoopRun over an index i, a bound n and a scalar s. *)
EXTENDS LoopRun

MCVar == {"i", "n", "s"}

Effects(i, s) == [v \in MCVar |-> IF v = "i" THEN i ELSE IF v = "s" THEN s ELSE <<0>>]

Assigns(i, n) == [v \in MCVar |-> IF v = "i" THEN i ELSE IF v = "n" THEN n ELSE <<>>]

(* A path before the loop that knows the values n and s, or <<>>. *)
Before(state, n, s) ==
  [state |-> state, vals |-> [v \in MCVar |-> IF v = "n" THEN n ELSE IF v = "s" THEN s ELSE <<>>]]

Loop(steps, exits, op) ==
  [steps |-> steps, exits |-> exits, index |-> "i", bound |-> "n", op |-> op, more |-> FALSE,
   bodyFirst |-> FALSE, store |-> {}, search |-> FALSE, uses |-> {"%="}, forks |-> {},
   local |-> {}, init |-> Assigns(<<>>, <<>>), pre |-> <<Before("Step", <<>>, <<>>)>>]

Exit(state, ret, i, s) == [effect |-> Effects(i, s), state |-> state, ret |-> ret]

Ops == {"LT", "LE", "GT", "GE", "NE", "EQ"}
Moves == {<<1>>, <<-1>>, <<2>>, <<-2>>}

(* One path: the index and s by any steps. *)
Simple ==
  {[Loop(<<Effects(i, s)>>, <<>>, op) EXCEPT !.more = m, !.bodyFirst = f, !.uses = a] :
     i \in Moves, s \in {<<0>>, <<1>>, <<-2>>, <<>>}, op \in Ops, m \in BOOLEAN, f \in BOOLEAN, a \in {{}, {"%"}}}

(* Two paths through the body. *)
Branching ==
  {Loop(<<Effects(i, s), Effects(j, t)>>, <<>>, "LT") :
     i \in {<<0>>, <<1>>, <<2>>}, j \in {<<0>>, <<1>>, <<>>},
     s \in {<<0>>, <<1>>, <<>>}, t \in {<<0>>, <<1>>, <<2>>}}

(* One or two exits. *)
Leaving ==
  {[Loop(<<Effects(i, <<1>>)>>, exits, op) EXCEPT !.search = q, !.uses = a] :
     i \in {<<1>>, <<-1>>, <<2>>}, op \in {"LT", "LE", "GT", "NE"}, q \in BOOLEAN, a \in {{"<<="}, {">>"}},
     exits \in {<<Exit("Break", "unknown", <<0>>, s)>> : s \in {<<0>>, <<>>}}
                 \cup {<<Exit("Return", r, <<0>>, <<2>>)>> : r \in {"constant", "unknown"}}
                 \cup {<<Exit("Break", "unknown", <<0>>, <<0>>), Exit("Return", "constant", <<1>>, <<0>>)>>}}

(* Stores, a declaration in init, several paths before the loop. *)
Storing ==
  {[Loop(<<Effects(i, s)>>, exits, op) EXCEPT
      !.store = st, !.local = lo, !.init = in, !.pre = pre] :
     i \in {<<1>>, <<2>>, <<-1>>}, s \in {<<0>>, <<1>>}, op \in {"LT", "LE", "GT"},
     exits \in {<<>>, <<Exit("Return", "constant", <<0>>, <<0>>)>>},
     st \in {{}, {"i"}, {"s"}}, lo \in {{}, {"i"}},
     in \in {Assigns(<<0>>, <<>>), Assigns(<<0>>, <<2>>)},
     pre \in {<<Before("Step", <<>>, <<>>)>>,
              <<Before("Return", <<3>>, <<>>), Before("Step", <<2>>, <<5>>)>>,
              <<Before("Break", <<>>, <<>>), Before("Step", <<2>>, <<5>>), Before("Step", <<3>>, <<5>>)>>}}

(* Where the code gives up: a condition or an init that forks, no active   *)
(* path before the loop, too many paths in it.                             *)
Odd ==
  {[Loop(<<Effects(i, <<1>>)>>, <<>>, "LT") EXCEPT !.forks = f, !.pre = pre] :
     i \in {<<1>>, <<>>}, f \in {{}, {"init"}, {"condition"}},
     pre \in {<<Before("Step", <<>>, <<>>)>>, <<Before("Return", <<>>, <<>>)>>,
              <<Before("Return", <<>>, <<>>), Before("Break", <<>>, <<>>)>>}}
  \cup {Loop([j \in 1..4 |-> Effects(<<1>>, <<j>>)], <<>>, "LT")}

MCLoops == Simple \cup Branching \cup Leaving \cup Storing \cup Odd
MCStarts == {[v \in MCVar |-> IF v = "i" THEN i ELSE IF v = "n" THEN n ELSE 5] : i \in {0, 3}, n \in {0, 2, 3}}
=============================================================================
