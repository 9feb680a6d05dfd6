---------------------------- MODULE MCArrayLoop ----------------------------
(* Families of loops over an array of three elements. *)
EXTENDS ArrayLoop

MCDecl == {"i", "n", "m", "y", "key", "it", "outer"}

(* outer: a variable that another one of the same name hides. *)
MCNameOf == [d \in MCDecl |-> IF d = "outer" THEN "y" ELSE d]

Scalars == {"i", "n", "m", "y"}

Plain ==
  [step |-> 1, itStep |-> 1, op |-> "LT", ifs |-> <<>>, exit |-> <<>>, writes |-> {}, yStep |-> <<0>>,
   declared |-> Scalars, update |-> Var("y"), constants |-> {}, affine |-> FALSE]

Updating(l, t) == [l EXCEPT !.update = t, !.yStep = StepOf("y", t)]

KeepIf(left, op) ==
  [left |-> left, op |-> op, form |-> "p[i]", then |-> "element", else |-> "none",
   local |-> FALSE, guarded |-> FALSE]

(* if (m < p[i]) m = p[i]; and what is like it. *)
Extrema ==
  LET ifs  == {KeepIf(left, op) : left \in {"m", "element"}, op \in {"LT", "LE", "GT", "GE"}}
      loop1(s) == [Plain EXCEPT !.ifs = <<s>>]
      max  == KeepIf("m", "LT")
  IN  {loop1(s) : s \in ifs}
        \cup {loop1([max EXCEPT !.then = t, !.else = e]) :
                t \in {"element", "stale", "constant", "kept"}, e \in {"kept", "constant"}}
        \cup {loop1([max EXCEPT !.local = TRUE]), loop1([max EXCEPT !.guarded = TRUE]),
              loop1([max EXCEPT !.form = "*(p+i)"])}
        \cup {[Plain EXCEPT !.ifs = <<[max EXCEPT !.form = "*it"]>>, !.itStep = k,
                            !.declared = @ \cup {"it"}] : k \in {1, 2}}
        \cup {[Plain EXCEPT !.ifs = <<s>>, !.step = k, !.op = op] :
                s \in {max, KeepIf("element", "GE")}, k \in {1, 2}, op \in {"LE", "NE"}}
        \cup {[Plain EXCEPT !.ifs = <<max>>, !.step = -1, !.op = op] : op \in {"GT", "GE"}}
        \cup {[Plain EXCEPT !.ifs = <<max>>, !.writes = w] : w \in {{"m"}, {"array"}}}
        \cup {[Plain EXCEPT !.ifs = <<max, KeepIf("m", "GT")>>],
              [Plain EXCEPT !.ifs = <<max>>, !.exit = <<"i", "key">>, !.declared = @ \cup {"key"}]}

(* if (p[i] == key) break; and what is like it. *)
Searches ==
  LET search == [Plain EXCEPT !.exit = <<"i", "key">>, !.declared = @ \cup {"key"}]
  IN  {[search EXCEPT !.step = 1, !.op = op] : op \in {"LT", "LE", "NE"}}
        \cup {[search EXCEPT !.step = 2], [search EXCEPT !.step = -1, !.op = "GE"]}
        \cup {[search EXCEPT !.writes = {w}] : w \in {"m", "array"}}
        \cup {Updating([search EXCEPT !.exit = <<at2, of>>], Op("+", Var("y"), Lit(k))) :
                at2 \in {"i", "y"}, of \in {"key", "y", "m"}, k \in {1, 2, -1}}
        \cup {[search EXCEPT !.exit = <<"i", "m">>, !.ifs = <<KeepIf("m", "GT")>>]}

(* y = ...; the last one: y = &y[1];                                      *)
Updates ==
  {Lit(1), Op("+", Var("y"), Var("i")), Op("-", Var("n"), Var("y")), Op("*", Var("y"), Lit(2)),
   Op("-", Op("*", Lit(3), Var("i")), Lit(1)), Op("/", Var("y"), Lit(2)),
   Op("/", Op("+", Var("i"), Lit(3)), Lit(2)), Cast("i", TRUE), Cast("i", FALSE),
   Op("+", Read, Var("i")), Address("y", 1)}

Affine ==
  {Updating([Plain EXCEPT !.affine = TRUE, !.op = op, !.step = k, !.constants = c], t) :
     op \in {"LT", "LE"}, k \in {1, 2}, c \in {{}, {"y"}}, t \in Updates}
    \cup {Updating([Plain EXCEPT !.affine = TRUE, !.declared = @ \cup {"outer"}], Op("+", Var("y"), Lit(1)))}

MCLoops == Extrema \cup Searches \cup Affine

Start(l, i, n, m, y) ==
  [d \in l.declared |->
     CASE d \in {"i", "it"} -> i [] d = "n" -> n [] d = "m" -> m [] d \in {"y", "outer"} -> y [] d = "key" -> 1]

MCStarts(l) ==
  IF l.affine THEN {Start(l, 0, n, 1, y) : n \in 0..2, y \in {0, 3}}
  ELSE {Start(l, i, n, m, y) : i \in IF l.step > 0 THEN {0, 1} ELSE {2}, n \in IF l.step > 0 THEN {0, 1, 3} ELSE {0},
                               m \in 0..2, y \in IF l.exit = <<>> THEN {0} ELSE {0, 2}}

(* Rising, falling, with the extremum inside, with and without equal ones. *)
MCArrays(l) ==
  LET of(x, y, z) == 0 :> x @@ 1 :> y @@ 2 :> z
  IN  IF l.affine THEN {of(0, 1, 2)}
      ELSE {of(0, 1, 2), of(2, 1, 0), of(1, 2, 0), of(1, 0, 2), of(1, 1, 1)}

(* Small constraints that are true of the exit. *)
Candidates(names) ==
  {[kind |-> kind, f |-> Form((<<"i", "now">> :> b) @@ (<<"y", "now">> :> c) @@ (<<"y", "entry">> :> e), k)] :
     kind \in {"equality", "inequality"}, b \in {-1, 0, 2}, c \in {0, 1, 2}, e \in {0, -1}, k \in {-3, -1, 0, 2}}

MCAnswer(l, point, names) ==
  LET ofN  == {Equality(Form((<<"i", "now">> :> 1) @@ (<<"n", "entry">> :> -1), k)) : k \in -1..0}
      true == {c \in Candidates(names) : Sat(c, point)}
  IN  {<<c, d>> : c \in true, d \in {e \in ofN : Sat(e, point)}}
        \cup {<<c, d>> : c \in {e \in true : e.f.k = 0}, d \in {e \in true : e.kind = "equality"}}
=============================================================================
