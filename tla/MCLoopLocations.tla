-------------------------- MODULE MCLoopLocations --------------------------
(* Loops over a counter and a flag. *)
EXTENDS LoopLocations

Points == {<<i, b>> : i \in 0..3, b \in 0..1}

(* The states between the least and the greatest counter. *)
Box(S) ==
  {p \in Points : /\ \E q \in S : q[1] <= p[1]
                  /\ \E q \in S : p[1] <= q[1]
                  /\ \E q \in S : p[2] = q[2]}

Where(P(_, _)) == {p \in Points : P(p[1], p[2])}

Plain(S, f) == [sat |-> S, kept |-> S, form |-> f]

Below(n) == Plain(Where(LAMBDA i, b : i < n), "inequality")
IsSet    == Plain(Where(LAMBDA i, b : b = 1), "inequality")
IsClear  == Plain(Where(LAMBDA i, b : b = 0), "equality")
Odd      == Plain(Where(LAMBDA i, b : i % 2 = 1), "nonlinear")
NotTwo   == Plain(Where(LAMBDA i, b : i # 2), "lost")
UpToTwo  == [sat |-> NotTwo.sat, kept |-> Below(2).sat, form |-> "directed"]

All(atoms)    == [neg |-> FALSE, atoms |-> atoms]
NotAll(atoms) == [neg |-> TRUE, atoms |-> atoms]

Step(f(_, _)) == [p \in Points |-> LET q == f(p[1], p[2]) IN IF q[1] > 3 THEN <<3, q[2]>> ELSE q]

Exactly(conds, f) == [conds |-> conds, next |-> f, to |-> [p \in Points |-> {f[p]}]]

(* The flag is not expressed. *)
Roughly(conds, f) ==
  [conds |-> conds, next |-> f, to |-> [p \in Points |-> {<<f[p][1], 0>>, <<f[p][1], 1>>}]]

Inc  == Step(LAMBDA i, b : <<i + 1, b>>)
Flip == Step(LAMBDA i, b : <<i + 1, 1 - b>>)
Set  == Step(LAMBDA i, b : <<i, 1>>)
Stay == Step(LAMBDA i, b : <<i, b>>)

Tests == {<<IsSet>>, <<IsClear>>, <<Odd>>, <<NotTwo>>, <<IsSet, NotTwo>>, <<Below(2), Odd>>}

Bodies(c) ==
  {<< <<Exactly(<<>>, Inc)>>, 1>>, << <<Roughly(<<>>, Flip)>>, 1>>,
   << <<Exactly(<<All(c)>>, Inc), Exactly(<<NotAll(c)>>, Flip)>>, 2>>,
   << <<Exactly(<<NotAll(c)>>, Flip), Exactly(<<All(c)>>, Set)>>, 1>>,
   << <<Exactly(<<NotAll(c)>>, Inc), Exactly(<<All(c), All(<<Below(2)>>)>>, Stay),
        Roughly(<<All(c), NotAll(<<Below(2)>>)>>, Set)>>, 1>>}

Conditions ==
  {All(<<Below(3)>>), All(<<Below(2), IsSet>>), All(<<NotTwo>>), All(<<UpToTwo>>), All(<<IsClear>>),
   All(<<Odd>>), All(<<Below(3), NotTwo>>), NotAll(<<IsSet>>), NotAll(<<Odd, NotTwo>>), All(<<>>)}

Entries == {{<<0, 0>>}, {<<0, 1>>, <<1, 0>>}, Where(LAMBDA i, b : b = 0)}

TheLoops ==
  {[init |-> e, cond |-> c, paths |-> body[1], normal |-> body[2]] :
     e \in Entries, c \in Conditions, body \in UNION {Bodies(t) : t \in Tests}}

(* for (i = 0; i < 2; ++i) {} *)
Counting == {[init |-> {<<0, 0>>}, cond |-> All(<<Below(2)>>), paths |-> <<Exactly(<<>>, Inc)>>, normal |-> 1]}
=============================================================================
