--------------------------- MODULE MCRecurrences ---------------------------
(* Loops over ints of 3 bits (-4..3), unsigned ints of 3 bits (0..7) and a *)
(* short of 2 bits, each with one feature that extraction, discovery or    *)
(* verification tells apart.                                               *)
EXTENDS Recurrences

MCWidth == <<1, 2, 3, 4>>
I == SInt(3)
U == UInt(3)
S == SInt(2)

Ints == {"i", "j", "n", "k", "m", "q", "r", "a1", "a2"}
MCTyped == [l \in {<<v>> : v \in Ints \cup {"u", "v", "s"}} |->
              CASE l \in {<<"u">>, <<"v">>} -> U [] l = <<"s">> -> S [] OTHER -> I]

V(x)    == CRef(<<x>>)
L(n)    == CLit(I, n)
Set(x, e) == Implicit(e, MCTyped[<<x>>])
Plus(x, n) == Set(x, Combine(V(x), IF n < 0 THEN "-" ELSE "+", L(Abs(n))))

Path(conds, next) == [conds |-> conds, next |-> next, access |-> <<>>, unknown |-> FALSE]
When(e, holds) == [e |-> e, holds |-> holds]

(* A while loop over two variables that has one path. *)
While(names, entry, cond, next) ==
  [vars |-> names, entry |-> entry, known |-> {}, cond |-> cond, kind |-> "while",
   step |-> [i \in DOMAIN names |-> 0], paths |-> <<Path(<<>>, next)>>]

IJ == <<"i", "j">>
UV == <<"u", "v">>

Lockstep  == While(IJ, <<L(0), L(0)>>, Combine(V("i"), "<", L(3)), <<Plus("i", 1), Plus("j", 1)>>)
Ascending == [Lockstep EXCEPT !.step = <<1, 0>>]
Bounded   == While(<<"i", "j", "n">>, <<L(0), L(1), V("n")>>, Combine(V("i"), "<", V("n")),
                   <<Plus("i", 1), Plus("j", 1), V("n")>>)
Meeting   == While(IJ, <<V("i"), V("j")>>, Combine(V("i"), "<", V("j")), <<Plus("i", 1), Plus("j", -1)>>)
Branching ==
  [Meeting EXCEPT !.paths = <<Path(<<When(Combine(V("i"), "<", L(0)), TRUE)>>, <<Plus("i", 1), Plus("j", -1)>>),
                              Path(<<When(Combine(V("i"), "<", L(0)), FALSE)>>, <<Plus("i", 2), Plus("j", -2)>>)>>]
Crossing  ==
  [Meeting EXCEPT !.paths = <<Path(<<When(Combine(V("i"), "<", L(0)), TRUE)>>, <<Plus("i", 1), Plus("j", -1)>>),
                              Path(<<When(Combine(V("i"), "<", L(0)), FALSE)>>, <<Plus("i", 1), Plus("j", -2)>>)>>]
Swapping  == While(IJ, <<V("i"), V("j")>>, Combine(V("i"), "<", V("j")), <<V("j"), V("i")>>)
Wrapping  == While(UV, <<V("u"), L(0)>>, Combine(V("u"), "!=", L(5)), <<Plus("u", 1), Plus("v", 1)>>)
Turning   == [Wrapping EXCEPT !.entry = <<Set("u", L(6)), Set("v", L(0))>>]
Starting  == [Wrapping EXCEPT !.entry = <<V("u"), Set("v", L(0))>>]
Matched   == [Wrapping EXCEPT !.entry = <<V("u"), V("u")>>, !.vars = UV]
Doubling  == While(IJ, <<L(0), L(0)>>, Combine(V("i"), "<", L(1)),
                   <<Combine(V("i"), "+", V("i")), Combine(L(2), "*", V("j"))>>)
Square    == [Lockstep EXCEPT !.paths = <<Path(<<>>, <<Plus("i", 1), Combine(V("j"), "*", V("j"))>>)>>]
Halving   == [Lockstep EXCEPT !.paths = <<Path(<<>>, <<Plus("i", 1), Combine(V("j"), "/", L(2))>>)>>]
Narrow    == While(<<"i", "s">>, <<L(0), Set("s", L(0))>>, Combine(V("i"), "<", L(1)), <<Plus("i", 1), Plus("s", 1)>>)
Unread    == [Lockstep EXCEPT !.paths = <<[Path(<<>>, <<Plus("i", 1), Plus("j", 1)>>) EXCEPT !.unknown = TRUE]>>]
Indexing(extent) ==
  [Lockstep EXCEPT !.paths = <<[Path(<<>>, <<Plus("i", 1), Plus("j", 1)>>) EXCEPT
                                  !.access = <<[index |-> V("i"), extent |-> extent]>>]>>]
Many      == [Lockstep EXCEPT !.paths = [p \in 1..4 |-> Path(<<When(Combine(V("i"), "==", L(p - 1)), TRUE)>>,
                                                             <<Plus("i", 1), Plus("j", 1)>>)]]
TooMany   == [Lockstep EXCEPT !.paths = [p \in 1..17 |-> Path(<<>>, <<Plus("i", 1), Plus("j", 1)>>)]]
Wide_(n)  ==
  LET names == SubSeq(<<"i", "j", "n", "k", "m", "q", "r", "a1", "a2">>, 1, n)
  IN While(names, [x \in 1..n |-> L(0)], Combine(V("i"), "<", L(3)), [x \in 1..n |-> Plus(names[x], 1)])
Knowing   == [Meeting EXCEPT !.known = {Combine(V("i"), "==", V("j"))}, !.cond = Combine(V("i"), "<", L(3)),
                             !.paths = <<Path(<<>>, <<Plus("i", 1), Plus("j", 1)>>)>>]
Converted == [Wrapping EXCEPT !.entry = <<CCast(V("s"), U, "implicit"), Set("v", L(0))>>, !.vars = <<"u", "v", "s">>,
                              !.entry = <<CCast(V("s"), U, "implicit"), Set("v", L(0)), V("s")>>, !.step = <<0, 0, 0>>,
                              !.paths = <<Path(<<>>, <<Plus("u", 1), Plus("v", 1), V("s")>>)>>]

MCLoops ==
  {Lockstep, Ascending, Bounded, Meeting, Branching, Crossing, Swapping, Turning, Starting, Matched, Doubling, Square,
   Halving, Narrow, Unread, Indexing(3), Indexing(2), Many, TooMany, Wide_(4), Wide_(5), Wide_(9), Knowing, Converted}

(* A loop that tests its condition behind its body, and one whose entry is *)
(* computed and may wrap.                                                  *)
Late     == [Turning EXCEPT !.kind = "do", !.entry = <<Set("u", L(7)), Set("v", L(0))>>,
                            !.cond = Combine(V("u"), "<", L(2))]
Computed == [Starting EXCEPT !.entry = <<Plus("u", 1), Set("v", L(0))>>, !.cond = Combine(V("u"), "<", L(3))]
MCOddLoops == {Late, Computed}
=============================================================================
