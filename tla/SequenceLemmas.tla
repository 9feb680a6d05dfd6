----------------------------- MODULE SequenceLemmas --------------------------
(***************************************************************************)
(* Sequences and lists of sequences, as the analyzer's vectors of paths    *)
(* use them, and induction over the naturals, for the proofs of the other  *)
(* modules.                                                                *)
(***************************************************************************)
EXTENDS Naturals, Sequences, SequencesExt, WellFoundedInduction, TLAPS

(* s is a sequence of some set: DOMAIN s is 1 .. Len(s). *)
IsSeq(s) == Len(s) \in Nat /\ s = [k \in 1 .. Len(s) |-> s[k]]

LessThan == {ss \in Nat \X Nat : ss[1] < ss[2]}

(* LessThan is the relation of which the library says that it is well      *)
(* founded.                                                                *)
LEMMA LessThanIs == LessThan = OpToRel(<, Nat)
BY Zenon DEF LessThan, OpToRel

(* A set of naturals that is not empty has a least member. *)
LEMMA LeastNumber ==
  ASSUME NEW T \in SUBSET Nat, T # {}
  PROVE  \E x \in T : \A y \in T : x <= y
<1>1. IsWellFoundedOn(LessThan, Nat)
  BY LessThanIs, NatLessThanWellFounded, Zenon
<1>2. PICK x \in T : \A y \in T : ~ (<<y, x>> \in LessThan)
  BY <1>1, WFMin
<1>3. ASSUME NEW y \in T PROVE x <= y
  <2>1. x \in Nat /\ y \in Nat OBVIOUS
  <2>2. y < x => <<y, x>> \in LessThan
    BY <2>1 DEF LessThan
  <2> QED BY <2>1, <2>2, <1>2
<1> QED BY <1>3

(* Induction over the naturals, stated of a set. *)
LEMMA Induction ==
  ASSUME NEW S \in SUBSET Nat, 0 \in S, \A n \in S : n + 1 \in S
  PROVE  S = Nat
<1> DEFINE T == Nat \ S
<1> SUFFICES ASSUME T # {} PROVE FALSE OBVIOUS
<1>1. PICK x \in T : \A y \in T : x <= y
  BY LeastNumber
<1>2. x # 0 /\ x - 1 \in Nat /\ x - 1 \notin T
  BY <1>1
<1>3. (x - 1) + 1 = x BY <1>2
<1> QED BY <1>2, <1>3

LEMMA SeqIs ==
  ASSUME NEW s
  PROVE  IsSeq(s) <=> \E S : s \in Seq(S)
<1>1. ASSUME NEW S, s \in Seq(S) PROVE IsSeq(s)
  BY <1>1 DEF IsSeq
<1>2. ASSUME IsSeq(s) PROVE s \in Seq({s[k] : k \in 1 .. Len(s)})
  BY <1>2 DEF IsSeq
<1> QED BY <1>1, <1>2

(* A function on 1 .. n is a sequence. *)
LEMMA FunctionIsSeq ==
  ASSUME NEW n \in Nat, NEW s, s = [k \in 1 .. n |-> s[k]]
  PROVE  IsSeq(s) /\ Len(s) = n /\ DOMAIN s = 1 .. n
<1>1. s \in Seq({s[k] : k \in 1 .. n})
  OBVIOUS
<1> QED BY <1>1, SeqIs

LEMMA SingletonIsSeq ==
  ASSUME NEW x
  PROVE  IsSeq(<<x>>) /\ Len(<<x>>) = 1 /\ DOMAIN <<x>> = {1} /\ <<x>>[1] = x
BY DEF IsSeq

LEMMA EmptyIsSeq == IsSeq(<<>>) /\ Len(<<>>) = 0 /\ DOMAIN <<>> = {}
BY DEF IsSeq

(* What a concatenation holds and where. *)
LEMMA Concatenation ==
  ASSUME NEW s, NEW t, IsSeq(s), IsSeq(t)
  PROVE  /\ IsSeq(s \o t)
         /\ Len(s \o t) = Len(s) + Len(t)
         /\ DOMAIN (s \o t) = 1 .. Len(s) + Len(t)
         /\ \A k \in DOMAIN s : k \in DOMAIN (s \o t) /\ (s \o t)[k] = s[k]
         /\ \A k \in DOMAIN t : k + Len(s) \in DOMAIN (s \o t) /\ (s \o t)[k + Len(s)] = t[k]
         /\ \A k \in DOMAIN (s \o t) : \/ k \in DOMAIN s
                                       \/ k - Len(s) \in DOMAIN t /\ (s \o t)[k] = t[k - Len(s)]
<1>1. PICK S : s \in Seq(S) BY SeqIs
<1>2. PICK T : t \in Seq(T) BY SeqIs
<1>3. s \in Seq(S \cup T) /\ t \in Seq(S \cup T)
  BY <1>1, <1>2
<1>4. s \o t \in Seq(S \cup T)
  BY <1>3
<1>5. IsSeq(s \o t)
  BY <1>4, SeqIs
<1> QED BY <1>3, <1>5 DEF IsSeq

(* u is s followed by t. *)
Joined(u, s, t) ==
  /\ IsSeq(u) /\ Len(u) = Len(s) + Len(t)
  /\ \A k \in DOMAIN s : k \in DOMAIN u /\ u[k] = s[k]
  /\ \A k \in DOMAIN t : k + Len(s) \in DOMAIN u /\ u[k + Len(s)] = t[k]
  /\ \A k \in DOMAIN u : k \in DOMAIN s \/ (k - Len(s) \in DOMAIN t /\ u[k] = t[k - Len(s)])

LEMMA ConcatenationJoins ==
  ASSUME NEW s, NEW t, IsSeq(s), IsSeq(t)
  PROVE  Joined(s \o t, s, t)
<1> DEFINE u == s \o t
<1>1. IsSeq(u) /\ Len(u) = Len(s) + Len(t) BY Concatenation
<1>2. \A k \in DOMAIN s : k \in DOMAIN u /\ u[k] = s[k] BY Concatenation
<1>3. \A k \in DOMAIN t : k + Len(s) \in DOMAIN u /\ u[k + Len(s)] = t[k] BY Concatenation
<1>4. \A k \in DOMAIN u : k \in DOMAIN s \/ (k - Len(s) \in DOMAIN t /\ u[k] = t[k - Len(s)])
  BY Concatenation
<1> HIDE DEF u
<1>5. Joined(u, s, t) BY <1>1, <1>2, <1>3, <1>4 DEF Joined
<1> QED BY <1>5 DEF u

LEMMA PairIsConcatenation ==
  ASSUME NEW x, NEW y
  PROVE  <<x>> \o <<y>> = <<x, y>>
<1> DEFINE s == <<x>> \o <<y>>
           t == <<x, y>>
<1>1. <<x>> \in Seq({x, y}) /\ <<y>> \in Seq({x, y}) /\ t \in Seq({x, y})
  OBVIOUS
<1>2. s \in Seq({x, y}) /\ Len(s) = 2 /\ s[1] = x /\ s[2] = y
  BY <1>1
<1>3. Len(t) = 2 /\ t[1] = x /\ t[2] = y
  OBVIOUS
<1> HIDE DEF s, t
<1>4. s = [k \in 1 .. 2 |-> s[k]] /\ t = [k \in 1 .. 2 |-> t[k]]
  BY <1>1, <1>2, <1>3
<1>5. \A k \in 1 .. 2 : s[k] = t[k]
  BY <1>2, <1>3
<1>6. s = t BY <1>4, <1>5
<1> QED BY <1>6 DEF s, t

LEMMA ConcatenationWithEmpty ==
  ASSUME NEW s, IsSeq(s)
  PROVE  <<>> \o s = s /\ s \o <<>> = s
<1>1. PICK S : s \in Seq(S) BY SeqIs
<1> QED BY <1>1

LEMMA HeadAndTail ==
  ASSUME NEW s, IsSeq(s), s # <<>>
  PROVE  /\ s = <<Head(s)>> \o Tail(s)
         /\ IsSeq(Tail(s))
         /\ 1 \in DOMAIN s /\ Head(s) = s[1]
         /\ \A k \in DOMAIN Tail(s) : k + 1 \in DOMAIN s /\ Tail(s)[k] = s[k + 1]
<1>1. PICK S : s \in Seq(S) BY SeqIs
<1>2. Tail(s) \in Seq(S) /\ Len(s) \in Nat /\ Len(s) # 0 BY <1>1
<1>3. IsSeq(Tail(s)) BY <1>2, SeqIs
<1> QED BY <1>1, <1>2, <1>3 DEF IsSeq

(* FlattenSeq(ss) is the last value of the function it is defined by; that *)
(* such a function exists is shown by induction.                           *)
LEMMA Flatten ==
  ASSUME NEW ss, IsSeq(ss), Len(ss) # 0
  PROVE  \E f : /\ f = [i \in 1 .. Len(ss) |-> IF i = 1 THEN ss[i] ELSE f[i - 1] \o ss[i]]
                /\ FlattenSeq(ss) = f[Len(ss)]
<1> DEFINE Def(f, n) == f = [i \in 1 .. n |-> IF i = 1 THEN ss[i] ELSE f[i - 1] \o ss[i]]
           S == {n \in Nat : \E f : Def(f, n)}
<1>1. 0 \in S
  <2>1. Def([i \in 1 .. 0 |-> ss[1]], 0) OBVIOUS
  <2> QED BY <2>1
<1>2. ASSUME NEW n \in S PROVE n + 1 \in S
  <2>1. PICK f : Def(f, n) OBVIOUS
  <2> DEFINE g == [i \in 1 .. n + 1 |-> IF i = n + 1 THEN (IF i = 1 THEN ss[i] ELSE f[n] \o ss[i]) ELSE f[i]]
  <2>2. ASSUME NEW i \in 1 .. n + 1 PROVE g[i] = IF i = 1 THEN ss[i] ELSE g[i - 1] \o ss[i]
    <3>1. CASE i = n + 1 BY <3>1
    <3>2. CASE i # n + 1
      <4>1. i \in 1 .. n BY <3>2
      <4>2. f[i] = IF i = 1 THEN ss[i] ELSE f[i - 1] \o ss[i] BY <4>1, <2>1
      <4>3. g[i] = f[i] BY <3>2
      <4>4. i # 1 => g[i - 1] = f[i - 1] BY <4>1
      <4> QED BY <4>2, <4>3, <4>4
    <3> QED BY <3>1, <3>2
  <2>3. Def(g, n + 1) BY <2>2
  <2> HIDE DEF g
  <2>4. \E f1 : Def(f1, n + 1) BY <2>3
  <2> HIDE DEF Def
  <2>5. n + 1 \in Nat OBVIOUS
  <2> QED BY <2>4, <2>5
<1>3. Len(ss) \in S
  <2> HIDE DEF S
  <2> S \in SUBSET Nat BY DEF S
  <2> QED BY <1>1, <1>2, Induction DEF IsSeq
<1>4. PICK f : Def(f, Len(ss)) BY <1>3
<1> DEFINE F == CHOOSE f1 : f1 = [i \in 1 .. Len(ss) |-> IF i = 1 THEN ss[i] ELSE f1[i - 1] \o ss[i]]
<1>5. Def(F, Len(ss)) BY <1>4
<1>6. FlattenSeq(ss) = F[Len(ss)] BY DEF FlattenSeq
<1> QED BY <1>5, <1>6

(* Induction up to a bound. *)
LEMMA InductionUpTo ==
  ASSUME NEW n \in Nat, NEW S,
         1 \in S, \A k \in 1 .. n - 1 : k \in S => k + 1 \in S
  PROVE  \A k \in 1 .. n : k \in S
<1> DEFINE T == {k \in Nat : k + 1 \in 1 .. n => k + 1 \in S}
<1>1. 0 \in T
  OBVIOUS
<1>2. ASSUME NEW k \in T PROVE k + 1 \in T
  <2>1. CASE (k + 1) + 1 \in 1 .. n
    <3>1. k + 1 \in 1 .. n - 1 BY <2>1
    <3>2. k + 1 \in S BY <3>1
    <3> QED BY <3>1, <3>2
  <2>2. CASE (k + 1) + 1 \notin 1 .. n BY <2>2
  <2> QED BY <2>1, <2>2
<1>3. T = Nat
  <2> T \in SUBSET Nat OBVIOUS
  <2> HIDE DEF T
  <2> QED BY <1>1, <1>2, Induction
<1>4. ASSUME NEW k \in 1 .. n PROVE k \in S
  <2>1. k - 1 \in Nat /\ (k - 1) + 1 = k OBVIOUS
  <2>2. k - 1 \in T BY <2>1, <1>3
  <2> QED BY <2>1, <2>2
<1> QED BY <1>4

(* What is in a flattened sequence is in one of its members. *)
LEMMA FlattenMembers ==
  ASSUME NEW ss, IsSeq(ss), \A k \in DOMAIN ss : IsSeq(ss[k])
  PROVE  /\ IsSeq(FlattenSeq(ss))
         /\ \A j \in DOMAIN FlattenSeq(ss) :
              \E k \in DOMAIN ss : \E l \in DOMAIN ss[k] : FlattenSeq(ss)[j] = ss[k][l]
<1>1. CASE Len(ss) = 0
  <2>1. FlattenSeq(ss) = ss BY <1>1 DEF FlattenSeq
  <2>2. DOMAIN ss = {} BY <1>1 DEF IsSeq
  <2> QED BY <2>1, <2>2
<1>2. CASE Len(ss) # 0
  <2>1. PICK f : /\ f = [i \in 1 .. Len(ss) |-> IF i = 1 THEN ss[i] ELSE f[i - 1] \o ss[i]]
                 /\ FlattenSeq(ss) = f[Len(ss)]
    BY <1>2, Flatten
  <2> DEFINE Facts(n) == /\ IsSeq(f[n])
                         /\ \A j \in DOMAIN f[n] :
                              \E k \in DOMAIN ss : \E l \in DOMAIN ss[k] : f[n][j] = ss[k][l]
             S == {n \in 1 .. Len(ss) : Facts(n)}
  <2>2. DOMAIN ss = 1 .. Len(ss) /\ Len(ss) \in Nat BY DEF IsSeq
  <2>3. 1 \in S
    <3>1. f[1] = ss[1] BY <2>1, <2>2, <1>2
    <3>2. 1 \in DOMAIN ss BY <2>2, <1>2
    <3> QED BY <3>1, <3>2, <2>2
  <2>4. ASSUME NEW n \in 1 .. Len(ss) - 1, n \in S PROVE n + 1 \in S
    <3>1. n + 1 \in DOMAIN ss /\ n + 1 # 1 /\ (n + 1) - 1 = n BY <2>2
    <3>2. f[n + 1] = f[n] \o ss[n + 1] BY <2>1, <3>1, <2>2
    <3>3. IsSeq(f[n]) /\ IsSeq(ss[n + 1]) BY <3>1, <2>4
    <3>4. IsSeq(f[n + 1]) BY <3>2, <3>3, Concatenation
    <3>5. ASSUME NEW j \in DOMAIN f[n + 1]
          PROVE  \E k \in DOMAIN ss : \E l \in DOMAIN ss[k] : f[n + 1][j] = ss[k][l]
      <4> DEFINE a == f[n]
                 b == ss[n + 1]
      <4>0. IsSeq(a) /\ IsSeq(b) /\ j \in DOMAIN (a \o b) BY <3>2, <3>3
      <4>1. Facts(n) BY <2>4
      <4>2. f[n + 1] = a \o b BY <3>2
      <4> HIDE DEF a, b
      <4>3. \/ j \in DOMAIN a /\ (a \o b)[j] = a[j]
            \/ j - Len(a) \in DOMAIN b /\ (a \o b)[j] = b[j - Len(a)]
        BY <4>0, Concatenation
      <4>4. CASE j \in DOMAIN a /\ (a \o b)[j] = a[j]
        BY <4>4, <4>1, <4>2 DEF a
      <4>5. CASE j - Len(a) \in DOMAIN b /\ (a \o b)[j] = b[j - Len(a)]
        BY <4>5, <4>2, <3>1 DEF b
      <4> QED BY <4>3, <4>4, <4>5
    <3> QED BY <3>1, <3>4, <3>5, <2>2
  <2> HIDE DEF S
  <2>5. \A n \in 1 .. Len(ss) : n \in S BY <2>2, <2>3, <2>4, InductionUpTo
  <2>6. Facts(Len(ss)) BY <2>5, <2>2, <1>2 DEF S
  <2>7. FlattenSeq(ss) = f[Len(ss)] BY <2>1
  <2> HIDE DEF S
  <2> QED BY ONLY <2>6, <2>7
<1> QED BY <1>1, <1>2 DEF IsSeq

(* All of a member of a sequence is in the flattened one. *)
LEMMA FlattenHolds ==
  ASSUME NEW ss, IsSeq(ss), \A k \in DOMAIN ss : IsSeq(ss[k]),
         NEW m \in DOMAIN ss, NEW i \in DOMAIN ss[m]
  PROVE  \E j \in DOMAIN FlattenSeq(ss) : FlattenSeq(ss)[j] = ss[m][i]
<1>1. DOMAIN ss = 1 .. Len(ss) /\ Len(ss) \in Nat /\ Len(ss) # 0 BY DEF IsSeq
<1>2. PICK f : /\ f = [n \in 1 .. Len(ss) |-> IF n = 1 THEN ss[n] ELSE f[n - 1] \o ss[n]]
               /\ FlattenSeq(ss) = f[Len(ss)]
  BY <1>1, Flatten
<1> DEFINE Facts(n) == /\ IsSeq(f[n])
                       /\ \A k \in 1 .. n : \A l \in DOMAIN ss[k] :
                            \E j \in DOMAIN f[n] : f[n][j] = ss[k][l]
           S == {n \in 1 .. Len(ss) : Facts(n)}
<1>3. 1 \in S
  <2>1. f[1] = ss[1] /\ 1 \in DOMAIN ss BY <1>1, <1>2
  <2> QED BY <1>1, <2>1
<1>4. ASSUME NEW n \in 1 .. Len(ss) - 1, n \in S PROVE n + 1 \in S
  <2> DEFINE a == f[n]
             b == ss[n + 1]
  <2>1. n + 1 \in DOMAIN ss /\ n + 1 # 1 /\ (n + 1) - 1 = n BY <1>1
  <2>2. f[n + 1] = a \o b BY <1>1, <1>2, <2>1
  <2>3. IsSeq(a) /\ IsSeq(b) /\ Facts(n) BY <1>4, <2>1
  <2>7. IsSeq(a) /\ IsSeq(b) BY <2>3
  <2> HIDE DEF a, b
  <2>4. /\ IsSeq(a \o b)
        /\ \A k \in DOMAIN a : k \in DOMAIN (a \o b) /\ (a \o b)[k] = a[k]
        /\ \A k \in DOMAIN b : k + Len(a) \in DOMAIN (a \o b) /\ (a \o b)[k + Len(a)] = b[k]
    BY ONLY <2>7, Concatenation
  <2>5. ASSUME NEW k \in 1 .. n + 1, NEW l \in DOMAIN ss[k]
        PROVE  \E j \in DOMAIN (a \o b) : (a \o b)[j] = ss[k][l]
    <3>1. CASE k \in 1 .. n
      <4>1. PICK j \in DOMAIN a : a[j] = ss[k][l] BY <2>3, <2>5, <3>1 DEF a
      <4> QED BY <2>4, <4>1
    <3>2. CASE k = n + 1
      <4>1. l \in DOMAIN b /\ b[l] = ss[k][l] BY <2>5, <3>2 DEF b
      <4> QED BY <2>4, <4>1
    <3> QED BY <3>1, <3>2
  <2>6. Facts(n + 1) BY <2>2, <2>4, <2>5
  <2> QED BY <1>1, <2>1, <2>6
<1> HIDE DEF S
<1>5. \A n \in 1 .. Len(ss) : n \in S BY <1>1, <1>3, <1>4, InductionUpTo
<1>6. Facts(Len(ss)) BY <1>1, <1>5 DEF S
<1>7. FlattenSeq(ss) = f[Len(ss)] BY <1>2
<1>8. m \in 1 .. Len(ss) BY <1>1
<1> QED BY <1>6, <1>7, <1>8

(* A concatenation holds what its parts hold, and nothing else. *)
HoldsBoth(u, s, t) ==
  /\ IsSeq(u)
  /\ \A k \in DOMAIN s : \E m \in DOMAIN u : u[m] = s[k]
  /\ \A k \in DOMAIN t : \E m \in DOMAIN u : u[m] = t[k]
  /\ \A k \in DOMAIN u : (\E m \in DOMAIN s : u[k] = s[m]) \/ (\E m \in DOMAIN t : u[k] = t[m])

LEMMA HeldAfter ==
  ASSUME NEW s, NEW t, IsSeq(s), IsSeq(t)
  PROVE  HoldsBoth(s \o t, s, t)
<1> DEFINE u == s \o t
<1>1. IsSeq(u) BY Concatenation
<1>2. \A k \in DOMAIN s : k \in DOMAIN u /\ u[k] = s[k] BY Concatenation
<1>5. \A k \in DOMAIN t : k + Len(s) \in DOMAIN u /\ u[k + Len(s)] = t[k] BY Concatenation
<1>3. \A k \in DOMAIN u : k \in DOMAIN s \/ (k - Len(s) \in DOMAIN t /\ u[k] = t[k - Len(s)])
  BY Concatenation
<1> HIDE DEF u
<1>4. HoldsBoth(u, s, t) BY ONLY <1>1, <1>2, <1>3, <1>5 DEF HoldsBoth
<1> QED BY <1>4 DEF u

(* A function on 1 .. n into S is a sequence over S. *)
LEMMA FunctionInSeq ==
  ASSUME NEW n \in Nat, NEW S, NEW f, f = [k \in 1 .. n |-> f[k]], \A k \in 1 .. n : f[k] \in S
  PROVE  f \in Seq(S)
OBVIOUS

(* Sequences over S, flattened. *)
LEMMA FlattenInSeq ==
  ASSUME NEW S, NEW ss \in Seq(Seq(S))
  PROVE  FlattenSeq(ss) \in Seq(S)
<1>1. IsSeq(ss) BY SeqIs
<1>2. \A k \in DOMAIN ss : ss[k] \in Seq(S) OBVIOUS
<1>3. \A k \in DOMAIN ss : IsSeq(ss[k]) BY <1>2, SeqIs
<1> DEFINE f == FlattenSeq(ss)
<1>4. IsSeq(f) /\ \A j \in DOMAIN f : \E k \in DOMAIN ss : \E l \in DOMAIN ss[k] : f[j] = ss[k][l]
  BY <1>1, <1>3, FlattenMembers
<1> HIDE DEF f
<1>5. ASSUME NEW j \in DOMAIN f PROVE f[j] \in S
  <2>1. PICK k \in DOMAIN ss : \E l \in DOMAIN ss[k] : f[j] = ss[k][l] BY <1>4
  <2>2. ss[k] \in Seq(S) BY <1>2
  <2> QED BY <2>1, <2>2
<1>6. f \in Seq(S) BY <1>4, <1>5, FunctionInSeq DEF IsSeq
<1> QED BY <1>6 DEF f

(* The members of a flattened sequence come in the order of the sequence.  *)
LEMMA FlattenInOrder ==
  ASSUME NEW ss, IsSeq(ss), \A k \in DOMAIN ss : IsSeq(ss[k]),
         NEW i \in DOMAIN FlattenSeq(ss), NEW j \in DOMAIN FlattenSeq(ss), i <= j
  PROVE  \E k, l \in DOMAIN ss : /\ k <= l
                                 /\ \E p \in DOMAIN ss[k] : FlattenSeq(ss)[i] = ss[k][p]
                                 /\ \E p \in DOMAIN ss[l] : FlattenSeq(ss)[j] = ss[l][p]
<1>1. DOMAIN ss = 1 .. Len(ss) /\ Len(ss) \in Nat BY DEF IsSeq
<1>2. Len(ss) # 0
  <2>1. IsSeq(FlattenSeq(ss)) BY FlattenMembers
  <2>2. \E k \in DOMAIN ss : TRUE BY FlattenMembers
  <2> QED BY <1>1, <2>2
<1>3. PICK f : /\ f = [n \in 1 .. Len(ss) |-> IF n = 1 THEN ss[n] ELSE f[n - 1] \o ss[n]]
               /\ FlattenSeq(ss) = f[Len(ss)]
  BY <1>2, Flatten
<1> DEFINE From(x, n) == \E p \in DOMAIN ss[n] : x = ss[n][p]
           Facts(n) == /\ IsSeq(f[n])
                       /\ \A a, b \in DOMAIN f[n] : a <= b =>
                            \E k, l \in 1 .. n : k <= l /\ From(f[n][a], k) /\ From(f[n][b], l)
           S == {n \in 1 .. Len(ss) : Facts(n)}
<1>4. 1 \in S
  <2>1. f[1] = ss[1] /\ 1 \in DOMAIN ss BY <1>1, <1>2, <1>3
  <2> QED BY <1>1, <2>1
<1>5. ASSUME NEW n \in 1 .. Len(ss) - 1, n \in S PROVE n + 1 \in S
  <2> DEFINE s == f[n]
             t == ss[n + 1]
             u == s \o t
  <2>1. n + 1 \in DOMAIN ss /\ n + 1 # 1 /\ (n + 1) - 1 = n /\ n \in Nat BY <1>1
  <2>2. f[n + 1] = u BY <1>1, <1>3, <2>1
  <2>3. IsSeq(s) /\ IsSeq(t) /\ Facts(n) BY <1>5, <2>1
  <2>7. IsSeq(s) /\ IsSeq(t) BY <2>3
  <2>8. \A a, b \in DOMAIN s : a <= b =>
          \E k, l \in 1 .. n : k <= l /\ From(s[a], k) /\ From(s[b], l)
    BY <2>3
  <2>9. \A a \in DOMAIN t : From(t[a], n + 1) OBVIOUS
  <2> HIDE DEF s, t, From
  <2>4. /\ IsSeq(u) /\ DOMAIN u = 1 .. Len(s) + Len(t) /\ DOMAIN s = 1 .. Len(s)
        /\ Len(s) \in Nat /\ Len(t) \in Nat /\ DOMAIN t = 1 .. Len(t)
        /\ \A k \in DOMAIN s : u[k] = s[k]
        /\ \A k \in DOMAIN t : u[k + Len(s)] = t[k]
    BY ONLY <2>7, Concatenation DEF IsSeq
  <2> HIDE DEF u
  <2>5. ASSUME NEW a \in DOMAIN u, NEW b \in DOMAIN u, a <= b
        PROVE  \E k, l \in 1 .. n + 1 : k <= l /\ From(u[a], k) /\ From(u[b], l)
    <3>1. CASE b \in DOMAIN s
      <4>1. a \in DOMAIN s BY <2>4, <2>5, <3>1
      <4>2. PICK k, l \in 1 .. n : k <= l /\ From(s[a], k) /\ From(s[b], l) BY <2>5, <2>8, <3>1, <4>1
      <4> QED BY <2>4, <3>1, <4>1, <4>2, <2>1
    <3>2. CASE b \notin DOMAIN s
      <4>1. b - Len(s) \in DOMAIN t /\ (b - Len(s)) + Len(s) = b BY <2>4, <3>2
      <4>2. From(u[b], n + 1) BY <2>4, <2>9, <4>1
      <4>3. CASE a \in DOMAIN s
        <5>1. a <= a BY <2>4, <4>3
        <5>2. PICK k \in 1 .. n : From(s[a], k) BY <2>8, <4>3, <5>1
        <5>3. k \in 1 .. n + 1 /\ n + 1 \in 1 .. n + 1 /\ k <= n + 1 BY <2>1
        <5> QED BY <2>4, <4>2, <4>3, <5>2, <5>3
      <4>4. CASE a \notin DOMAIN s
        <5>1. a - Len(s) \in DOMAIN t /\ (a - Len(s)) + Len(s) = a BY <2>4, <4>4
        <5>2. From(u[a], n + 1) BY <2>4, <2>9, <5>1
        <5>3. n + 1 \in 1 .. n + 1 /\ n + 1 <= n + 1 BY <2>1
        <5> QED BY <4>2, <5>2, <5>3
      <4> QED BY <4>3, <4>4
    <3> QED BY <3>1, <3>2
  <2>6. Facts(n + 1) BY <2>2, <2>4, <2>5
  <2> QED BY <1>1, <2>1, <2>6
<1> HIDE DEF S
<1>6. \A n \in 1 .. Len(ss) : n \in S BY <1>1, <1>4, <1>5, InductionUpTo
<1>7. Facts(Len(ss)) BY <1>1, <1>2, <1>6 DEF S
<1>8. FlattenSeq(ss) = f[Len(ss)] BY <1>3
<1>9. PICK k, l \in 1 .. Len(ss) :
        k <= l /\ From(FlattenSeq(ss)[i], k) /\ From(FlattenSeq(ss)[j], l)
  BY <1>7, <1>8
<1> QED BY <1>1, <1>9

(* Of parts with one member at most, two members come from two parts, in   *)
(* their order.                                                            *)
LEMMA FlattenOnce ==
  ASSUME NEW ss, IsSeq(ss), \A k \in DOMAIN ss : IsSeq(ss[k]) /\ Len(ss[k]) <= 1,
         NEW i \in DOMAIN FlattenSeq(ss), NEW j \in DOMAIN FlattenSeq(ss), i < j
  PROVE  \E k, l \in DOMAIN ss : /\ k < l
                                 /\ \E p \in DOMAIN ss[k] : FlattenSeq(ss)[i] = ss[k][p]
                                 /\ \E p \in DOMAIN ss[l] : FlattenSeq(ss)[j] = ss[l][p]
<1>1. DOMAIN ss = 1 .. Len(ss) /\ Len(ss) \in Nat BY DEF IsSeq
<1>2. Len(ss) # 0
  <2>1. IsSeq(FlattenSeq(ss)) BY FlattenMembers
  <2>2. \E k \in DOMAIN ss : TRUE BY FlattenMembers
  <2> QED BY <1>1, <2>2
<1>3. PICK f : /\ f = [n \in 1 .. Len(ss) |-> IF n = 1 THEN ss[n] ELSE f[n - 1] \o ss[n]]
               /\ FlattenSeq(ss) = f[Len(ss)]
  BY <1>2, Flatten
<1> DEFINE From(x, n) == \E p \in DOMAIN ss[n] : x = ss[n][p]
           Facts(n) == /\ IsSeq(f[n])
                       /\ \A a \in DOMAIN f[n] : \E k \in 1 .. n : From(f[n][a], k)
                       /\ \A a, b \in DOMAIN f[n] : a < b =>
                            \E k, l \in 1 .. n : k < l /\ From(f[n][a], k) /\ From(f[n][b], l)
           S == {n \in 1 .. Len(ss) : Facts(n)}
<1>4. 1 \in S
  <2>1. f[1] = ss[1] /\ 1 \in DOMAIN ss BY <1>1, <1>2, <1>3
  <2>2. IsSeq(f[1]) /\ Len(f[1]) <= 1 BY <2>1
  <2>3. \A a, b \in DOMAIN f[1] : ~(a < b) BY <2>2 DEF IsSeq
  <2> QED BY <1>1, <2>1, <2>2, <2>3
<1>5. ASSUME NEW n \in 1 .. Len(ss) - 1, n \in S PROVE n + 1 \in S
  <2> DEFINE s == f[n]
             t == ss[n + 1]
             u == s \o t
  <2>1. n + 1 \in DOMAIN ss /\ n + 1 # 1 /\ (n + 1) - 1 = n /\ n \in Nat BY <1>1
  <2>2. f[n + 1] = u BY <1>1, <1>3, <2>1
  <2>3. IsSeq(s) /\ IsSeq(t) /\ Len(t) <= 1 /\ Facts(n) BY <1>5, <2>1
  <2>7. IsSeq(s) /\ IsSeq(t) BY <2>3
  <2>8. \A a, b \in DOMAIN s : a < b =>
          \E k, l \in 1 .. n : k < l /\ From(s[a], k) /\ From(s[b], l)
    BY <2>3
  <2>10. \A a \in DOMAIN s : \E k \in 1 .. n : From(s[a], k) BY <2>3
  <2>9. \A a \in DOMAIN t : From(t[a], n + 1) OBVIOUS
  <2> HIDE DEF s, t, From
  <2>4. /\ IsSeq(u) /\ DOMAIN u = 1 .. Len(s) + Len(t) /\ DOMAIN s = 1 .. Len(s)
        /\ Len(s) \in Nat /\ Len(t) \in Nat /\ DOMAIN t = 1 .. Len(t)
        /\ \A k \in DOMAIN s : u[k] = s[k]
        /\ \A k \in DOMAIN t : u[k + Len(s)] = t[k]
    BY ONLY <2>7, Concatenation DEF IsSeq
  <2> HIDE DEF u
  <2>11. ASSUME NEW a \in DOMAIN u, a \notin DOMAIN s
         PROVE  a - Len(s) \in DOMAIN t /\ (a - Len(s)) + Len(s) = a /\ From(u[a], n + 1)
    <3>1. a - Len(s) \in DOMAIN t /\ (a - Len(s)) + Len(s) = a BY <2>4, <2>11
    <3> QED BY <2>4, <2>9, <3>1
  <2>12. ASSUME NEW a \in DOMAIN u PROVE \E k \in 1 .. n + 1 : From(u[a], k)
    <3>1. CASE a \in DOMAIN s
      <4>1. PICK k \in 1 .. n : From(s[a], k) BY <2>10, <3>1
      <4> QED BY <2>1, <2>4, <3>1, <4>1
    <3>2. CASE a \notin DOMAIN s BY <2>1, <2>11, <3>2
    <3> QED BY <3>1, <3>2
  <2>5. ASSUME NEW a \in DOMAIN u, NEW b \in DOMAIN u, a < b
        PROVE  \E k, l \in 1 .. n + 1 : k < l /\ From(u[a], k) /\ From(u[b], l)
    <3>1. CASE b \in DOMAIN s
      <4>1. a \in DOMAIN s BY <2>4, <2>5, <3>1
      <4>2. PICK k, l \in 1 .. n : k < l /\ From(s[a], k) /\ From(s[b], l) BY <2>5, <2>8, <3>1, <4>1
      <4> QED BY <2>4, <3>1, <4>1, <4>2, <2>1
    <3>2. CASE b \notin DOMAIN s
      <4>1. b - Len(s) \in DOMAIN t /\ From(u[b], n + 1) BY <2>11, <3>2
      <4>2. a \in DOMAIN s
        <5>1. ASSUME a \notin DOMAIN s PROVE FALSE
          <6>1. a - Len(s) \in DOMAIN t BY <2>11, <5>1
          <6>2. a \in Nat /\ b \in Nat BY <2>4
          <6> DEFINE x == Len(s)
                     y == Len(t)
          <6>3. x \in Nat /\ y \in Nat /\ y <= 1 BY <2>3, <2>4
          <6>4. a - x \in 1 .. y /\ b - x \in 1 .. y BY <2>4, <4>1, <6>1
          <6> HIDE DEF x, y
          <6> QED BY <2>5, <6>2, <6>3, <6>4
        <5> QED BY <5>1
      <4>3. PICK k \in 1 .. n : From(s[a], k) BY <2>10, <4>2
      <4>4. k \in 1 .. n + 1 /\ n + 1 \in 1 .. n + 1 /\ k < n + 1 BY <2>1
      <4> QED BY <2>4, <4>1, <4>2, <4>3, <4>4
    <3> QED BY <3>1, <3>2
  <2>6. Facts(n + 1) BY <2>2, <2>4, <2>5, <2>12
  <2> QED BY <1>1, <2>1, <2>6
<1> HIDE DEF S
<1>6. \A n \in 1 .. Len(ss) : n \in S BY <1>1, <1>4, <1>5, InductionUpTo
<1>7. Facts(Len(ss)) BY <1>1, <1>2, <1>6 DEF S
<1>8. FlattenSeq(ss) = f[Len(ss)] BY <1>3
<1>9. PICK k, l \in 1 .. Len(ss) :
        k < l /\ From(FlattenSeq(ss)[i], k) /\ From(FlattenSeq(ss)[j], l)
  BY <1>7, <1>8
<1> QED BY <1>1, <1>9

(* A sequence of naturals has a greatest member. *)
LEMMA GreatestMember ==
  ASSUME NEW s \in Seq(Nat), s # <<>>
  PROVE  \E i \in DOMAIN s : \A j \in DOMAIN s : s[j] <= s[i]
<1> DEFINE S == {n \in 1 .. Len(s) : \E i \in 1 .. n : \A j \in 1 .. n : s[j] <= s[i]}
<1>1. Len(s) \in Nat /\ Len(s) # 0 /\ DOMAIN s = 1 .. Len(s) OBVIOUS
<1>2. \A j \in 1 .. Len(s) : s[j] \in Nat OBVIOUS
<1>3. 1 \in S BY <1>1, <1>2
<1>4. ASSUME NEW n \in 1 .. Len(s) - 1, n \in S PROVE n + 1 \in S
  <2>1. PICK i \in 1 .. n : \A j \in 1 .. n : s[j] <= s[i] BY <1>4
  <2>2. n + 1 \in 1 .. Len(s) /\ i \in 1 .. Len(s) /\ 1 .. n \subseteq 1 .. Len(s) BY <1>1
  <2>3. s[i] \in Nat /\ s[n + 1] \in Nat BY <1>2, <2>2
  <2>4. \A j \in 1 .. n + 1 : j \in 1 .. n \/ j = n + 1 OBVIOUS
  <2>5. CASE s[n + 1] <= s[i]
    <3>1. i \in 1 .. n + 1 OBVIOUS
    <3> QED BY <2>1, <2>2, <2>4, <2>5, <3>1
  <2>6. CASE ~(s[n + 1] <= s[i])
    <3>1. ASSUME NEW j \in 1 .. n + 1 PROVE s[j] <= s[n + 1]
      <4>1. CASE j = n + 1 BY <2>3, <4>1
      <4>2. CASE j \in 1 .. n
        <5>1. s[j] <= s[i] /\ s[j] \in Nat BY <1>2, <2>1, <2>2, <4>2
        <5> QED BY <2>3, <2>6, <5>1
      <4> QED BY <2>4, <4>1, <4>2
    <3>2. n + 1 \in 1 .. n + 1 OBVIOUS
    <3> QED BY <2>2, <3>1, <3>2
  <2> QED BY <2>5, <2>6
<1> HIDE DEF S
<1>5. \A n \in 1 .. Len(s) : n \in S BY <1>1, <1>3, <1>4, InductionUpTo
<1>6. Len(s) \in S BY <1>1, <1>5
<1> QED BY <1>1, <1>6 DEF S

-----------------------------------------------------------------------------
(* What the stack and the rows of statements of an analysis need. *)

(* t is st with the members of fs in the place of the first one. *)
TakesPlace(t, fs, st) ==
  LET n == Len(fs)
  IN  /\ IsSeq(t) /\ IsSeq(st) /\ 1 \in DOMAIN st /\ n \in Nat /\ DOMAIN fs = 1 .. n
      /\ \A i \in 1 .. n : i \in DOMAIN t /\ t[i] = fs[i]
      /\ \A k \in DOMAIN st : k # 1 => k - 1 + n \in DOMAIN t /\ t[k - 1 + n] = st[k]
      /\ \A k \in DOMAIN t : \/ k \in 1 .. n
                             \/ k + 1 - n \in DOMAIN st /\ k + 1 - n # 1 /\ t[k] = st[k + 1 - n]

LEMMA PlaceTaken ==
  ASSUME NEW fs, NEW st, IsSeq(fs), IsSeq(st), st # <<>>
  PROVE  TakesPlace(fs \o Tail(st), fs, st)
<1> DEFINE r == Tail(st)
           t == fs \o r
           n == Len(fs)
<1>1. /\ st = <<Head(st)>> \o r /\ IsSeq(r) /\ 1 \in DOMAIN st
      /\ \A k \in DOMAIN r : k + 1 \in DOMAIN st /\ r[k] = st[k + 1]
  BY HeadAndTail
<1>2. n \in Nat /\ DOMAIN fs = 1 .. n /\ Len(r) \in Nat /\ DOMAIN r = 1 .. Len(r) BY <1>1 DEF IsSeq
<1>3. DOMAIN st = 1 .. 1 + Len(r)
  <2>1. IsSeq(<<Head(st)>>) /\ Len(<<Head(st)>>) = 1 BY SingletonIsSeq
  <2> HIDE DEF r
  <2> QED BY <1>1, <2>1, Concatenation
<1>4. /\ IsSeq(t)
      /\ \A k \in DOMAIN fs : k \in DOMAIN t /\ t[k] = fs[k]
      /\ \A k \in DOMAIN r : k + n \in DOMAIN t /\ t[k + n] = r[k]
      /\ \A k \in DOMAIN t : k \in DOMAIN fs \/ (k - n \in DOMAIN r /\ t[k] = r[k - n])
  <2>1. IsSeq(r) BY <1>1
  <2> HIDE DEF r
  <2>2. Joined(t, fs, r) BY <2>1, ConcatenationJoins
  <2> HIDE DEF t
  <2>3. /\ IsSeq(t)
        /\ \A k \in DOMAIN fs : k \in DOMAIN t /\ t[k] = fs[k]
        /\ \A k \in DOMAIN r : k + n \in DOMAIN t /\ t[k + n] = r[k]
        /\ \A k \in DOMAIN t : k \in DOMAIN fs \/ (k - n \in DOMAIN r /\ t[k] = r[k - n])
    BY <2>2 DEF Joined
  <2> QED BY <2>3
<1>5. DOMAIN t = 1 .. Len(t) /\ Len(t) \in Nat BY <1>4 DEF IsSeq
<1> HIDE DEF t, r, n
<1>6. ASSUME NEW k \in DOMAIN st, k # 1 PROVE k - 1 + n \in DOMAIN t /\ t[k - 1 + n] = st[k]
  <2>1. k - 1 \in DOMAIN r /\ (k - 1) + 1 = k BY <1>2, <1>3, <1>6
  <2> QED BY <1>1, <1>4, <2>1
<1>7. ASSUME NEW k \in DOMAIN t, k \notin 1 .. n
      PROVE  k + 1 - n \in DOMAIN st /\ k + 1 - n # 1 /\ t[k] = st[k + 1 - n]
  <2>1. k - n \in DOMAIN r /\ t[k] = r[k - n] BY <1>2, <1>4, <1>7
  <2>2. (k - n) + 1 = k + 1 - n /\ k + 1 - n # 1 BY <1>2, <1>5, <2>1
  <2> QED BY <1>1, <2>1, <2>2
<1>8. TakesPlace(t, fs, st) BY <1>1, <1>2, <1>4, <1>6, <1>7 DEF TakesPlace, n
<1> QED BY <1>8 DEF t, r

LEMMA PlaceLength ==
  ASSUME NEW t, NEW fs, NEW st, TakesPlace(t, fs, st)
  PROVE  /\ Len(t) = Len(st) - 1 + Len(fs)
         /\ Len(t) \in Nat /\ Len(st) \in Nat /\ Len(fs) \in Nat /\ Len(st) >= 1
         /\ DOMAIN st = 1 .. Len(st) /\ DOMAIN t = 1 .. Len(t)
<1> DEFINE n == Len(fs)
<1>1. /\ n \in Nat /\ Len(t) \in Nat /\ Len(st) \in Nat
      /\ DOMAIN t = 1 .. Len(t) /\ DOMAIN st = 1 .. Len(st) /\ 1 \in DOMAIN st
  BY DEF TakesPlace, IsSeq
<1>2. Len(t) >= Len(st) - 1 + n
  <2>1. CASE Len(st) = 1
    <3>1. n = 0 \/ n \in DOMAIN t
      BY <1>1 DEF TakesPlace
    <3> QED
      BY <1>1, <2>1, <3>1
  <2>2. CASE Len(st) # 1
    <3>0. Len(st) \in DOMAIN st
      BY <1>1
    <3>1. Len(st) - 1 + n \in DOMAIN t
      BY <3>0, <2>2 DEF TakesPlace
    <3> QED
      BY <1>1, <3>1
  <2> QED
    BY <2>1, <2>2
<1>3. Len(t) <= Len(st) - 1 + n
  <2>1. CASE Len(t) = 0
    BY <1>1, <2>1
  <2>2. CASE Len(t) # 0
    <3>1. Len(t) \in DOMAIN t
      BY <1>1, <2>2
    <3>2. Len(t) \in 1 .. n \/ Len(t) + 1 - n \in DOMAIN st
      BY <3>1 DEF TakesPlace
    <3> QED
      BY <1>1, <3>2
  <2> QED
    BY <2>1, <2>2
<1> QED
  BY <1>1, <1>2, <1>3

LEMMA MemberOf ==
  ASSUME NEW S, NEW q \in Seq(S), NEW k \in DOMAIN q
  PROVE  q[k] \in S
OBVIOUS

LEMMA ItemOf ==
  ASSUME NEW S, NEW T, NEW q \in Seq([labels : T, s : S]), NEW k \in DOMAIN q
  PROVE  q[k].s \in S /\ q[k].labels \in T
<1>1. q[k] \in [labels : T, s : S]
  BY MemberOf
<1> QED
  BY <1>1

Earlier(k, p, l, q) == k < l \/ (k = l /\ p < q)

(* Two members of a flattened sequence come from two places, in order.     *)
LEMMA FlattenApart ==
  ASSUME NEW ss, IsSeq(ss), \A k \in DOMAIN ss : IsSeq(ss[k]),
         NEW i \in DOMAIN FlattenSeq(ss), NEW j \in DOMAIN FlattenSeq(ss), i < j
  PROVE  \E k, l \in DOMAIN ss : \E p \in DOMAIN ss[k], q \in DOMAIN ss[l] :
           Earlier(k, p, l, q) /\ FlattenSeq(ss)[i] = ss[k][p] /\ FlattenSeq(ss)[j] = ss[l][q]
<1>1. DOMAIN ss = 1 .. Len(ss) /\ Len(ss) \in Nat
  BY DEF IsSeq
<1>2. Len(ss) # 0
  <2>1. \E k \in DOMAIN ss : TRUE
    BY FlattenMembers
  <2> QED
    BY <1>1, <2>1
<1>3. PICK f : /\ f = [n \in 1 .. Len(ss) |-> IF n = 1 THEN ss[n] ELSE f[n - 1] \o ss[n]]
               /\ FlattenSeq(ss) = f[Len(ss)]
  BY <1>2, Flatten
<1> DEFINE From(x, n) == \E k \in 1 .. n : \E p \in DOMAIN ss[k] : x = ss[k][p]
           Two(x, y, n) == \E k, l \in 1 .. n : \E p \in DOMAIN ss[k], q \in DOMAIN ss[l] :
                             Earlier(k, p, l, q) /\ x = ss[k][p] /\ y = ss[l][q]
           Facts(n) == /\ IsSeq(f[n])
                       /\ \A a \in DOMAIN f[n] : From(f[n][a], n)
                       /\ \A a, b \in DOMAIN f[n] : a < b => Two(f[n][a], f[n][b], n)
           S == {n \in 1 .. Len(ss) : Facts(n)}
<1>4. 1 \in S
  <2>1. f[1] = ss[1] /\ 1 \in DOMAIN ss /\ IsSeq(ss[1])
    BY <1>1, <1>2, <1>3
  <2>2. 1 \in 1 .. 1 /\ \A a, b : a < b => Earlier(1, a, 1, b)
    BY DEF Earlier
  <2>3. \A a \in DOMAIN ss[1] : From(ss[1][a], 1)
    BY <2>2
  <2>4. \A a, b \in DOMAIN ss[1] : a < b => Two(ss[1][a], ss[1][b], 1)
    BY <2>2
  <2>5. \A a \in DOMAIN f[1] : From(f[1][a], 1)
    BY <2>1, <2>3
  <2>6. \A a, b \in DOMAIN f[1] : a < b => Two(f[1][a], f[1][b], 1)
    BY <2>1, <2>4
  <2> HIDE DEF From, Two
  <2>7. Facts(1)
    BY <2>1, <2>5, <2>6
  <2>8. 1 \in 1 .. Len(ss)
    BY <1>1, <2>1
  <2> QED
    BY <2>7, <2>8
<1>5. ASSUME NEW n \in 1 .. Len(ss) - 1, n \in S PROVE n + 1 \in S
  <2> DEFINE s == f[n]
             t == ss[n + 1]
             u == s \o t
  <2>1. n + 1 \in DOMAIN ss /\ n + 1 # 1 /\ (n + 1) - 1 = n /\ n \in Nat
    BY <1>1
  <2>2. f[n + 1] = u
    BY <1>1, <1>3, <2>1
  <2>3. IsSeq(s) /\ IsSeq(t) /\ Facts(n)
    BY <1>5, <2>1
  <2>4. IsSeq(s) /\ IsSeq(t)
    BY <2>3
  <2>5. /\ \A a \in DOMAIN s : From(s[a], n)
        /\ \A a, b \in DOMAIN s : a < b => Two(s[a], s[b], n)
    BY <2>3
  <2>6. /\ \A x : From(x, n) => From(x, n + 1)
        /\ \A x, y : Two(x, y, n) => Two(x, y, n + 1)
    <3>1. \A k \in 1 .. n : k \in 1 .. n + 1
      BY <2>1
    <3> QED
      BY <3>1
  <2>7. \A a \in DOMAIN t : From(t[a], n + 1)
    BY <2>1
  <2>8. \A a, b \in DOMAIN t : a < b => Two(t[a], t[b], n + 1)
    BY <2>1 DEF Earlier
  <2>9. ASSUME NEW x, From(x, n), NEW b \in DOMAIN t PROVE Two(x, t[b], n + 1)
    <3>1. PICK k \in 1 .. n : \E p \in DOMAIN ss[k] : x = ss[k][p]
      BY <2>9
    <3>2. k < n + 1 /\ k \in 1 .. n + 1 /\ n + 1 \in 1 .. n + 1
      BY <2>1
    <3> QED
      BY <3>1, <3>2, <2>9 DEF Earlier
  <2> HIDE DEF s, t, From, Two
  <2>10. /\ IsSeq(u) /\ DOMAIN u = 1 .. Len(s) + Len(t) /\ DOMAIN s = 1 .. Len(s)
         /\ Len(s) \in Nat /\ Len(t) \in Nat /\ DOMAIN t = 1 .. Len(t)
         /\ \A k \in DOMAIN s : u[k] = s[k]
         /\ \A k \in DOMAIN t : u[k + Len(s)] = t[k]
    BY ONLY <2>4, Concatenation DEF IsSeq
  <2> HIDE DEF u
  <2>11. ASSUME NEW a \in DOMAIN u, a \notin DOMAIN s
         PROVE  a - Len(s) \in DOMAIN t /\ u[a] = t[a - Len(s)]
    <3>1. a - Len(s) \in DOMAIN t /\ (a - Len(s)) + Len(s) = a
      BY <2>10, <2>11
    <3> QED
      BY <2>10, <3>1
  <2>12. \A a \in DOMAIN u : From(u[a], n + 1)
    BY <2>5, <2>6, <2>7, <2>10, <2>11
  <2>13. ASSUME NEW a \in DOMAIN u, NEW b \in DOMAIN u, a < b PROVE Two(u[a], u[b], n + 1)
    <3>1. CASE b \in DOMAIN s
      <4>1. a \in DOMAIN s
        BY <2>10, <2>13, <3>1
      <4> QED
        BY <2>5, <2>6, <2>10, <2>13, <3>1, <4>1
    <3>2. CASE b \notin DOMAIN s /\ a \in DOMAIN s
      BY <2>5, <2>9, <2>10, <2>11, <3>2
    <3>3. CASE b \notin DOMAIN s /\ a \notin DOMAIN s
      <4>1. a - Len(s) < b - Len(s)
        BY <2>10, <2>13
      <4> QED
        BY <2>8, <2>11, <3>3, <4>1
    <3> QED
      BY <3>1, <3>2, <3>3
  <2>14. Facts(n + 1)
    BY <2>2, <2>10, <2>12, <2>13
  <2> QED
    BY <1>1, <2>1, <2>14
<1> HIDE DEF S
<1>6. \A n \in 1 .. Len(ss) : n \in S
  BY <1>1, <1>4, <1>5, InductionUpTo
<1>7. Facts(Len(ss))
  BY <1>1, <1>2, <1>6 DEF S
<1>8. Two(FlattenSeq(ss)[i], FlattenSeq(ss)[j], Len(ss))
  <2> HIDE DEF Two
  <2> QED
    BY <1>3, <1>7
<1> QED
  BY <1>1, <1>8

(* All that s holds is in u. *)
Among(s, u) == \A k \in DOMAIN s : \E l \in DOMAIN u : u[l] = s[k]

LEMMA BothAmong ==
  ASSUME NEW s, NEW t, IsSeq(s), IsSeq(t)
  PROVE  Among(s, s \o t) /\ Among(t, s \o t) /\ Among(s, s)
<1> DEFINE u == s \o t
<1>1. Joined(u, s, t)
  BY ConcatenationJoins
<1> HIDE DEF u
<1>2. Among(s, u) /\ Among(t, u)
  BY <1>1 DEF Joined, Among
<1>3. Among(s, s)
  BY DEF Among
<1> QED
  BY <1>2, <1>3 DEF u
=============================================================================
