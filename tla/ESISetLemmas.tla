---------------------------- MODULE ESISetLemmas ----------------------------
(***************************************************************************)
(* The least and the greatest element of a set of natural numbers, as Min  *)
(* and Max choose them; induction up to a number, and the functions that   *)
(* are defined by recursion up to it; sequences joined to one.             *)
(***************************************************************************)
EXTENDS Integers, Sequences, FiniteSetsExt, SequenceTheorems,
        WellFoundedInduction, TLAPS

(***************************************************************************)
(* A set of natural numbers that is not empty has a least element: < is    *)
(* well-founded on Nat.                                                    *)
(***************************************************************************)
LEMMA LeastExists ==
  ASSUME NEW S, S \subseteq Nat, S # {}
  PROVE  \E x \in S : \A y \in S : x <= y
<1> DEFINE R == OpToRel(<, Nat)
<1>1. IsWellFoundedOn(R, Nat)
  BY NatLessThanWellFounded
<1>2. \E x \in S : \A y \in S : ~ (<<y, x>> \in R)
  <2> HIDE DEF R
  <2> QED BY <1>1, WFMin
<1>3. \A x \in S, y \in S : <<y, x>> \in R \/ x <= y
  BY DEF OpToRel
<1> QED BY <1>2, <1>3

(***************************************************************************)
(* Min of such a set is its least element: what LeftTrim and CloseChildren *)
(* rely on.                                                                *)
(***************************************************************************)
LEMMA MinOf ==
  ASSUME NEW S, S \subseteq Nat, S # {}
  PROVE  Min(S) \in S /\ \A y \in S : Min(S) <= y
BY LeastExists DEF Min

(***************************************************************************)
(* Max of a bounded one is its greatest: what RightTrim and Closed rely    *)
(* on.                                                                     *)
(***************************************************************************)
LEMMA MaxOf ==
  ASSUME NEW n \in Nat, NEW S, S \subseteq 0..n, S # {}
  PROVE  Max(S) \in S /\ \A y \in S : Max(S) >= y
<1> DEFINE D == {k \in 0..n : n - k \in S}
<1>1. PICK s \in S : TRUE
  OBVIOUS
<1>2. n - s \in D
  BY <1>1
<1>3. D \subseteq Nat /\ D # {}
  BY <1>2
<1>4. PICK d \in D : \A y \in D : d <= y
  <2> HIDE DEF D
  <2> QED BY <1>3, LeastExists
<1>5. \A y \in S : n - y \in D /\ n - d >= y
  <2> TAKE y \in S
  <2>1. n - y \in 0..n /\ n - (n - y) = y
    OBVIOUS
  <2>2. n - y \in D
    BY <2>1
  <2>3. d <= n - y
    <3> HIDE DEF D
    <3> QED BY <2>2, <1>4
  <2>4. n - d >= y
    BY <2>3, <1>4
  <2> QED BY <2>2, <2>4
<1>6. n - d \in S
  BY <1>4
<1> QED BY <1>5, <1>6 DEF Max

(***************************************************************************)
(* Induction, with a set in place of a predicate.                          *)
(***************************************************************************)
LEMMA InductionUpTo ==
  ASSUME NEW L \in Nat, NEW S, 0 \in S, \A n \in 1..L : n - 1 \in S => n \in S
  PROVE  \A n \in 0..L : n \in S
<1> DEFINE without == {n \in 0..L : n \notin S}
<1>1. SUFFICES without = {}
  OBVIOUS
<1>2. SUFFICES ASSUME without # {} PROVE FALSE
  OBVIOUS
<1>3. without \subseteq Nat
  OBVIOUS
<1>4. PICK n \in without : \A m \in without : n <= m
  <2> HIDE DEF without
  <2> QED BY <1>2, <1>3, LeastExists
<1>5. n \in 1..L /\ n - 1 \in 0..L
  OBVIOUS
<1>6. n - 1 \in S
  BY <1>4, <1>5
<1> QED BY <1>4, <1>5, <1>6

(***************************************************************************)
(* There is a function that is defined by recursion on its argument, with  *)
(* a function in place of the operator that makes one value of the one     *)
(* before: what Others and Around rest on.                                 *)
(***************************************************************************)
Recursion(f, L, S, base, g) ==
  /\ f \in [0..L -> S] /\ f[0] = base
  /\ \A n \in 1..L : f[n] = g[n][f[n - 1]]

\* There is such a function: the one the steps are composed to.
LEMMA RecursionExists ==
  ASSUME NEW L \in Nat, NEW S, NEW base \in S, NEW g \in [1..L -> [S -> S]]
  PROVE  \E f : Recursion(f, L, S, base, g)
<1> DEFINE Defines(f, m) == /\ f \in [0..m -> S] /\ f[0] = base
                            /\ \A n \in 1..m : f[n] = g[n][f[n - 1]]
           with == {m \in 0..L : \E f : Defines(f, m)}
<1>1. 0 \in with
  <2>1. Defines([n \in 0..0 |-> base], 0)
    OBVIOUS
  <2> HIDE DEF Defines
  <2> QED BY <2>1
<1>2. ASSUME NEW m \in 1..L, m - 1 \in with PROVE m \in with
  <2>1. PICK f : Defines(f, m - 1)
    BY <1>2
  <2> DEFINE h == [n \in 0..m |-> IF n = m THEN g[m][f[m - 1]] ELSE f[n]]
  <2>2. f[m - 1] \in S /\ m \in 1..L
    BY <2>1
  <2>3. g[m][f[m - 1]] \in S
    BY <2>2
  <2>4. h \in [0..m -> S]
    BY <2>1, <2>3
  <2>5. h[0] = base
    BY <2>1
  <2>6. ASSUME NEW n \in 1..m PROVE h[n] = g[n][h[n - 1]]
    <3>1. CASE n = m
      BY <3>1
    <3>2. CASE n # m
      BY <2>1, <3>2
    <3> QED BY <3>1, <3>2
  <2>7. Defines(h, m)
    BY <2>4, <2>5, <2>6
  <2> HIDE DEF Defines, h
  <2> QED BY <2>7
<1>3. L \in with
  <2> HIDE DEF with
  <2>1. \A m \in 1..L : m - 1 \in with => m \in with
    BY <1>2
  <2>2. \A m \in 0..L : m \in with
    BY <1>1, <2>1, InductionUpTo
  <2> QED BY <2>2
<1> QED BY <1>3 DEF Recursion

\* Its values are those that the recursion keeps to.
LEMMA RecursionType ==
  ASSUME NEW L \in Nat, NEW S, NEW f, f = [n \in 0..L |-> f[n]], f[0] \in S,
         \A n \in 1..L : f[n - 1] \in S => f[n] \in S
  PROVE  f \in [0..L -> S]
<1> DEFINE with == {n \in 0..L : f[n] \in S}
<1>1. 0 \in with /\ \A n \in 1..L : n - 1 \in with => n \in with
  OBVIOUS
<1>2. \A n \in 0..L : n \in with
  <2> HIDE DEF with
  <2> QED BY <1>1, InductionUpTo
<1> QED BY <1>2

-----------------------------------------------------------------------------
(* Sequences joined, as FlattenSeq joins them.                             *)

\* The first n sequences of s joined, up to each of them.
Joins(f, s, n) == f = [i \in 1..n |-> IF i = 1 THEN s[i] ELSE f[i - 1] \o s[i]]

\* There is such a function, for a sequence of any length.
LEMMA JoinsExist ==
  ASSUME NEW S, NEW s \in Seq(Seq(S))
  PROVE  \E f : Joins(f, s, Len(s))
<1> DEFINE without == {n \in 0..Len(s) : ~ \E f : Joins(f, s, n)}
<1>1. CASE without = {}
  <2>1. Len(s) \in 0..Len(s)
    OBVIOUS
  <2> QED BY <1>1, <2>1, Zenon
<1>2. CASE without # {}
  <2>1. PICK x \in without : \A y \in without : x <= y
    <3>1. without \subseteq Nat
      OBVIOUS
    <3> HIDE DEF without
    <3> QED BY <1>2, <3>1, LeastExists
  <2>2. x \in 0..Len(s) /\ ~ \E f : Joins(f, s, x)
    OBVIOUS
  <2>3. x # 0
    <3> DEFINE f == [i \in 1..0 |-> s[i]]
    <3>1. Joins(f, s, 0)
      BY DEF Joins
    <3> QED BY <2>2, <3>1
  <2>4. x - 1 \in 0..Len(s) /\ ~ (x <= x - 1)
    BY <2>2, <2>3
  <2>5. PICK f : Joins(f, s, x - 1)
    BY <2>1, <2>4
  <2> DEFINE last == IF x = 1 THEN s[x] ELSE f[x - 1] \o s[x]
             g == [i \in 1..x |-> IF i = x THEN last ELSE f[i]]
  <2>6. \A i \in 1..x : g[i] = IF i = 1 THEN s[i] ELSE g[i - 1] \o s[i]
    <3> TAKE i \in 1..x
    <3>1. CASE i = x
      <4>1. g[i] = last /\ (x # 1 => x - 1 \in 1..x /\ x - 1 # x)
        BY <2>2, <3>1
      <4> HIDE DEF last
      <4>2. x # 1 => g[x - 1] = f[x - 1]
        BY <4>1
      <4> QED BY <3>1, <4>1, <4>2 DEF last
    <3>2. CASE i # x
      <4>1. i \in 1..(x - 1) /\ (i # 1 => i - 1 \in 1..x /\ i - 1 # x)
        BY <2>2, <3>2
      <4>2. f[i] = IF i = 1 THEN s[i] ELSE f[i - 1] \o s[i]
        BY <2>5, <4>1 DEF Joins
      <4> HIDE DEF last
      <4> QED BY <3>2, <4>1, <4>2
    <3> QED BY <3>1, <3>2
  <2>7. g = [i \in 1..x |-> IF i = 1 THEN s[i] ELSE g[i - 1] \o s[i]]
    <3>1. g = [i \in 1..x |-> g[i]]
      OBVIOUS
    <3> HIDE DEF g
    <3> QED BY <2>6, <3>1
  <2> HIDE DEF g
  <2> QED BY <2>2, <2>7 DEF Joins
<1> QED BY <1>1, <1>2

Begins(t, s) == Len(s) <= Len(t) /\ \A i \in 1..Len(s) : t[i] = s[i]

\* Joining the first of them does not depend on those that follow.
LEMMA JoinsAgree ==
  ASSUME NEW S, NEW s \in Seq(Seq(S)), NEW t \in Seq(Seq(S)), Begins(t, s),
         NEW f, Joins(f, s, Len(s)), NEW g, Joins(g, t, Len(t))
  PROVE  \A i \in 1..Len(s) : f[i] \in Seq(S) /\ g[i] = f[i]
<1> DEFINE apart == {i \in 1..Len(s) : ~ (f[i] \in Seq(S) /\ g[i] = f[i])}
<1>1. SUFFICES ASSUME apart # {} PROVE FALSE
  OBVIOUS
<1>2. PICK x \in apart : \A y \in apart : x <= y
  <2>1. apart \subseteq Nat
    OBVIOUS
  <2> HIDE DEF apart
  <2> QED BY <1>1, <2>1, LeastExists
<1>3. /\ x \in 1..Len(s) /\ x \in 1..Len(t) /\ ~ (f[x] \in Seq(S) /\ g[x] = f[x])
      /\ s[x] \in Seq(S) /\ t[x] = s[x]
  BY DEF Begins
<1>4. /\ f[x] = IF x = 1 THEN s[x] ELSE f[x - 1] \o s[x]
      /\ g[x] = IF x = 1 THEN t[x] ELSE g[x - 1] \o t[x]
  BY <1>3 DEF Joins
<1>5. x # 1 => f[x - 1] \in Seq(S) /\ g[x - 1] = f[x - 1]
  <2>1. x # 1 => x - 1 \in 1..Len(s) /\ ~ (x <= x - 1)
    BY <1>3
  <2> QED BY <1>2, <2>1
<1>6. CASE x = 1
  BY <1>3, <1>4, <1>6
<1>7. CASE x # 1
  <2>1. f[x - 1] \o s[x] \in Seq(S)
    BY <1>3, <1>5, <1>7, ConcatProperties
  <2> QED BY <1>3, <1>4, <1>5, <1>7, <2>1
<1> QED BY <1>6, <1>7

(***************************************************************************)
(* x is what the sequences of s are joined to: what FlattenSeq makes of a  *)
(* chain's texts, and of the texts and the calls of a document's lexemes.  *)
(***************************************************************************)
JoinedTo(s, x) ==
  IF s = <<>> THEN x = <<>> ELSE \E f : Joins(f, s, Len(s)) /\ x = f[Len(s)]

\* A sequence more at the end is that sequence more at the end.
LEMMA JoinedAppend ==
  ASSUME NEW S, NEW s \in Seq(Seq(S)), NEW e \in Seq(S),
         NEW x, JoinedTo(s, x), NEW y, JoinedTo(Append(s, e), y)
  PROVE  x \in Seq(S) /\ y = x \o e
<1> DEFINE t == Append(s, e)
           n == Len(s)
<1>1. /\ t \in Seq(Seq(S)) /\ Len(t) = n + 1 /\ n \in Nat
      /\ \A i \in 1..n : t[i] = s[i]
      /\ t[n + 1] = e
  OBVIOUS
<1> HIDE DEF t
<1>2. PICK g : Joins(g, t, Len(t)) /\ y = g[Len(t)]
  <2>1. JoinedTo(t, y)
    BY DEF t
  <2>2. t # <<>>
    BY <1>1
  <2> QED BY <2>1, <2>2 DEF JoinedTo
<1>3. y = IF n = 0 THEN e ELSE g[n] \o e
  <2>1. n + 1 \in 1..Len(t) /\ (n + 1 = 1 <=> n = 0) /\ n + 1 - 1 = n
    BY <1>1
  <2>2. \A i \in 1..Len(t) : g[i] = IF i = 1 THEN t[i] ELSE g[i - 1] \o t[i]
    BY <1>2 DEF Joins
  <2>3. g[n + 1] = IF n + 1 = 1 THEN t[n + 1] ELSE g[n + 1 - 1] \o t[n + 1]
    BY <2>1, <2>2
  <2> QED BY <1>1, <1>2, <2>1, <2>3
<1>4. CASE n = 0
  <2>1. s = <<>> /\ x = <<>>
    BY <1>4 DEF JoinedTo
  <2>2. <<>> \o e = e /\ <<>> \in Seq(S)
    BY ConcatEmptySeq
  <2> QED BY <1>3, <1>4, <2>1, <2>2
<1>5. CASE n # 0
  <2>1. PICK f : Joins(f, s, n) /\ x = f[n]
    BY <1>5 DEF JoinedTo
  <2>2. n \in 1..n /\ Begins(t, s)
    BY <1>1, <1>5 DEF Begins
  <2>3. \A i \in 1..Len(s) : f[i] \in Seq(S) /\ g[i] = f[i]
    BY <1>1, <1>2, <2>1, <2>2, JoinsAgree
  <2> QED BY <1>3, <1>5, <2>1, <2>2, <2>3
<1> QED BY <1>4, <1>5
=============================================================================
