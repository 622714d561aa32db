--------------------------- MODULE InductionLemmas ---------------------------
(***************************************************************************)
(* What the proofs about recursive definitions rest on: every non-empty    *)
(* set of natural numbers has a least element.  A statement about all      *)
(* numbers is then proved from the least one it fails for, and a function  *)
(* defined by recursion over an interval exists and is unique.             *)
(***************************************************************************)
EXTENDS Integers, Subsequences, SequencesExt, SequenceTheorems,
        FiniteSetTheorems, WellFoundedInduction, TLAPS

\* The order of the natural numbers as the relation the library speaks of.
LEMMA LessInRelation ==
  ASSUME NEW x \in Nat, NEW y \in Nat, x < y
  PROVE  <<x, y>> \in OpToRel(<, Nat)
BY DEF OpToRel

\* Every non-empty set of natural numbers has a least element.
LEMMA LeastNatural ==
  ASSUME NEW T \in SUBSET Nat, T # {}
  PROVE  \E x \in T : \A y \in T : x <= y
<1> DEFINE R == OpToRel(<, Nat)
<1>1. IsWellFoundedOn(R, Nat)
  BY NatLessThanWellFounded
<1>2. \A x, y \in Nat : x < y => <<x, y>> \in R
  BY LessInRelation
<1> HIDE DEF R
<1>3. PICK x \in T : \A y \in T : ~(<<y, x>> \in R)
  BY <1>1, WFMin
<1>4. ASSUME NEW y \in T PROVE x <= y
  <2>1. x \in Nat /\ y \in Nat
    OBVIOUS
  <2>2. ~(y < x)
    BY <1>2, <1>3, <2>1
  <2>3. QED
    BY <2>1, <2>2
<1>5. QED
  BY <1>4

\* Induction: a set of natural numbers that holds 0, and with each number of
\* 0..n the next one, holds all of 0..n.
LEMMA UpTo ==
  ASSUME NEW n \in Nat, NEW P, 0 \in P,
         \A i \in 1..n : i - 1 \in P => i \in P
  PROVE  \A i \in 0..n : i \in P
<1> DEFINE T == {i \in 0..n : i \notin P}
<1>1. SUFFICES ASSUME T # {} PROVE FALSE
  OBVIOUS
<1>2. T \in SUBSET Nat
  OBVIOUS
<1>3. PICK k \in T : \A m \in T : k <= m
  BY <1>1, <1>2, LeastNatural
<1>4. k \in 1..n /\ k - 1 \in 0..n
  OBVIOUS
<1>5. k - 1 \notin T
  BY <1>3, <1>4
<1>6. QED
  BY <1>4, <1>5

\* f is the function on 0..n with values in S that begins with c and goes on
\* as step says.
Recurses(f, n, S, c, step) ==
  /\ f \in [0..n -> S]
  /\ f[0] = c
  /\ \A i \in 1..n : f[i] = step[<<i, f[i - 1]>>]

\* A function defined by recursion over 0..n exists.
LEMMA RecursionExists ==
  ASSUME NEW n \in Nat, NEW S, NEW c \in S,
         NEW step \in [(1..n) \X S -> S]
  PROVE  \E f : Recurses(f, n, S, c, step)
<1> DEFINE P == {k \in 0..n : \E f : Recurses(f, k, S, c, step)}
<1>1. 0 \in P
  <2>1. Recurses([i \in 0..0 |-> c], 0, S, c, step)
    BY DEF Recurses
  <2>2. QED
    BY <2>1
<1>2. ASSUME NEW k \in 1..n, k - 1 \in P PROVE k \in P
  <2>1. PICK f : Recurses(f, k - 1, S, c, step)
    BY <1>2
  <2> DEFINE x == step[<<k, f[k - 1]>>]
             g == [i \in 0..k |-> IF i = k THEN x ELSE f[i]]
  <2>2. k - 1 \in 0..(k - 1) /\ f \in [0..(k - 1) -> S] /\ f[0] = c
    BY <2>1 DEF Recurses
  <2>3. x \in S
    BY <2>2
  <2> HIDE DEF x
  <2>4. g \in [0..k -> S] /\ g[0] = c
    BY <2>2, <2>3
  <2>5. ASSUME NEW i \in 1..k PROVE g[i] = step[<<i, g[i - 1]>>]
    <3>1. g[i - 1] = f[i - 1]
      OBVIOUS
    <3>2. CASE i = k
      <4>1. g[i] = x /\ g[i - 1] = f[k - 1]
        BY <3>1, <3>2
      <4>2. QED
        BY <3>2, <4>1 DEF x
    <3>3. CASE i \in 1..(k - 1)
      BY <2>1, <3>1, <3>3 DEF Recurses
    <3>4. QED
      BY <3>2, <3>3
  <2>6. Recurses(g, k, S, c, step)
    BY <2>4, <2>5 DEF Recurses
  <2>7. QED
    BY <2>6
<1> HIDE DEF P
<1>3. n \in P
  BY <1>1, <1>2, UpTo
<1>4. QED
  BY <1>3 DEF P

-----------------------------------------------------------------------------
(* Division by the number of bits of a byte                                *)

\* Quotient and remainder of a natural number.
LEMMA DivMod ==
  ASSUME NEW b \in Nat \ {0}, NEW n \in Nat
  PROVE  /\ n \div b \in Nat
         /\ n % b \in 0..(b - 1)
         /\ n = (n \div b) * b + (n % b)
OBVIOUS

\* They are the only ones.
LEMMA DivModUnique ==
  ASSUME NEW b \in Nat \ {0}, NEW q \in Nat, NEW r \in 0..(b - 1)
  PROVE  /\ (q * b + r) \div b = q
         /\ (q * b + r) % b = r
OBVIOUS

\* Counting on by one either stays within a byte or begins the next one.
LEMMA CountOn ==
  ASSUME NEW b \in Nat \ {0}, NEW n \in Nat
  PROVE  \/ /\ (n + 1) % b = 0 /\ n % b = b - 1
            /\ (n + 1) \div b = (n \div b) + 1
         \/ /\ (n + 1) % b # 0 /\ (n + 1) % b = (n % b) + 1
            /\ (n + 1) \div b = n \div b
<1> DEFINE q == n \div b
           r == n % b
<1>1. q \in Nat /\ r \in 0..(b - 1) /\ n = q * b + r
  BY DivMod
<1> HIDE DEF q, r
<1>2. CASE r = b - 1
  <2>1. n + 1 = (q + 1) * b + 0
    BY <1>1, <1>2
  <2>2. (n + 1) \div b = q + 1 /\ (n + 1) % b = 0
    BY <1>1, <2>1, DivModUnique
  <2>3. QED
    BY <1>2, <2>2 DEF q, r
<1>3. CASE r < b - 1
  <2>1. n + 1 = q * b + (r + 1) /\ r + 1 \in 0..(b - 1)
    BY <1>1, <1>3
  <2>2. (n + 1) \div b = q /\ (n + 1) % b = r + 1
    BY <1>1, <2>1, DivModUnique
  <2>3. r + 1 # 0
    BY <1>1
  <2>4. QED
    BY <2>2, <2>3 DEF q, r
<1>4. QED
  BY <1>1, <1>2, <1>3

-----------------------------------------------------------------------------
(* Subsequences                                                            *)

\* Picks is what its recursive definition says.
LEMMA PicksDefined ==
  ASSUME NEW S, NEW s \in Seq(S), NEW I
  PROVE  /\ Picks(s, I) \in [0..Len(s) -> Seq(S)]
         /\ Picks(s, I)[0] = <<>>
         /\ \A i \in 1..Len(s) :
              Picks(s, I)[i] = IF i \in I THEN Append(Picks(s, I)[i - 1], s[i])
                               ELSE Picks(s, I)[i - 1]
<1> DEFINE n == Len(s)
           Q == Seq(S)
           one(i, x) == IF i \in I THEN Append(x, s[i]) ELSE x
           step == [p \in (1..n) \X Q |-> one(p[1], p[2])]
           V(f) == f = [i \in 0..n |-> IF i = 0 THEN <<>>
                                       ELSE IF i \in I THEN Append(f[i - 1], s[i])
                                       ELSE f[i - 1]]
           v == CHOOSE f : V(f)
<1>1. n \in Nat /\ \A i \in 1..n : s[i] \in S
  BY LenProperties, ElementOfSeq
<1>2. \A i \in 1..n, x \in Q : one(i, x) \in Q
  <2> TAKE i \in 1..n, x \in Q
  <2>1. s[i] \in S
    BY <1>1
  <2>2. Append(x, s[i]) \in Seq(S)
    BY <2>1, AppendProperties
  <2>3. QED
    BY <2>2
<1>3. <<>> \in Q
  BY EmptySeq
<1> HIDE DEF n, Q, one
<1>4. /\ step \in [(1..n) \X Q -> Q]
      /\ \A i \in 1..n, x \in Q : step[<<i, x>>] = one(i, x)
  BY <1>2
<1> HIDE DEF step
<1>5. PICK f : Recurses(f, n, Q, <<>>, step)
  BY <1>1, <1>3, <1>4, RecursionExists
<1>6. V(f)
  <2>1. ASSUME NEW i \in 1..n PROVE f[i] = one(i, f[i - 1])
    <3>1. i - 1 \in 0..n
      BY <1>1
    <3>2. QED
      BY <1>4, <1>5, <3>1 DEF Recurses
  <2>2. f = [i \in 0..n |-> f[i]] /\ f[0] = <<>>
    BY <1>5 DEF Recurses
  <2>3. ASSUME NEW i \in 0..n
        PROVE  f[i] = IF i = 0 THEN <<>>
                      ELSE IF i \in I THEN Append(f[i - 1], s[i]) ELSE f[i - 1]
    <3>1. i = 0 \/ i \in 1..n
      BY <1>1
    <3>2. QED
      BY <2>1, <2>2, <3>1 DEF one
  <2>4. QED
    BY <2>2, <2>3
<1>7. V(v)
  BY <1>6
<1>8. Picks(s, I) = v
  BY DEF Picks, n
<1> HIDE DEF v
<1>9. v = [i \in 0..n |-> v[i]]
  BY <1>7
<1>10. v[0] = <<>> /\ \A i \in 1..n : v[i] = one(i, v[i - 1])
  <2>1. \A i \in 0..n : v[i] = IF i = 0 THEN <<>>
                               ELSE IF i \in I THEN Append(v[i - 1], s[i])
                               ELSE v[i - 1]
    BY <1>7
  <2>2. 0 \in 0..n /\ \A i \in 1..n : i \in 0..n /\ i # 0
    BY <1>1
  <2>3. QED
    BY <2>1, <2>2 DEF one
<1> HIDE DEF V
<1>11. v \in [0..n -> Q]
  <2> DEFINE P == {i \in 0..n : v[i] \in Q}
  <2>1. 0 \in P
    BY <1>1, <1>3, <1>10
  <2>2. ASSUME NEW i \in 1..n, i - 1 \in P PROVE i \in P
    <3>1. v[i - 1] \in Q /\ i \in 0..n
      BY <1>1, <2>2
    <3>2. v[i] \in Q
      BY <1>2, <1>10, <3>1
    <3>3. QED
      BY <3>1, <3>2
  <2> HIDE DEF P
  <2>3. \A i \in 0..n : i \in P
    BY <1>1, <2>1, <2>2, UpTo
  <2>4. \A i \in 0..n : v[i] \in Q
    BY <2>3 DEF P
  <2>5. QED
    BY <1>9, <2>4
<1>12. QED
  BY <1>8, <1>10, <1>11 DEF n, Q, one

\* A subsequence is a sequence of elements of the same set.
LEMMA ChosenType ==
  ASSUME NEW S, NEW s \in Seq(S), NEW I
  PROVE  Chosen(s, I) \in Seq(S)
<1>1. Len(s) \in 0..Len(s)
  BY LenProperties
<1>2. QED
  BY <1>1, PicksDefined DEF Chosen

\* The first n elements of two sequences are the same, and so is which of them
\* are to be chosen.
Agree(s, I, t, J, n) ==
  /\ n <= Len(s) /\ n <= Len(t)
  /\ \A i \in 1..n : s[i] = t[i] /\ (i \in I <=> i \in J)

\* As far as two sequences agree, the same is picked of them.
LEMMA PicksAgree ==
  ASSUME NEW S, NEW s \in Seq(S), NEW t \in Seq(S), NEW I, NEW J, NEW n \in Nat,
         Agree(s, I, t, J, n)
  PROVE  Picks(s, I)[n] = Picks(t, J)[n]
<1> DEFINE f == Picks(s, I)
           g == Picks(t, J)
           P == {i \in 0..n : f[i] = g[i]}
<1>1. Len(s) \in Nat /\ Len(t) \in Nat
  BY LenProperties
<1>2. /\ f[0] = <<>>
      /\ \A i \in 1..Len(s) : f[i] = IF i \in I THEN Append(f[i - 1], s[i]) ELSE f[i - 1]
  BY PicksDefined
<1>3. /\ g[0] = <<>>
      /\ \A i \in 1..Len(t) : g[i] = IF i \in J THEN Append(g[i - 1], t[i]) ELSE g[i - 1]
  BY PicksDefined
<1> HIDE DEF f, g
<1>4. 0 \in P
  BY <1>2, <1>3
<1>5. ASSUME NEW i \in 1..n, i - 1 \in P PROVE i \in P
  <2>1. f[i - 1] = g[i - 1] /\ i \in 1..Len(s) /\ i \in 1..Len(t) /\ i \in 0..n
    BY <1>1, <1>5 DEF Agree
  <2>2. s[i] = t[i] /\ (i \in I <=> i \in J)
    BY DEF Agree
  <2>3. f[i] = g[i]
    BY <1>2, <1>3, <2>1, <2>2
  <2>4. QED
    BY <2>1, <2>3
<1> HIDE DEF P
<1>6. \A i \in 0..n : i \in P
  BY <1>4, <1>5, UpTo
<1>7. n \in P
  BY <1>6
<1>8. QED
  BY <1>7 DEF P, f, g

\* One element more is chosen or not.
LEMMA ChosenAppend ==
  ASSUME NEW S, NEW s \in Seq(S), NEW e \in S, NEW I, NEW J,
         \A i \in 1..Len(s) : i \in I <=> i \in J
  PROVE  Chosen(Append(s, e), J) = IF Len(s) + 1 \in J THEN Append(Chosen(s, I), e)
                                   ELSE Chosen(s, I)
<1> DEFINE t == Append(s, e)
           n == Len(s)
<1>1. /\ t \in Seq(S) /\ Len(t) = n + 1 /\ n \in Nat
      /\ t[n + 1] = e /\ \A i \in 1..n : s[i] = t[i]
  BY AppendProperties, LenProperties
<1> HIDE DEF t
<1>2. Picks(s, I)[n] = Picks(t, J)[n]
  <2>1. Agree(s, I, t, J, n)
    BY <1>1 DEF Agree
  <2>2. t \in Seq(S) /\ n \in Nat
    BY <1>1
  <2> HIDE DEF n
  <2>3. QED
    BY <2>1, <2>2, PicksAgree
<1>3. Picks(t, J)[n + 1] = IF n + 1 \in J THEN Append(Picks(t, J)[n], t[n + 1])
                           ELSE Picks(t, J)[n]
  <2>1. n + 1 \in 1..Len(t) /\ (n + 1) - 1 = n
    BY <1>1
  <2>2. \A i \in 1..Len(t) :
          Picks(t, J)[i] = IF i \in J THEN Append(Picks(t, J)[i - 1], t[i])
                           ELSE Picks(t, J)[i - 1]
    BY <1>1, PicksDefined
  <2>3. QED
    BY <2>1, <2>2
<1>4. QED
  BY <1>1, <1>2, <1>3 DEF Chosen, t

\* The first element is chosen or not, and what is chosen of the rest follows.
LEMMA ChosenTail ==
  ASSUME NEW S, NEW s \in Seq(S), s # <<>>, NEW I, NEW J,
         \A i \in 1..(Len(s) - 1) : i + 1 \in I <=> i \in J
  PROVE  Chosen(s, I) = (IF 1 \in I THEN <<Head(s)>> ELSE <<>>) \o Chosen(Tail(s), J)
<1> DEFINE t == Tail(s)
           n == Len(t)
           first == IF 1 \in I THEN <<Head(s)>> ELSE <<>>
           f == Picks(s, I)
           g == Picks(t, J)
           P == {i \in 0..n : f[i + 1] = first \o g[i]}
<1>1. /\ t \in Seq(S) /\ n \in Nat /\ Len(s) = n + 1 /\ Head(s) = s[1]
      /\ \A i \in 1..n : t[i] = s[i + 1]
      /\ Head(s) \in S
  BY HeadTailProperties, LenProperties
<1>2. first \in Seq(S)
  BY <1>1, EmptySeq
<1>3. /\ f \in [0..Len(s) -> Seq(S)] /\ f[0] = <<>>
      /\ \A i \in 1..Len(s) : f[i] = IF i \in I THEN Append(f[i - 1], s[i]) ELSE f[i - 1]
  BY PicksDefined
<1>4. /\ g \in [0..n -> Seq(S)] /\ g[0] = <<>>
      /\ \A i \in 1..n : g[i] = IF i \in J THEN Append(g[i - 1], t[i]) ELSE g[i - 1]
  <2> HIDE DEF t
  <2>1. t \in Seq(S)
    BY <1>1
  <2>2. QED
    BY <2>1, PicksDefined
<1> HIDE DEF f, g, t, n
<1>5. 0 \in P
  <2>1. f[1] = IF 1 \in I THEN Append(<<>>, s[1]) ELSE <<>>
    <3>1. 1 \in 1..Len(s) /\ 1 - 1 = 0
      BY <1>1
    <3>2. QED
      BY <1>3, <3>1
  <2>2. Append(<<>>, s[1]) = <<s[1]>>
    BY <1>1
  <2>3. f[1] = first
    BY <1>1, <2>1, <2>2
  <2>4. first \o <<>> = first
    BY <1>2, ConcatEmptySeq
  <2> HIDE DEF first
  <2>5. 0 \in 0..n /\ 0 + 1 = 1
    BY <1>1
  <2>6. QED
    BY <1>4, <2>3, <2>4, <2>5
<1> HIDE DEF first
<1>6. ASSUME NEW i \in 1..n, i - 1 \in P PROVE i \in P
  <2>1. f[i] = first \o g[i - 1]
    <3>1. (i - 1) + 1 = i
      BY <1>1
    <3>2. QED
      BY <1>6, <3>1
  <2>2. /\ i + 1 \in 1..Len(s) /\ (i + 1) - 1 = i /\ i \in 0..n /\ i - 1 \in 0..n
        /\ i \in 1..(Len(s) - 1)
    BY <1>1
  <2>3. f[i + 1] = IF i + 1 \in I THEN Append(f[i], s[i + 1]) ELSE f[i]
    BY <1>3, <2>2
  <2>4. g[i] = IF i \in J THEN Append(g[i - 1], t[i]) ELSE g[i - 1]
    BY <1>4
  <2>5. (i + 1 \in I <=> i \in J) /\ t[i] = s[i + 1] /\ t[i] \in S
    BY <1>1, <2>2, ElementOfSeq DEF n
  <2>6. g[i - 1] \in Seq(S)
    BY <1>4, <2>2
  <2>7. Append(first \o g[i - 1], t[i]) = first \o Append(g[i - 1], t[i])
    <3>1. \A q, r \in Seq(S), x \in S : Append(q \o r, x) = q \o Append(r, x)
      <4> TAKE q, r \in Seq(S), x \in S
      <4>1. <<x>> \in Seq(S) /\ q \o r \in Seq(S)
        BY ConcatProperties
      <4>2. Append(q \o r, x) = (q \o r) \o <<x>> /\ Append(r, x) = r \o <<x>>
        BY <4>1, AppendIsConcat
      <4>3. (q \o r) \o <<x>> = q \o (r \o <<x>>)
        BY <4>1, ConcatAssociative, SMTT(30)
      <4>4. QED
        BY <4>2, <4>3
    <3>2. QED
      BY <1>2, <2>5, <2>6, <3>1
  <2>8. f[i + 1] = first \o g[i]
    BY <2>1, <2>3, <2>4, <2>5, <2>7
  <2>9. QED
    BY <2>2, <2>8
<1> HIDE DEF P
<1>7. \A i \in 0..n : i \in P
  BY <1>1, <1>5, <1>6, UpTo
<1>8. n \in P
  BY <1>1, <1>7
<1>9. f[n + 1] = first \o g[n]
  BY <1>8 DEF P
<1>10. QED
  BY <1>1, <1>9 DEF Chosen, f, g, first, n, t

\* What is chosen are the elements at those positions.
LEMMA ChosenElements ==
  ASSUME NEW S, NEW s \in Seq(S), NEW I, NEW k \in 1..Len(Chosen(s, I))
  PROVE  \E i \in 1..Len(s) : i \in I /\ Chosen(s, I)[k] = s[i]
<1> DEFINE n == Len(s)
           f == Picks(s, I)
           Elem(x) == \E i \in 1..n : i \in I /\ x = s[i]
           P == {i \in 0..n : \A j \in 1..Len(f[i]) : Elem(f[i][j])}
<1>1. n \in Nat /\ \A i \in 1..n : s[i] \in S
  BY LenProperties, ElementOfSeq
<1>2. /\ f \in [0..n -> Seq(S)] /\ f[0] = <<>>
      /\ \A i \in 1..n : f[i] = IF i \in I THEN Append(f[i - 1], s[i]) ELSE f[i - 1]
  BY PicksDefined
<1> HIDE DEF f, n
<1>3. 0 \in P
  <2>1. Len(f[0]) = 0
    BY <1>2, EmptySeq
  <2>2. QED
    BY <1>1, <2>1
<1>4. ASSUME NEW i \in 1..n, i - 1 \in P PROVE i \in P
  <2>1. i - 1 \in 0..n /\ i \in 0..n
    BY <1>1
  <2>2. f[i - 1] \in Seq(S) /\ s[i] \in S
    BY <1>1, <1>2, <2>1
  <2>3. \A j \in 1..Len(f[i - 1]) : Elem(f[i - 1][j])
    BY <1>4
  <2>4. CASE i \in I
    <3>1. Elem(s[i])
      BY <2>4
    <3> HIDE DEF Elem
    <3>2. f[i] = Append(f[i - 1], s[i])
      BY <1>2, <2>4
    <3>3. /\ Len(f[i]) = Len(f[i - 1]) + 1 /\ Len(f[i - 1]) \in Nat
          /\ \A j \in 1..Len(f[i - 1]) : f[i][j] = f[i - 1][j]
          /\ f[i][Len(f[i - 1]) + 1] = s[i]
      BY <2>2, <3>2, AppendProperties, LenProperties
    <3>4. ASSUME NEW j \in 1..Len(f[i]) PROVE Elem(f[i][j])
      <4>1. j \in 1..Len(f[i - 1]) \/ j = Len(f[i - 1]) + 1
        BY <3>3
      <4>2. QED
        BY <2>3, <3>1, <3>3, <4>1
    <3>5. QED
      BY <2>1, <3>4
  <2>5. CASE i \notin I
    <3>1. f[i] = f[i - 1]
      BY <1>2, <2>5
    <3> HIDE DEF Elem
    <3>2. QED
      BY <2>1, <2>3, <3>1
  <2>6. QED
    BY <2>4, <2>5
<1> HIDE DEF P
<1>5. \A i \in 0..n : i \in P
  BY <1>1, <1>3, <1>4, UpTo
<1>6. n \in P
  BY <1>1, <1>5
<1>7. Chosen(s, I) = f[n]
  BY DEF Chosen, f, n
<1>8. \A j \in 1..Len(f[n]) : Elem(f[n][j])
  BY <1>6 DEF P
<1>9. QED
  BY <1>7, <1>8 DEF n
\* What is chosen at no position is nothing.
LEMMA ChosenNone ==
  ASSUME NEW S, NEW s \in Seq(S), NEW I, \A i \in 1..Len(s) : i \notin I
  PROVE  Chosen(s, I) = <<>>
<1> DEFINE n == Len(s)
           f == Picks(s, I)
           P == {i \in 0..n : f[i] = <<>>}
<1>1. n \in Nat
  BY LenProperties
<1>2. f[0] = <<>> /\ \A i \in 1..n : f[i] = f[i - 1]
  BY PicksDefined
<1> HIDE DEF f, n
<1>3. 0 \in P
  BY <1>1, <1>2
<1>4. ASSUME NEW i \in 1..n, i - 1 \in P PROVE i \in P
  BY <1>1, <1>2, <1>4
<1> HIDE DEF P
<1>5. \A i \in 0..n : i \in P
  BY <1>1, <1>3, <1>4, UpTo
<1>6. n \in P
  BY <1>1, <1>5
<1>7. QED
  BY <1>6 DEF Chosen, P, f, n

\* The first position, k, yields the first element; the others the rest.
LEMMA ChosenFirst ==
  ASSUME NEW S, NEW s \in Seq(S), NEW I, NEW J, NEW k \in 1..Len(s),
         k \in I, k \notin J,
         \A i \in 1..(k - 1) : i \notin I /\ i \notin J,
         \A i \in (k + 1)..Len(s) : i \in I <=> i \in J
  PROVE  Chosen(s, I) = <<s[k]>> \o Chosen(s, J)
<1> DEFINE n == Len(s)
           f == Picks(s, I)
           g == Picks(s, J)
           P == {i \in 0..n : /\ i < k => f[i] = <<>> /\ g[i] = <<>>
                              /\ i >= k => f[i] = <<s[k]>> \o g[i]}
<1>1. n \in Nat /\ \A i \in 1..n : s[i] \in S
  BY LenProperties, ElementOfSeq
<1>2. /\ f[0] = <<>>
      /\ \A i \in 1..n : f[i] = IF i \in I THEN Append(f[i - 1], s[i]) ELSE f[i - 1]
  BY PicksDefined
<1>3. /\ g \in [0..n -> Seq(S)] /\ g[0] = <<>>
      /\ \A i \in 1..n : g[i] = IF i \in J THEN Append(g[i - 1], s[i]) ELSE g[i - 1]
  BY PicksDefined
<1>4. k \in 1..n
  OBVIOUS
<1>5. \A i \in (k + 1)..n : i \in I <=> i \in J
  OBVIOUS
<1> HIDE DEF f, g, n
<1>6. 0 \in P
  BY <1>1, <1>2, <1>3, <1>4
<1>7. ASSUME NEW i \in 1..n, i - 1 \in P PROVE i \in P
  <2>1. i - 1 \in 0..n /\ i \in 0..n /\ g[i - 1] \in Seq(S) /\ s[i] \in S
    BY <1>1, <1>3
  <2>2. CASE i < k
    <3>1. i \notin I /\ i \notin J
      BY <1>4, <2>2
    <3>2. f[i - 1] = <<>> /\ g[i - 1] = <<>>
      BY <1>4, <1>7, <2>2
    <3>3. f[i] = <<>> /\ g[i] = <<>>
      BY <1>2, <1>3, <3>1, <3>2
    <3>4. QED
      BY <1>4, <2>1, <2>2, <3>3
  <2>3. CASE i = k
    <3>1. f[i - 1] = <<>> /\ g[i - 1] = <<>>
      BY <1>4, <1>7, <2>3
    <3>2. f[i] = Append(<<>>, s[k]) /\ g[i] = <<>>
      BY <1>2, <1>3, <2>3, <3>1
    <3>3. Append(<<>>, s[k]) = <<s[k]>> /\ <<s[k]>> \o <<>> = <<s[k]>>
      BY <2>1, <2>3, ConcatEmptySeq
    <3>4. f[i] = <<s[k]>> \o g[i]
      BY <3>2, <3>3
    <3>5. QED
      BY <2>1, <2>3, <3>4
  <2>4. CASE i > k
    <3>1. i \in I <=> i \in J
      BY <1>1, <1>5, <2>4
    <3>2. f[i - 1] = <<s[k]>> \o g[i - 1]
      BY <1>4, <1>7, <2>4
    <3>3. Append(<<s[k]>> \o g[i - 1], s[i]) = <<s[k]>> \o Append(g[i - 1], s[i])
      <4>1. \A q, r \in Seq(S), x \in S : Append(q \o r, x) = q \o Append(r, x)
        <5> TAKE q, r \in Seq(S), x \in S
        <5>1. <<x>> \in Seq(S) /\ q \o r \in Seq(S)
          BY ConcatProperties
        <5>2. Append(q \o r, x) = (q \o r) \o <<x>> /\ Append(r, x) = r \o <<x>>
          BY <5>1, AppendIsConcat
        <5>3. (q \o r) \o <<x>> = q \o (r \o <<x>>)
          BY <5>1, ConcatAssociative, SMTT(30)
        <5>4. QED
          BY <5>2, <5>3
      <4> DEFINE a == <<s[k]>>
                 b == g[i - 1]
      <4>2. a \in Seq(S) /\ b \in Seq(S)
        BY <1>1, <1>4, <2>1
      <4> HIDE DEF a, b
      <4>3. Append(a \o b, s[i]) = a \o Append(b, s[i])
        BY <2>1, <4>1, <4>2
      <4>4. QED
        BY <4>3 DEF a, b
    <3>4. f[i] = <<s[k]>> \o g[i]
      BY <1>2, <1>3, <3>1, <3>2, <3>3
    <3>5. QED
      BY <2>1, <2>4, <3>4
  <2>5. QED
    BY <1>4, <2>2, <2>3, <2>4
<1> HIDE DEF P
<1>8. \A i \in 0..n : i \in P
  BY <1>1, <1>6, <1>7, UpTo
<1>9. n \in P /\ n >= k
  BY <1>1, <1>4, <1>8
<1>10. f[n] = <<s[k]>> \o g[n]
  BY <1>9 DEF P
<1>11. QED
  BY <1>10 DEF Chosen, f, g, n

\* The elements at the positions from a + 1 to b are a part of the sequence.
LEMMA ChosenInterval ==
  ASSUME NEW S, NEW s \in Seq(S), NEW I, NEW a \in 0..Len(s), NEW b \in 0..Len(s),
         \A i \in 1..Len(s) : i \in I <=> (a < i /\ i <= b)
  PROVE  Chosen(s, I) = SubSeq(s, a + 1, b)
<1> DEFINE n == Len(s)
           f == Picks(s, I)
           upto(i) == IF i <= b THEN i ELSE b
           size(i) == IF a <= upto(i) THEN upto(i) - a ELSE 0
           P == {i \in 0..n : /\ Len(f[i]) = size(i)
                              /\ \A q \in 1..size(i) : f[i][q] = s[a + q]}
<1>1. n \in Nat /\ \A i \in 1..n : s[i] \in S
  BY LenProperties, ElementOfSeq
<1>2. /\ f \in [0..n -> Seq(S)] /\ f[0] = <<>>
      /\ \A i \in 1..n : f[i] = IF i \in I THEN Append(f[i - 1], s[i]) ELSE f[i - 1]
  BY PicksDefined
<1>3. a \in 0..n /\ b \in 0..n /\ \A i \in 1..n : i \in I <=> (a < i /\ i <= b)
  OBVIOUS
<1> HIDE DEF f, n
<1>4. 0 \in P
  <2>1. size(0) = 0 /\ Len(f[0]) = 0
    BY <1>2, <1>3, EmptySeq
  <2>2. QED
    BY <1>1, <2>1
<1>5. ASSUME NEW i \in 1..n, i - 1 \in P PROVE i \in P
  <2>1. i - 1 \in 0..n /\ i \in 0..n /\ f[i - 1] \in Seq(S) /\ s[i] \in S
    BY <1>1, <1>2
  <2>2. /\ Len(f[i - 1]) = size(i - 1)
        /\ \A q \in 1..size(i - 1) : f[i - 1][q] = s[a + q]
    BY <1>5
  <2>3. CASE a < i /\ i <= b
    <3>1. size(i - 1) = i - 1 - a /\ size(i) = i - a /\ i - a - 1 \in Nat
      BY <1>3, <2>3
    <3> HIDE DEF size
    <3>2. f[i] = Append(f[i - 1], s[i])
      BY <1>2, <1>3, <2>3
    <3>3. /\ Len(f[i]) = Len(f[i - 1]) + 1
          /\ \A q \in 1..Len(f[i - 1]) : f[i][q] = f[i - 1][q]
          /\ f[i][Len(f[i - 1]) + 1] = s[i]
      BY <2>1, <3>2, AppendProperties
    <3>4. ASSUME NEW q \in 1..size(i) PROVE f[i][q] = s[a + q]
      <4>1. q \in 1..(i - 1 - a) \/ (q = i - a /\ a + q = i)
        BY <1>3, <3>1
      <4>2. CASE q \in 1..(i - 1 - a)
        BY <2>2, <3>1, <3>3, <4>2
      <4>3. CASE q = i - a /\ a + q = i
        <5>1. Len(f[i - 1]) + 1 = q
          BY <1>3, <2>2, <3>1, <4>3
        <5>2. QED
          BY <3>3, <4>3, <5>1
      <4>4. QED
        BY <4>1, <4>2, <4>3
    <3>5. Len(f[i]) = size(i)
      BY <1>3, <2>2, <3>1, <3>3
    <3>6. QED
      BY <2>1, <3>4, <3>5
  <2>4. CASE ~(a < i /\ i <= b)
    <3>1. f[i] = f[i - 1]
      BY <1>2, <1>3, <2>4
    <3>2. size(i) = size(i - 1)
      BY <1>3, <2>4
    <3> HIDE DEF size
    <3>3. QED
      BY <2>1, <2>2, <3>1, <3>2
  <2>5. QED
    BY <2>3, <2>4
<1> HIDE DEF P
<1>6. \A i \in 0..n : i \in P
  BY <1>1, <1>4, <1>5, UpTo
<1>7. n \in P /\ n \in 0..n /\ f[n] \in Seq(S)
  BY <1>1, <1>2, <1>6
<1>8. /\ Len(f[n]) = size(n) /\ \A q \in 1..size(n) : f[n][q] = s[a + q]
      /\ size(n) = IF a <= b THEN b - a ELSE 0
  BY <1>3, <1>7 DEF P
<1> DEFINE t == SubSeq(s, a + 1, b)
<1>9. /\ t \in Seq(S) /\ Len(t) = IF a + 1 <= b THEN b - (a + 1) + 1 ELSE 0
      /\ \A q \in 1..(b - (a + 1) + 1) : t[q] = s[a + 1 + q - 1]
  <2>1. \A i \in (a + 1)..b : s[i] \in S
    BY <1>1, <1>3
  <2>2. a + 1 \in Int /\ b \in Int
    BY <1>3
  <2>3. QED
    BY <2>1, <2>2, SubSeqProperties
<1> HIDE DEF t, size
<1>10. Len(t) = size(n) /\ \A q \in 1..size(n) : t[q] = s[a + q]
  <2>1. Len(t) = size(n)
    BY <1>3, <1>8, <1>9
  <2>2. ASSUME NEW q \in 1..size(n) PROVE t[q] = s[a + q]
    <3>1. q \in 1..(b - (a + 1) + 1) /\ a + 1 + q - 1 = a + q
      BY <1>3, <1>8
    <3>2. QED
      BY <1>9, <3>1
  <2>3. QED
    BY <2>1, <2>2
<1>11. f[n] = t
  <2>1. Len(f[n]) = Len(t) /\ \A q \in 1..Len(f[n]) : f[n][q] = t[q]
    BY <1>8, <1>10
  <2>2. QED
    BY <1>7, <1>9, <2>1, SeqEqual
<1>12. QED
  BY <1>11 DEF Chosen, f, t, n
-----------------------------------------------------------------------------
(* Sequences of sequences                                                  *)

\* FlattenSeq is what its recursive definition says: f[i] are the first i
\* sequences one after the other.
LEMMA FlattenDefined ==
  ASSUME NEW S, NEW seqs \in Seq(Seq(S))
  PROVE  \E f \in [0..Len(seqs) -> Seq(S)] :
           /\ f[0] = <<>>
           /\ \A i \in 1..Len(seqs) : f[i] = f[i - 1] \o seqs[i]
           /\ FlattenSeq(seqs) = f[Len(seqs)]
<1> DEFINE n == Len(seqs)
           Q == Seq(S)
           V(f) == f = [i \in 1..n |-> IF i = 1 THEN seqs[i] ELSE f[i - 1] \o seqs[i]]
           v == CHOOSE f : V(f)
           step == [p \in (1..n) \X Q |-> p[2] \o seqs[p[1]]]
<1>1. n \in Nat /\ \A i \in 1..n : seqs[i] \in Q
  BY LenProperties, ElementOfSeq
<1>2. <<>> \in Q /\ \A x, y \in Q : x \o y \in Q /\ <<>> \o y = y
  BY EmptySeq, ConcatProperties, ConcatEmptySeq
<1>3. n = 0 => FlattenSeq(seqs) = <<>>
  BY EmptySeq DEF FlattenSeq
<1>4. n # 0 => FlattenSeq(seqs) = v[n]
  BY DEF FlattenSeq
<1> HIDE DEF n, Q
<1>5. /\ step \in [(1..n) \X Q -> Q]
      /\ \A i \in 1..n, x \in Q : step[<<i, x>>] = x \o seqs[i]
  BY <1>1, <1>2
<1> HIDE DEF step
<1>6. PICK f : Recurses(f, n, Q, <<>>, step)
  BY <1>1, <1>2, <1>5, RecursionExists
<1>7. /\ f \in [0..n -> Q] /\ f[0] = <<>>
      /\ \A i \in 1..n : f[i] = f[i - 1] \o seqs[i]
  <2>1. ASSUME NEW i \in 1..n PROVE f[i] = f[i - 1] \o seqs[i]
    <3>1. i - 1 \in 0..n
      BY <1>1
    <3>2. QED
      BY <1>5, <1>6, <3>1 DEF Recurses
  <2>2. QED
    BY <1>6, <2>1 DEF Recurses
<1> DEFINE g == [i \in 1..n |-> f[i]]
<1>8. V(g)
  <2>1. ASSUME NEW i \in 1..n
        PROVE  f[i] = IF i = 1 THEN seqs[i] ELSE g[i - 1] \o seqs[i]
    <3>1. CASE i = 1
      <4>1. i - 1 = 0
        BY <3>1
      <4>2. f[i] = <<>> \o seqs[i]
        BY <1>7, <4>1
      <4>3. QED
        BY <1>1, <1>2, <3>1, <4>2
    <3>2. CASE i # 1
      <4>1. i - 1 \in 1..n
        BY <1>1, <3>2
      <4>2. g[i - 1] = f[i - 1]
        BY <4>1
      <4>3. QED
        BY <1>7, <3>2, <4>2
    <3>3. QED
      BY <3>1, <3>2
  <2>2. QED
    BY <2>1
<1>9. V(v)
  BY <1>8
<1> HIDE DEF v
<1>10. \A i \in 1..n : v[i] = IF i = 1 THEN seqs[i] ELSE v[i - 1] \o seqs[i]
  BY <1>9
<1> DEFINE P == {i \in 0..n : i = 0 \/ v[i] = f[i]}
<1>11. 0 \in P
  BY <1>1
<1>12. ASSUME NEW i \in 1..n, i - 1 \in P PROVE i \in P
  <2>1. CASE i = 1
    <3>1. i - 1 = 0
      BY <2>1
    <3>2. f[i] = seqs[i]
      BY <1>1, <1>2, <1>7, <3>1
    <3>3. QED
      BY <1>1, <1>10, <2>1, <3>2
  <2>2. CASE i # 1
    <3>1. v[i - 1] = f[i - 1]
      BY <1>12, <2>2
    <3>2. v[i] = f[i]
      BY <1>7, <1>10, <2>2, <3>1
    <3>3. QED
      BY <1>1, <3>2
  <2>3. QED
    BY <2>1, <2>2
<1> HIDE DEF P, V
<1>13. \A i \in 0..n : i \in P
  BY <1>1, <1>11, <1>12, UpTo
<1>14. n \in P
  BY <1>1, <1>13
<1>15. FlattenSeq(seqs) = f[n]
  <2>1. n = 0 \/ v[n] = f[n]
    BY <1>14 DEF P
  <2>2. QED
    BY <1>3, <1>4, <1>7, <2>1
<1>16. QED
  BY <1>7, <1>15 DEF n, Q

\* A flattened sequence of sequences is a sequence.
LEMMA FlattenType ==
  ASSUME NEW S, NEW seqs \in Seq(Seq(S))
  PROVE  FlattenSeq(seqs) \in Seq(S)
<1> DEFINE n == Len(seqs)
<1>1. n \in 0..n
  BY LenProperties
<1>2. PICK f \in [0..n -> Seq(S)] : FlattenSeq(seqs) = f[n]
  BY FlattenDefined
<1> HIDE DEF n
<1>3. QED
  BY <1>1, <1>2

\* With one sequence more.
LEMMA FlattenAppend ==
  ASSUME NEW S, NEW seqs \in Seq(Seq(S)), NEW x \in Seq(S)
  PROVE  FlattenSeq(Append(seqs, x)) = FlattenSeq(seqs) \o x
<1> DEFINE n == Len(seqs)
           more == Append(seqs, x)
<1>1. /\ more \in Seq(Seq(S)) /\ Len(more) = n + 1 /\ n \in Nat
      /\ more[n + 1] = x /\ \A i \in 1..n : more[i] = seqs[i]
  BY AppendProperties, LenProperties
<1>2. PICK f \in [0..n -> Seq(S)] :
        /\ f[0] = <<>>
        /\ \A i \in 1..n : f[i] = f[i - 1] \o seqs[i]
        /\ FlattenSeq(seqs) = f[n]
  BY FlattenDefined
<1> HIDE DEF n, more
<1>3. PICK g \in [0..(n + 1) -> Seq(S)] :
        /\ g[0] = <<>>
        /\ \A i \in 1..(n + 1) : g[i] = g[i - 1] \o more[i]
        /\ FlattenSeq(more) = g[n + 1]
  <2>1. PICK g \in [0..Len(more) -> Seq(S)] :
          /\ g[0] = <<>>
          /\ \A i \in 1..Len(more) : g[i] = g[i - 1] \o more[i]
          /\ FlattenSeq(more) = g[Len(more)]
    BY <1>1, FlattenDefined
  <2>2. QED
    BY <1>1, <2>1
<1> DEFINE P == {i \in 0..n : f[i] = g[i]}
<1>4. 0 \in P
  BY <1>1, <1>2, <1>3
<1>5. ASSUME NEW i \in 1..n, i - 1 \in P PROVE i \in P
  <2>1. i \in 0..n /\ i \in 1..(n + 1)
    BY <1>1
  <2>2. f[i - 1] = g[i - 1]
    BY <1>5
  <2>3. f[i] = f[i - 1] \o seqs[i] /\ g[i] = g[i - 1] \o more[i] /\ more[i] = seqs[i]
    BY <1>1, <1>2, <1>3, <2>1
  <2>4. QED
    BY <2>1, <2>2, <2>3
<1> HIDE DEF P
<1>6. n \in P
  <2>1. \A i \in 0..n : i \in P
    BY <1>1, <1>4, <1>5, UpTo
  <2>2. QED
    BY <1>1, <2>1
<1>7. f[n] = g[n]
  BY <1>6 DEF P
<1>8. g[n + 1] = g[n] \o x
  <2>1. n + 1 \in 1..(n + 1) /\ (n + 1) - 1 = n
    BY <1>1
  <2>2. QED
    BY <1>1, <1>3, <2>1
<1>9. QED
  BY <1>2, <1>3, <1>7, <1>8 DEF more

-----------------------------------------------------------------------------
(* Sequences of whatever they hold                                         *)

IsSeq(s) == s \in Seq(ToSet(s))

\* A sequence is one of its own elements.
LEMMA SeqOfItself ==
  ASSUME NEW S, NEW s \in Seq(S)
  PROVE  /\ IsSeq(s) /\ ToSet(s) \subseteq S
         /\ Len(s) \in Nat /\ DOMAIN s = 1..Len(s)
         /\ ToSet(s) = {s[i] : i \in 1..Len(s)}
<1>1. /\ Len(s) \in Nat /\ DOMAIN s = 1..Len(s) /\ s = [i \in 1..Len(s) |-> s[i]]
      /\ \A i \in 1..Len(s) : s[i] \in S
  BY LenProperties, ElementOfSeq
<1>2. ToSet(s) = {s[i] : i \in 1..Len(s)}
  BY <1>1 DEF ToSet
<1>3. s \in Seq(ToSet(s))
  <2>1. \A i \in 1..Len(s) : s[i] \in ToSet(s)
    BY <1>2
  <2>2. [i \in 1..Len(s) |-> s[i]] \in Seq(ToSet(s))
    BY <1>1, <2>1, IsASeq
  <2>3. QED
    BY <1>1, <2>2
<1>4. QED
  BY <1>1, <1>2, <1>3 DEF IsSeq

\* What a function that tells elements apart makes of a finite set has as many.
Apart(p, A) == \A a, b \in A : p[a] = p[b] => a = b

LEMMA SameNumber ==
  ASSUME NEW A, IsFiniteSet(A), NEW p, Apart(p, A)
  PROVE  /\ IsFiniteSet({p[a] : a \in A})
         /\ Cardinality({p[a] : a \in A}) = Cardinality(A)
<1> DEFINE T == {p[a] : a \in A}
           g == [a \in A |-> p[a]]
<1>1. g \in [A -> T] /\ \A a \in A : g[a] = p[a]
  OBVIOUS
<1>2. DOMAIN g = A
  OBVIOUS
<1> HIDE DEF g
<1>3. \A a, b \in A : g[a] = g[b] => a = b
  BY <1>1 DEF Apart
<1>4. g \in Injection(A, T)
  BY <1>1, <1>2, <1>3 DEF Injection, IsInjective
<1>5. \A t \in T : \E a \in A : g[a] = t
  BY <1>1
<1>6. g \in Surjection(A, T)
  BY <1>1, <1>5 DEF Surjection
<1>7. ExistsBijection(A, T)
  BY <1>4, <1>6 DEF ExistsBijection, Bijection
<1> HIDE DEF T
<1>8. IsFiniteSet(T) /\ Cardinality(T) = Cardinality(A)
  BY <1>7, FS_Bijection
<1>9. QED
  BY <1>8 DEF T

\* Positions within a sequence are finitely many.
LEMMA FiniteTo ==
  ASSUME NEW n \in Nat, NEW A, A \subseteq 1..n
  PROVE  IsFiniteSet(A) /\ Cardinality(A) \in Nat
<1>1. IsFiniteSet(1..n)
  BY FS_Interval
<1>2. IsFiniteSet(A)
  BY <1>1, FS_Subset
<1>3. QED
  BY <1>2, FS_CardinalityType

\* Positions before n, and others that follow.
Beyond(n, B) == {n + i : i \in B}

LEMMA PlacesBeyond ==
  ASSUME NEW n \in Nat, NEW A \in SUBSET (1..n), NEW B \in SUBSET (Nat \ {0}), IsFiniteSet(B)
  PROVE  Cardinality(A \cup Beyond(n, B)) = Cardinality(A) + Cardinality(B)
<1> DEFINE p == [i \in B |-> n + i]
           C == {p[i] : i \in B}
<1>1. C = Beyond(n, B)
  BY DEF Beyond
<1>2. Apart(p, B)
  BY DEF Apart
<1>3. A \cap C = {}
  BY <1>1 DEF Beyond
<1>4. IsFiniteSet(A) /\ Cardinality(A) \in Nat /\ Cardinality(B) \in Nat
  BY FiniteTo, FS_CardinalityType
<1> HIDE DEF p
<1>5. IsFiniteSet(C) /\ Cardinality(C) = Cardinality(B)
  BY <1>2, <1>4, SameNumber
<1> HIDE DEF C
<1>6. Cardinality(A \cup C) = Cardinality(A) + Cardinality(C) - Cardinality(A \cap C)
  BY <1>4, <1>5, FS_Union
<1>7. Cardinality(A \cap C) = 0
  BY <1>3, FS_EmptySet
<1>8. QED
  BY <1>1, <1>4, <1>5, <1>6, <1>7

\* Each element chosen is at a place of its own among those to be chosen, and
\* each of these places has its element.
Places(s, I, t, p) ==
  /\ p \in [1..Len(t) -> 1..Len(s)]
  /\ \A k \in 1..Len(t) : p[k] \in I /\ t[k] = s[p[k]]
  /\ \A k, l \in 1..Len(t) : p[k] = p[l] => k = l
  /\ \A i \in 1..Len(s) : i \in I => \E k \in 1..Len(t) : p[k] = i

LEMMA ChosenPlaces ==
  ASSUME NEW S, NEW s \in Seq(S), NEW I
  PROVE  \E p : Places(s, I, Chosen(s, I), p)
<1> DEFINE n == Len(s)
           f == Picks(s, I)
           Good(i, p) == /\ p \in [1..Len(f[i]) -> 1..i]
                         /\ \A k \in 1..Len(f[i]) : p[k] \in I /\ f[i][k] = s[p[k]]
                         /\ \A k, l \in 1..Len(f[i]) : p[k] = p[l] => k = l
                         /\ \A j \in 1..i : j \in I => \E k \in 1..Len(f[i]) : p[k] = j
           P == {i \in 0..n : \E p : Good(i, p)}
<1>1. n \in Nat /\ \A i \in 1..n : s[i] \in S
  BY LenProperties, ElementOfSeq
<1>2. /\ f \in [0..n -> Seq(S)] /\ f[0] = <<>>
      /\ \A i \in 1..n : f[i] = IF i \in I THEN Append(f[i - 1], s[i]) ELSE f[i - 1]
  BY PicksDefined
<1> HIDE DEF f, n
<1>3. 0 \in P
  <2>1. Len(f[0]) = 0
    BY <1>2, EmptySeq
  <2>2. 1..0 = {}
    OBVIOUS
  <2>3. \E p : Good(0, p)
    <3>1. Good(0, [k \in 1..0 |-> k])
      BY <2>1, <2>2
    <3> HIDE DEF Good
    <3>2. QED
      BY <3>1
  <2> HIDE DEF Good
  <2>4. QED
    BY <1>1, <2>3
<1>4. ASSUME NEW i \in 1..n, i - 1 \in P PROVE i \in P
  <2>1. i - 1 \in 0..n /\ i \in 0..n
    BY <1>1
  <2>2. f[i - 1] \in Seq(S) /\ s[i] \in S
    BY <1>1, <1>2, <2>1
  <2>3. PICK p : Good(i - 1, p)
    BY <1>4
  <2>4. Len(f[i - 1]) \in Nat
    BY <2>2, LenProperties
  <2>5. CASE i \in I
    <3> DEFINE m == Len(f[i - 1])
               q == [k \in 1..(m + 1) |-> IF k = m + 1 THEN i ELSE p[k]]
    <3>1. f[i] = Append(f[i - 1], s[i])
      BY <1>2, <2>5
    <3>2. /\ Len(f[i]) = m + 1
          /\ \A k \in 1..m : f[i][k] = f[i - 1][k]
          /\ f[i][m + 1] = s[i]
      BY <2>2, <3>1, AppendProperties
    <3> HIDE DEF m
    <3>3. /\ q[m + 1] = i /\ \A k \in 1..m : q[k] = p[k]
          /\ m \in Nat
      BY <2>4 DEF m
    <3>4. /\ p \in [1..m -> 1..(i - 1)]
          /\ \A k \in 1..m : p[k] \in I /\ f[i - 1][k] = s[p[k]]
          /\ \A k, l \in 1..m : p[k] = p[l] => k = l
          /\ \A j \in 1..(i - 1) : j \in I => \E k \in 1..m : p[k] = j
      BY <2>3 DEF m
    <3>5. q \in [1..(m + 1) -> 1..i]
      BY <3>3, <3>4
    <3> HIDE DEF q
    <3>6. \A k \in 1..(m + 1) : k = m + 1 \/ k \in 1..m
      BY <3>3
    <3>7. \A k \in 1..(m + 1) : q[k] \in I /\ f[i][k] = s[q[k]]
      BY <2>5, <3>2, <3>3, <3>4, <3>6
    <3>8. \A k, l \in 1..(m + 1) : q[k] = q[l] => k = l
      <4>1. \A k \in 1..m : q[k] \in 1..(i - 1)
        BY <3>3, <3>4
      <4>2. \A k \in 1..m : q[k] # q[m + 1]
        BY <3>3, <4>1
      <4>3. \A k, l \in 1..m : q[k] = q[l] => k = l
        BY <3>3, <3>4
      <4>4. QED
        BY <3>6, <4>2, <4>3
    <3>9. \A j \in 1..i : j \in I => \E k \in 1..(m + 1) : q[k] = j
      <4>1. ASSUME NEW j \in 1..i, j \in I, j # i PROVE \E k \in 1..(m + 1) : q[k] = j
        <5>1. j \in 1..(i - 1)
          BY <4>1
        <5>2. PICK k \in 1..m : p[k] = j
          BY <3>4, <4>1, <5>1
        <5>3. k \in 1..(m + 1) /\ q[k] = j
          BY <3>3, <5>2
        <5>4. QED
          BY <5>3
      <4>2. m + 1 \in 1..(m + 1)
        BY <3>3
      <4>3. QED
        BY <3>3, <4>1, <4>2
    <3>10. Good(i, q)
      BY <3>2, <3>5, <3>7, <3>8, <3>9
    <3>11. QED
      BY <2>1, <3>10
  <2>6. CASE i \notin I
    <3>1. f[i] = f[i - 1]
      BY <1>2, <2>6
    <3>2. \A j \in 1..i : j \in I => j \in 1..(i - 1)
      BY <2>6
    <3>3. p \in [1..Len(f[i]) -> 1..i]
      BY <2>3, <3>1
    <3>4. Good(i, p)
      BY <2>3, <3>1, <3>2, <3>3
    <3>5. QED
      BY <2>1, <3>4
  <2>7. QED
    BY <2>5, <2>6
<1> HIDE DEF P
<1>5. \A i \in 0..n : i \in P
  BY <1>1, <1>3, <1>4, UpTo
<1>6. n \in P
  BY <1>1, <1>5
<1>7. PICK p : Good(n, p)
  BY <1>6 DEF P
<1>8. Chosen(s, I) = f[n]
  BY DEF Chosen, f, n
<1>9. QED
  BY <1>7, <1>8 DEF Places, n

\* As many elements are chosen from the positions T as are both there and to
\* be chosen.
LEMMA PlacesNumber ==
  ASSUME NEW S, NEW s \in Seq(S), NEW I, NEW t \in Seq(S), NEW p, Places(s, I, t, p),
         NEW T, NEW K, T \subseteq I \cap 1..Len(s), K = {k \in 1..Len(t) : p[k] \in T}
  PROVE  Cardinality(K) = Cardinality(T)
<1>1. Len(t) \in Nat
  BY LenProperties
<1>2. IsFiniteSet(K)
  BY <1>1, FiniteTo
<1>3. Apart(p, K)
  BY DEF Places, Apart
<1>4. T = {p[k] : k \in K}
  <2>1. \A i \in T : \E k \in 1..Len(t) : p[k] = i
    BY DEF Places
  <2>2. \A i \in T : \E k \in K : p[k] = i
    BY <2>1
  <2>3. QED
    BY <2>2
<1> HIDE DEF Places
<1>5. Cardinality({p[k] : k \in K}) = Cardinality(K)
  BY <1>2, <1>3, SameNumber
<1>6. QED
  BY <1>4, <1>5
=============================================================================
