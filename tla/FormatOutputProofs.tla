-------------------------- MODULE FormatOutputProofs --------------------------
(***************************************************************************)
(* Theorem about FormatOutput: the line is its format, for any format      *)
(* string, indices of either sign, any packet and any byte width.          *)
(***************************************************************************)
EXTENDS FormatOutput, InductionLemmas

-----------------------------------------------------------------------------
(* The bits that a placeholder selects                                     *)

LEMMA ClampIs ==
  ASSUME bits \in Seq({0, 1}), NEW i \in Int
  PROVE  /\ Clamp(i) \in 0..Len(bits)
         /\ \A k \in 0..(Len(bits) - 1) :
              k >= Clamp(i) <=> k >= (IF i < 0 THEN i + Len(bits) ELSE i)
<1> DEFINE n == Len(bits)
           x == IF i < 0 THEN i + n ELSE i
           low == Min({n, x})
           c == Max({0, low})
<1>1. n \in Nat /\ x \in Int
  BY LenProperties
<1>2. Clamp(i) = c
  BY DEF Clamp
<1> HIDE DEF n, x
<1>3. low = IF x < n THEN x ELSE n
  <2> DEFINE V(y) == y \in {n, x} /\ \A z \in {n, x} : y <= z
  <2>1. low = CHOOSE y : V(y)
    BY DEF Min
  <2>2. V(IF x < n THEN x ELSE n)
    BY <1>1
  <2>3. V(low)
    BY <2>1, <2>2
  <2> HIDE DEF low
  <2>4. QED
    BY <1>1, <2>3
<1> HIDE DEF low
<1>4. c = IF low < 0 THEN 0 ELSE low
  <2> DEFINE V(y) == y \in {0, low} /\ \A z \in {0, low} : y >= z
  <2>1. c = CHOOSE y : V(y)
    BY DEF Max
  <2>2. low \in Int
    BY <1>1, <1>3
  <2>3. V(IF low < 0 THEN 0 ELSE low)
    BY <2>2
  <2>4. V(c)
    BY <2>1, <2>3
  <2> HIDE DEF c
  <2>5. QED
    BY <2>2, <2>4
<1> HIDE DEF c
<1>5. c \in 0..n /\ \A k \in 0..(n - 1) : k >= c <=> k >= x
  BY <1>1, <1>3, <1>4
<1>6. QED
  BY <1>2, <1>5 DEF n, x

\* The slice that the code takes holds the bits that the doc string speaks of.
LEMMA SliceIsBits ==
  ASSUME bits \in Seq({0, 1}), NEW p \in Piece, p.form # "to"
  PROVE  sub_bits(p) = BitsAt(Positions(p))
<1> DEFINE n == Len(bits)
           Place(i) == IF i < 0 THEN i + n ELSE i
           I == {k + 1 : k \in Positions(p)}
<1>1. n \in Nat /\ p.i \in Int /\ p.j \in Int /\ p.i + 1 \in Int
      /\ p.form \in {"all", "at", "from", "range"}
  BY LenProperties DEF Piece
<1>2. \A i \in Int : /\ Clamp(i) \in 0..n
                     /\ \A k \in 0..(n - 1) : k >= Clamp(i) <=> k >= Place(i)
  BY ClampIs
<1> HIDE DEF Place, I
<1>3. Start(p) \in 0..n /\ Stop(p) \in 0..n
  <2>1. Clamp(p.i) \in 0..n /\ Clamp(p.j) \in 0..n /\ Clamp(p.i + 1) \in 0..n
    BY <1>1, <1>2
  <2>2. /\ Start(p) \in {0, Clamp(p.i)}
        /\ Stop(p) \in {n, Clamp(p.i + 1), Clamp(p.j)}
    BY DEF Start, Stop
  <2> HIDE DEF n
  <2>3. QED
    BY <1>1, <2>1, <2>2
<1>4. ASSUME NEW k \in 0..(n - 1)
      PROVE  k \in Positions(p) <=> Start(p) <= k /\ k < Stop(p)
  <2>1. CASE p.form = "all"
    <3>1. k \in Positions(p)
      BY <2>1 DEF Positions
    <3>2. Start(p) = 0 /\ Stop(p) = n
      BY <2>1 DEF Start, Stop
    <3>3. QED
      BY <1>1, <3>1, <3>2
  <2>2. CASE p.form = "at"
    <3>1. k \in Positions(p) <=> k = Place(p.i) /\ p.i # -1
      BY <2>2 DEF Positions, Place
    <3>2. Start(p) = Clamp(p.i) /\ Stop(p) = Clamp(p.i + 1)
      BY <2>2 DEF Start, Stop
    <3>3. /\ k >= Start(p) <=> k >= Place(p.i)
          /\ k >= Stop(p) <=> k >= Place(p.i + 1)
      <4> HIDE DEF n
      <4>1. QED
        BY <1>1, <1>2, <3>2
    <3>4. k >= Place(p.i) /\ ~(k >= Place(p.i + 1)) <=> k = Place(p.i) /\ p.i # -1
      BY <1>1 DEF Place
    <3> HIDE DEF n
    <3>5. QED
      BY <1>1, <1>3, <3>1, <3>3, <3>4
  <2>3. CASE p.form = "from"
    <3>1. k \in Positions(p) <=> k >= Place(p.i)
      BY <2>3 DEF Positions, Place
    <3>2. Start(p) = Clamp(p.i) /\ Stop(p) = n
      BY <2>3 DEF Start, Stop
    <3> HIDE DEF n
    <3>3. k >= Start(p) <=> k >= Place(p.i)
      BY <1>1, <1>2, <3>2
    <3>4. k < n
      BY <1>1
    <3>5. QED
      BY <1>1, <1>3, <3>1, <3>2, <3>3, <3>4
  <2>4. CASE p.form = "range"
    <3>1. k \in Positions(p) <=> Place(p.i) <= k /\ k < Place(p.j)
      BY <2>4 DEF Positions, Place
    <3>2. Start(p) = Clamp(p.i) /\ Stop(p) = Clamp(p.j)
      BY <2>4 DEF Start, Stop
    <3>3. /\ k >= Start(p) <=> k >= Place(p.i)
          /\ k >= Stop(p) <=> k >= Place(p.j)
      <4> HIDE DEF n
      <4>1. QED
        BY <1>1, <1>2, <3>2
    <3>4. Place(p.i) \in Int /\ Place(p.j) \in Int
      BY <1>1 DEF Place
    <3> HIDE DEF n
    <3>5. QED
      BY <1>1, <1>3, <3>1, <3>3, <3>4
  <2>5. QED
    BY <1>1, <2>1, <2>2, <2>3, <2>4
<1>5. ASSUME NEW i \in 1..n PROVE i \in I <=> (Start(p) < i /\ i <= Stop(p))
  <2>1. i - 1 \in 0..(n - 1)
    BY <1>1
  <2>2. \A k \in Positions(p) : k \in 0..(n - 1)
    BY DEF Positions
  <2>3. i \in I <=> i - 1 \in Positions(p)
    BY <1>1, <2>2 DEF I
  <2>4. QED
    BY <1>1, <1>3, <1>4, <2>1, <2>3
<1>6. Chosen(bits, I) = SubSeq(bits, Start(p) + 1, Stop(p))
  BY <1>3, <1>5, ChosenInterval
<1>7. QED
  BY <1>6 DEF sub_bits, BitsAt, I
-----------------------------------------------------------------------------
(* The line as pieces one after the other                                  *)

\* A sequence is its own elements one after the other.
LEMMA FlattenSingles ==
  ASSUME NEW S, NEW s \in Seq(S), NEW cells \in Seq(Seq(S)),
         Len(cells) = Len(s), \A i \in 1..Len(s) : cells[i] = <<s[i]>>
  PROVE  FlattenSeq(cells) = s
<1> DEFINE n == Len(s)
<1>1. n \in Nat /\ \A i \in 1..n : s[i] \in S
  BY LenProperties, ElementOfSeq
<1>2. PICK f \in [0..n -> Seq(S)] :
        /\ f[0] = <<>>
        /\ \A i \in 1..n : f[i] = f[i - 1] \o cells[i]
        /\ FlattenSeq(cells) = f[n]
  <2>1. Len(cells) = n
    OBVIOUS
  <2> HIDE DEF n
  <2>2. QED
    BY <2>1, FlattenDefined
<1>3. \A i \in 1..n : cells[i] = <<s[i]>>
  OBVIOUS
<1> HIDE DEF n
<1> DEFINE P == {i \in 0..n : Len(f[i]) = i /\ \A q \in 1..i : f[i][q] = s[q]}
<1>4. 0 \in P
  BY <1>1, <1>2, EmptySeq
<1>5. ASSUME NEW i \in 1..n, i - 1 \in P PROVE i \in P
  <2>1. i - 1 \in 0..n /\ i \in 0..n /\ f[i - 1] \in Seq(S) /\ s[i] \in S
    BY <1>1, <1>2
  <2>2. f[i] = Append(f[i - 1], s[i])
    <3>1. Append(f[i - 1], s[i]) = f[i - 1] \o <<s[i]>>
      BY <2>1, AppendIsConcat
    <3>2. QED
      BY <1>2, <1>3, <3>1
  <2>3. Len(f[i - 1]) = i - 1 /\ \A q \in 1..(i - 1) : f[i - 1][q] = s[q]
    BY <1>5
  <2>4. /\ Len(f[i]) = i /\ f[i][i] = s[i]
        /\ \A q \in 1..(i - 1) : f[i][q] = f[i - 1][q]
    BY <1>1, <2>1, <2>2, <2>3, AppendProperties
  <2>5. ASSUME NEW q \in 1..i PROVE f[i][q] = s[q]
    <3>1. q \in 1..(i - 1) \/ q = i
      BY <1>1
    <3>2. QED
      BY <2>3, <2>4, <3>1
  <2>6. QED
    BY <2>1, <2>4, <2>5
<1> HIDE DEF P
<1>6. \A i \in 0..n : i \in P
  BY <1>1, <1>4, <1>5, UpTo
<1>7. n \in P /\ f[n] \in Seq(S)
  BY <1>1, <1>2, <1>6
<1>8. Len(f[n]) = Len(s) /\ \A q \in 1..Len(s) : f[n][q] = s[q]
  BY <1>7 DEF P, n
<1>9. f[n] = s
  BY <1>7, <1>8, SeqEqual
<1>10. QED
  BY <1>2, <1>9

\* x is not in the sequence.
Lacks(s, x) == \A q \in 1..Len(s) : s[q] # x

\* Two sequences of the same length differ at one position at most.
OneDiffers(ss, tt, k) ==
  Len(tt) = Len(ss) /\ \A i \in 1..Len(ss) : i # k => ss[i] = tt[i]

\* None of the first k - 1 sequences has x in it.
LackBefore(ss, k, x) == \A i \in 1..(k - 1) : Lacks(ss[i], x)

\* One sequence after another, as an operator of its own.
Then(r, s) == r \o s

LEMMA ThenProperties ==
  ASSUME NEW S
  PROVE  /\ \A r, s \in Seq(S) : Then(r, s) \in Seq(S)
         /\ \A r \in Seq(S) : Then(r, <<>>) = r
         /\ \A r, s, t \in Seq(S) : Then(Then(r, s), t) = Then(r, Then(s, t))
<1>1. \A r, s \in Seq(S) : r \o s \in Seq(S)
  BY ConcatProperties
<1>2. \A r \in Seq(S) : r \o <<>> = r
  BY ConcatEmptySeq
<1>3. \A r, s, t \in Seq(S) : (r \o s) \o t = r \o (s \o t)
  BY ConcatAssociative
<1>4. QED
  BY <1>1, <1>2, <1>3 DEF Then

LEMMA ThenLacks ==
  ASSUME NEW S, NEW r \in Seq(S), NEW s \in Seq(S), NEW x,
         Lacks(r, x), Lacks(s, x)
  PROVE  Lacks(Then(r, s), x)
<1>1. /\ Len(r) \in Nat /\ Len(s) \in Nat /\ Len(r \o s) = Len(r) + Len(s)
      /\ \A i \in 1..(Len(r) + Len(s)) :
            (r \o s)[i] = IF i <= Len(r) THEN r[i] ELSE s[i - Len(r)]
  BY ConcatProperties, LenProperties
<1>2. ASSUME NEW i \in 1..(Len(r) + Len(s)) PROVE (r \o s)[i] # x
  <2>1. CASE i <= Len(r)
    <3>1. i \in 1..Len(r)
      BY <1>1, <2>1
    <3>2. QED
      BY <1>1, <2>1, <3>1 DEF Lacks
  <2>2. CASE i > Len(r)
    <3>1. i - Len(r) \in 1..Len(s) /\ ~(i <= Len(r))
      BY <1>1, <2>2
    <3>2. QED
      BY <1>1, <3>1 DEF Lacks
  <2>3. QED
    BY <1>1, <2>1, <2>2
<1>3. QED
  BY <1>1, <1>2 DEF Lacks, Then

\* Sequences of sequences that differ at one position only flatten to the same
\* before it and after it; what is in none of those before is not before it.
LEMMA FlattenAround ==
  ASSUME NEW S, NEW ss \in Seq(Seq(S)), NEW tt \in Seq(Seq(S)),
         NEW k \in 1..Len(ss), OneDiffers(ss, tt, k),
         NEW x, LackBefore(ss, k, x)
  PROVE  \E a, g \in Seq(S) :
           /\ FlattenSeq(ss) = Then(Then(a, ss[k]), g)
           /\ FlattenSeq(tt) = Then(Then(a, tt[k]), g)
           /\ Lacks(a, x)
<1> DEFINE n == Len(ss)
           Q == Seq(S)
<1>1. n \in Nat /\ k \in 1..n /\ \A i \in 1..n : ss[i] \in Q /\ tt[i] \in Q
  BY LenProperties, ElementOfSeq DEF OneDiffers
<1>2. PICK f \in [0..n -> Q] :
        /\ f[0] = <<>>
        /\ \A i \in 1..n : f[i] = Then(f[i - 1], ss[i])
        /\ FlattenSeq(ss) = f[n]
  BY FlattenDefined DEF Then
<1>3. PICK h \in [0..n -> Q] :
        /\ h[0] = <<>>
        /\ \A i \in 1..n : h[i] = Then(h[i - 1], tt[i])
        /\ FlattenSeq(tt) = h[n]
  <2>1. Len(tt) = n
    BY DEF OneDiffers
  <2> HIDE DEF n
  <2>2. QED
    BY <2>1, FlattenDefined DEF Then
<1>4. /\ \A i \in 1..n : i # k => ss[i] = tt[i]
      /\ \A i \in 1..(k - 1) : Lacks(ss[i], x)
  BY DEF OneDiffers, LackBefore
<1>5. /\ <<>> \in Q /\ Lacks(<<>>, x)
      /\ \A r, s \in Q : Then(r, s) \in Q
      /\ \A r \in Q : Then(r, <<>>) = r
  <2>1. <<>> \in Q /\ Lacks(<<>>, x)
    BY EmptySeq DEF Lacks
  <2>2. /\ \A r, s \in Q : Then(r, s) \in Q
        /\ \A r \in Q : Then(r, <<>>) = r
    BY ThenProperties
  <2>3. QED
    BY <2>1, <2>2
<1>6. \A r, s, t \in Q : Then(Then(r, s), t) = Then(r, Then(s, t))
  BY ThenProperties
<1>7. \A r, s \in Q : Lacks(r, x) /\ Lacks(s, x) => Lacks(Then(r, s), x)
  BY ThenLacks
<1> HIDE DEF n, Q
<1> DEFINE A == {i \in 0..n : i < k => f[i] = h[i] /\ Lacks(f[i], x)}
<1>8. 0 \in A
  BY <1>1, <1>2, <1>3, <1>5
<1>9. ASSUME NEW i \in 1..n, i - 1 \in A PROVE i \in A
  <2>1. i - 1 \in 0..n /\ i \in 0..n /\ f[i - 1] \in Q /\ ss[i] \in Q
    <3>1. i - 1 \in 0..n /\ i \in 0..n
      BY <1>1
    <3>2. f[i - 1] \in Q
      BY <3>1
    <3>3. ss[i] \in Q
      BY <1>1
    <3>4. QED
      BY <3>1, <3>2, <3>3
  <2>2. CASE i < k
    <3>1. i \in 1..(k - 1) /\ i # k /\ i - 1 < k
      BY <1>1, <2>2
    <3>2. f[i - 1] = h[i - 1] /\ Lacks(f[i - 1], x)
      BY <1>9, <3>1
    <3>3. f[i] = h[i]
      BY <1>2, <1>3, <1>4, <3>1, <3>2
    <3>4. Lacks(f[i], x)
      BY <1>2, <1>4, <1>7, <2>1, <3>1, <3>2
    <3>5. QED
      BY <2>1, <3>3, <3>4
  <2>3. QED
    BY <2>1, <2>2
<1> HIDE DEF A
<1>10. \A i \in 0..n : i \in A
  BY <1>1, <1>8, <1>9, UpTo
<1> DEFINE a == f[k - 1]
           As(i, g) == f[i] = Then(Then(a, ss[k]), g) /\ h[i] = Then(Then(a, tt[k]), g)
<1>11. a \in Q /\ a = h[k - 1] /\ Lacks(a, x)
  <2>1. k - 1 \in 0..n /\ k - 1 < k
    BY <1>1
  <2>2. k - 1 \in A
    BY <1>10, <2>1
  <2>3. QED
    BY <1>2, <2>1, <2>2 DEF A
<1>12. f[k] = Then(a, ss[k]) /\ h[k] = Then(a, tt[k])
  BY <1>1, <1>2, <1>3, <1>11
<1> HIDE DEF a
<1> DEFINE B == {i \in 0..n : i >= k => \E g \in Q : As(i, g)}
<1>13. 0 \in B
  BY <1>1
<1>14. ASSUME NEW i \in 1..n, i - 1 \in B PROVE i \in B
  <2>1. i - 1 \in 0..n /\ i \in 0..n
    BY <1>1
  <2>2. CASE i = k
    <3>1. Then(a, ss[k]) \in Q /\ Then(a, tt[k]) \in Q
      BY <1>1, <1>5, <1>11
    <3>2. f[i] = Then(Then(a, ss[k]), <<>>) /\ h[i] = Then(Then(a, tt[k]), <<>>)
      BY <1>5, <1>12, <2>2, <3>1
    <3>3. QED
      BY <1>5, <2>1, <3>2
  <2>3. CASE i > k
    <3>1. i - 1 >= k /\ i # k
      BY <1>1, <2>3
    <3>2. PICK g \in Q : As(i - 1, g)
      BY <1>14, <3>1
    <3> DEFINE e == ss[i]
               u == Then(a, ss[k])
               v == Then(a, tt[k])
    <3>3. e \in Q /\ e = tt[i] /\ u \in Q /\ v \in Q /\ Then(g, e) \in Q
      BY <1>1, <1>4, <1>5, <1>11, <3>1
    <3>4. f[i - 1] = Then(u, g) /\ h[i - 1] = Then(v, g)
      BY <3>2
    <3>5. f[i] = Then(f[i - 1], e) /\ h[i] = Then(h[i - 1], e)
      BY <1>2, <1>3, <3>3
    <3> HIDE DEF e, u, v
    <3>6. f[i] = Then(u, Then(g, e)) /\ h[i] = Then(v, Then(g, e))
      <4>1. Then(Then(u, g), e) = Then(u, Then(g, e))
        BY <1>6, <3>3
      <4>2. Then(Then(v, g), e) = Then(v, Then(g, e))
        BY <1>6, <3>3
      <4>3. QED
        BY <3>4, <3>5, <4>1, <4>2
    <3>7. As(i, Then(g, e))
      BY <3>6 DEF u, v
    <3> HIDE DEF As
    <3>8. QED
      BY <2>1, <3>3, <3>7
  <2>4. CASE i < k
    BY <1>1, <2>1, <2>4
  <2>5. i < k \/ i = k \/ i > k
    BY <1>1
  <2> HIDE DEF B, As
  <2>6. QED
    BY <2>2, <2>3, <2>4, <2>5
<1> HIDE DEF B, As
<1>15. \A i \in 0..n : i \in B
  BY <1>1, <1>13, <1>14, UpTo
<1>16. n \in B /\ n >= k
  BY <1>1, <1>15
<1>17. PICK g \in Q : As(n, g)
  BY <1>16 DEF B
<1>18. QED
  BY <1>2, <1>3, <1>11, <1>17 DEF As, Q

\* The first occurrence is replaced, what is before and after it stays.
LEMMA ReplaceFirst ==
  ASSUME NEW S, NEW a \in Seq(S), NEW g \in Seq(S), NEW p \in S,
         NEW pieces \in Seq(S), Lacks(a, p)
  PROVE  Replace(Then(Then(a, <<p>>), g), p, pieces) = Then(Then(a, pieces), g)
<1> DEFINE one == <<p>>
           b == a \o one
           line == b \o g
           m == Len(a)
           places == {i \in DOMAIN line : line[i] = p}
           first == Min(places)
<1>1. one \in Seq(S) /\ Len(one) = 1 /\ one[1] = p
  OBVIOUS
<1>2. m \in Nat /\ Len(g) \in Nat
  BY LenProperties
<1> HIDE DEF one, m
<1>3. /\ b \in Seq(S) /\ Len(b) = m + 1 /\ b[m + 1] = p
      /\ \A i \in 1..m : b[i] = a[i]
  <2>1. /\ b \in Seq(S) /\ Len(b) = Len(a) + Len(one)
        /\ \A i \in 1..(Len(a) + Len(one)) :
              b[i] = IF i <= Len(a) THEN a[i] ELSE one[i - Len(a)]
    BY <1>1, ConcatProperties
  <2>2. m + 1 \in 1..(m + 1) /\ ~(m + 1 <= m) /\ m + 1 - m = 1
        /\ \A i \in 1..m : i \in 1..(m + 1) /\ i <= m
    BY <1>2
  <2> HIDE DEF b
  <2>3. /\ Len(b) = m + 1
        /\ \A i \in 1..(m + 1) : b[i] = IF i <= m THEN a[i] ELSE one[i - m]
    BY <1>1, <2>1 DEF m
  <2>4. QED
    BY <1>1, <2>1, <2>2, <2>3
<1> HIDE DEF b
<1> DEFINE n == m + 1 + Len(g)
<1>4. /\ line \in Seq(S) /\ Len(line) = n /\ DOMAIN line = 1..n
      /\ line[m + 1] = p
      /\ \A i \in 1..m : line[i] = a[i]
      /\ \A i \in 1..Len(g) : line[m + 1 + i] = g[i]
  <2>1. /\ line \in Seq(S) /\ Len(line) = n
        /\ \A i \in 1..n : line[i] = IF i <= m + 1 THEN b[i] ELSE g[i - (m + 1)]
    <3>1. /\ line \in Seq(S) /\ Len(line) = Len(b) + Len(g)
          /\ \A i \in 1..(Len(b) + Len(g)) :
                line[i] = IF i <= Len(b) THEN b[i] ELSE g[i - Len(b)]
      BY <1>3, ConcatProperties
    <3> HIDE DEF line
    <3>2. QED
      BY <1>3, <3>1
  <2>2. DOMAIN line = 1..n
    BY <2>1, LenProperties
  <2> HIDE DEF line
  <2>3. line[m + 1] = p
    BY <1>2, <1>3, <2>1
  <2>4. ASSUME NEW i \in 1..m PROVE line[i] = a[i]
    <3>1. i \in 1..n /\ i <= m + 1
      BY <1>2
    <3>2. QED
      BY <1>3, <2>1, <3>1
  <2>5. ASSUME NEW i \in 1..Len(g) PROVE line[m + 1 + i] = g[i]
    <3> DEFINE j == m + 1 + i
    <3>1. j \in 1..n /\ ~(j <= m + 1) /\ j - (m + 1) = i
      BY <1>2
    <3> HIDE DEF j, n
    <3>2. line[j] = g[i]
      BY <2>1, <3>1
    <3>3. QED
      BY <3>2 DEF j
  <2>6. QED
    BY <2>1, <2>2, <2>3, <2>4, <2>5
<1> HIDE DEF line
<1>5. m + 1 \in places /\ \A i \in places : i \in 1..n /\ m + 1 <= i
  <2>1. m + 1 \in 1..n
    BY <1>2
  <2>2. ASSUME NEW i \in 1..n, line[i] = p PROVE m + 1 <= i
    <3>1. i \in 1..m => a[i] # p
      BY DEF Lacks, m
    <3>2. QED
      BY <1>2, <1>4, <2>2, <3>1
  <2>3. QED
    BY <1>4, <2>1, <2>2
<1> HIDE DEF places, n
<1>6. first = m + 1
  <2> DEFINE V(y) == y \in places /\ \A z \in places : y <= z
  <2>1. first = CHOOSE y : V(y)
    BY DEF Min
  <2>2. V(m + 1)
    BY <1>5
  <2>3. V(first)
    BY <2>1, <2>2
  <2> HIDE DEF first
  <2>4. first <= m + 1 /\ m + 1 <= first /\ first \in 1..n
    BY <1>5, <2>3
  <2>5. QED
    BY <1>2, <2>4
<1>7. Replace(line, p, pieces)
        = SubSeq(line, 1, first - 1) \o pieces \o SubSeq(line, first + 1, Len(line))
  BY <1>5 DEF Replace, places, first
<1> HIDE DEF first
<1>8. SubSeq(line, 1, m) = a
  <2> DEFINE t == SubSeq(line, 1, m)
  <2>1. \A i \in 1..m : line[i] \in S
    BY <1>4, ElementOfSeq DEF m
  <2>2. /\ t \in Seq(S) /\ Len(t) = IF 1 <= m THEN m - 1 + 1 ELSE 0
        /\ \A i \in 1..(m - 1 + 1) : t[i] = line[1 + i - 1]
    BY <1>2, <2>1, SubSeqProperties
  <2> HIDE DEF t
  <2>3. Len(t) = Len(a)
    BY <1>2, <2>2 DEF m
  <2>4. ASSUME NEW i \in 1..Len(t) PROVE t[i] = a[i]
    <3>1. i \in 1..m /\ i \in 1..(m - 1 + 1) /\ 1 + i - 1 = i
      BY <1>2, <2>3 DEF m
    <3>2. QED
      BY <1>4, <2>2, <3>1
  <2>5. t = a
    BY <2>2, <2>3, <2>4, SeqEqual
  <2>6. QED
    BY <2>5 DEF t
<1>9. SubSeq(line, m + 1 + 1, n) = g
  <2> DEFINE t == SubSeq(line, m + 1 + 1, n)
  <2>1. ASSUME NEW i \in (m + 1 + 1)..n PROVE line[i] \in S
    <3>1. i \in 1..n
      BY <1>2 DEF n
    <3>2. QED
      BY <1>4, <3>1, ElementOfSeq
  <2>2. m + 1 + 1 \in Int /\ n \in Int
    BY <1>2 DEF n
  <2>3. /\ t \in Seq(S)
        /\ Len(t) = IF m + 1 + 1 <= n THEN n - (m + 1 + 1) + 1 ELSE 0
        /\ \A i \in 1..(n - (m + 1 + 1) + 1) : t[i] = line[m + 1 + 1 + i - 1]
    BY <2>1, <2>2, SubSeqProperties
  <2> HIDE DEF t
  <2>4. Len(t) = Len(g)
    BY <1>2, <2>3 DEF n
  <2>5. ASSUME NEW i \in 1..Len(t) PROVE t[i] = g[i]
    <3>1. /\ i \in 1..Len(g) /\ i \in 1..(n - (m + 1 + 1) + 1)
          /\ m + 1 + 1 + i - 1 = m + 1 + i
      BY <1>2, <2>4 DEF n
    <3>2. QED
      BY <1>4, <2>3, <3>1
  <2>6. t = g
    BY <2>3, <2>4, <2>5, SeqEqual
  <2>7. QED
    BY <2>6 DEF t
<1>10. first - 1 = m /\ first + 1 = m + 1 + 1
  BY <1>2, <1>6
<1>11. Replace(line, p, pieces) = a \o pieces \o g
  BY <1>4, <1>7, <1>8, <1>9, <1>10
<1>12. QED
  BY <1>11 DEF line, b, one, Then
-----------------------------------------------------------------------------
(* The loop over the placeholders                                          *)

\* The line when the pieces up to the m-th have been handled: each piece, or
\* what it has become.
Cells(m) == [i \in DOMAIN format_str |-> IF i <= m THEN Meaning(format_str[i])
                                         ELSE <<format_str[i]>>]

\* The placeholders after the m-th piece.
Ahead(m) == {i \in DOMAIN format_str : i > m /\ IsMatch(format_str[i])}

\* The loop has come to the m-th piece.
Handled(m) ==
  /\ m \in 0..Len(format_str)
  /\ matches = Chosen(format_str, Ahead(m))
  /\ NoneMistaken => out = FlattenSeq(Cells(m))

Inputs ==
  format_str \in Seq(Piece) /\ name \in Seq(Piece) /\ bits \in Seq({0, 1})

LoopInv ==
  /\ Inputs
  /\ status \in {"formatting", "returned"} => \E m \in Nat : Handled(m)
  /\ status = "returned" => matches = <<>>

\* What the line is made of.
Parts == Piece \cup {Meaning(piece)[1] : piece \in Piece}

LEMMA Format ==
  ASSUME Inputs
  PROVE  /\ Len(format_str) \in Nat
         /\ DOMAIN format_str = 1..Len(format_str)
         /\ \A i \in 1..Len(format_str) : format_str[i] \in Piece
BY LenProperties, ElementOfSeq DEF Inputs

\* A placeholder that the code knows becomes one part, or pieces; any other
\* piece stays.
LEMMA MeaningIs ==
  ASSUME Inputs, NEW piece \in Piece
  PROVE  /\ Meaning(piece) \in Seq(Parts)
         /\ ~(IsMatch(piece) /\ Known(piece)) => Meaning(piece) = <<piece>>
<1> DEFINE b == BitsAt(Positions(piece))
           bytes == l_bites(b)
<1>1. IsMatch(piece) /\ Known(piece) => Meaning(piece) = Show(piece, b)
  BY DEF Meaning
<1>2. ~(IsMatch(piece) /\ Known(piece)) => Meaning(piece) = <<piece>>
  BY DEF Meaning
<1> HIDE DEF b
<1>3. Known(piece) => \/ \E t, v : Show(piece, b) = << [tipe |-> t, shown |-> v] >>
                      \/ Show(piece, b) \in Seq(Piece)
  <2> SUFFICES ASSUME Known(piece)
               PROVE  \/ \E t, v : Show(piece, b) = << [tipe |-> t, shown |-> v] >>
                      \/ Show(piece, b) \in Seq(Piece)
    OBVIOUS
  <2>1. piece.tipe \in {"name", "ts", "bits", "hex", "int", "ascii"}
    BY DEF Known
  <2>2. CASE piece.tipe = "name"
    <3>1. Show(piece, b) = name
      BY <2>2 DEF Show
    <3>2. QED
      BY <3>1 DEF Inputs
  <2>3. CASE piece.tipe = "ts"
    <3>1. Show(piece, b) = << [tipe |-> "ts", shown |-> <<>>] >>
      BY <2>3 DEF Show
    <3>2. QED
      BY <3>1
  <2>4. CASE piece.tipe = "bits"
    <3>1. Show(piece, b) = << [tipe |-> "bits", shown |-> b] >>
      BY <2>4 DEF Show
    <3>2. QED
      BY <3>1
  <2>5. CASE piece.tipe = "int"
    <3>1. Show(piece, b) = << [tipe |-> "int", shown |-> Number(b)] >>
      BY <2>5 DEF Show
    <3>2. QED
      BY <3>1
  <2>6. CASE piece.tipe = "ascii" /\ bytes \in DOMAIN Reads
    <3>1. Show(piece, b) = Reads[bytes]
      BY <2>6 DEF Show
    <3>2. QED
      BY <2>6, <3>1, PiecesAssumption
  <2>7. CASE piece.tipe = "hex" \/ (piece.tipe = "ascii" /\ bytes \notin DOMAIN Reads)
    <3>1. Show(piece, b) = << [tipe |-> piece.tipe, shown |-> bytes] >>
      BY <2>7 DEF Show
    <3>2. QED
      BY <3>1
  <2>8. QED
    BY <2>1, <2>2, <2>3, <2>4, <2>5, <2>6, <2>7
<1>4. Meaning(piece) \in Seq(Parts)
  <2>1. ASSUME NEW e, Meaning(piece) = <<e>> PROVE Meaning(piece) \in Seq(Parts)
    <3>1. Meaning(piece)[1] = e
      BY <2>1
    <3>2. e \in Parts
      BY <3>1 DEF Parts
    <3>3. QED
      BY <2>1, <3>2
  <2>2. CASE ~(IsMatch(piece) /\ Known(piece))
    BY <1>2, <2>1, <2>2
  <2>3. CASE IsMatch(piece) /\ Known(piece)
    <3>1. CASE \E t, v : Show(piece, b) = << [tipe |-> t, shown |-> v] >>
      BY <1>1, <2>1, <2>3, <3>1
    <3>2. CASE Show(piece, b) \in Seq(Piece)
      <4>1. Piece \subseteq Parts
        BY DEF Parts
      <4>2. Show(piece, b) \in Seq(Parts)
        BY <3>2, <4>1, SeqMonotonic
      <4>3. QED
        BY <1>1, <2>3, <4>2
    <3>3. QED
      BY <1>3, <2>3, <3>1, <3>2
  <2>4. QED
    BY <2>2, <2>3
<1>5. QED
  BY <1>2, <1>4

\* The line as a sequence of sequences.
LEMMA CellsType ==
  ASSUME Inputs, NEW m \in Nat
  PROVE  /\ Cells(m) \in Seq(Seq(Parts)) /\ Len(Cells(m)) = Len(format_str)
         /\ \A i \in 1..Len(format_str) :
              Cells(m)[i] = IF i <= m THEN Meaning(format_str[i])
                            ELSE <<format_str[i]>>
<1> DEFINE n == Len(format_str)
           Q == Seq(Parts)
           cell(i) == IF i <= m THEN Meaning(format_str[i]) ELSE <<format_str[i]>>
<1>1. n \in Nat /\ DOMAIN format_str = 1..n /\ \A i \in 1..n : format_str[i] \in Piece
  BY Format
<1>2. Cells(m) = [i \in 1..n |-> cell(i)]
  BY <1>1 DEF Cells
<1>3. ASSUME NEW i \in 1..n PROVE cell(i) \in Q
  <2>1. format_str[i] \in Piece
    BY <1>1
  <2>2. Meaning(format_str[i]) \in Q
    BY <2>1, MeaningIs
  <2>3. format_str[i] \in Parts
    BY <2>1 DEF Parts
  <2>4. <<format_str[i]>> \in Q
    BY <2>3
  <2>5. QED
    BY <2>2, <2>4
<1> HIDE DEF n, Q, cell
<1>4. Cells(m) \in Seq(Q) /\ Len(Cells(m)) = n
  BY <1>1, <1>2, <1>3, IsASeq
<1>5. \A i \in 1..n : Cells(m)[i] = cell(i)
  BY <1>2
<1>6. QED
  BY <1>4, <1>5 DEF n, Q, cell

\* What is ahead begins with the first placeholder after the m-th piece.
LEMMA AheadFirst ==
  ASSUME Inputs, NEW m \in Nat, Ahead(m) # {}
  PROVE  \E k \in 1..Len(format_str) :
           /\ m < k /\ IsMatch(format_str[k])
           /\ \A i \in (m + 1)..(k - 1) : ~IsMatch(format_str[i])
           /\ Chosen(format_str, Ahead(k)) \in Seq(Piece)
           /\ Chosen(format_str, Ahead(m))
                = <<format_str[k]>> \o Chosen(format_str, Ahead(k))
<1> DEFINE n == Len(format_str)
<1>1. n \in Nat /\ DOMAIN format_str = 1..n /\ format_str \in Seq(Piece)
  BY Format DEF Inputs
<1>2. Ahead(m) \in SUBSET Nat
  BY <1>1 DEF Ahead
<1>3. PICK k \in Ahead(m) : \A i \in Ahead(m) : k <= i
  BY <1>2, LeastNatural
<1>4. k \in 1..n /\ m < k /\ IsMatch(format_str[k])
  BY <1>1, <1>3 DEF Ahead
<1> DEFINE I == Ahead(m)
           J == Ahead(k)
<1>5. k \in I /\ k \notin J
  BY <1>3, <1>4 DEF Ahead
<1>6. \A i \in 1..(k - 1) : i \notin I /\ i \notin J
  BY <1>1, <1>3, <1>4 DEF Ahead
<1>7. \A i \in (k + 1)..n : i \in I <=> i \in J
  BY <1>1, <1>4 DEF Ahead
<1>8. ASSUME NEW i \in (m + 1)..(k - 1) PROVE ~IsMatch(format_str[i])
  <2>1. i \in 1..(k - 1) /\ i \in 1..n /\ i > m
    BY <1>1, <1>4
  <2>2. QED
    BY <1>1, <1>6, <2>1 DEF Ahead
<1> HIDE DEF I, J
<1>9. Chosen(format_str, I) = <<format_str[k]>> \o Chosen(format_str, J)
  BY <1>1, <1>4, <1>5, <1>6, <1>7, ChosenFirst
<1>10. Chosen(format_str, J) \in Seq(Piece)
  BY <1>1, ChosenType
<1>11. QED
  BY <1>4, <1>8, <1>9, <1>10 DEF I, J

\* The next placeholder of the loop is the first one ahead.
LEMMA NextIsAhead ==
  ASSUME Inputs, NEW m \in Nat, Handled(m), matches # <<>>
  PROVE  \E k \in 1..Len(format_str) :
           /\ m < k /\ Head(matches) = format_str[k]
           /\ IsMatch(format_str[k])
           /\ \A i \in (m + 1)..(k - 1) : ~IsMatch(format_str[i])
           /\ Tail(matches) = Chosen(format_str, Ahead(k))
<1>1. Ahead(m) # {}
  <2>1. Chosen(format_str, Ahead(m)) # <<>>
    BY DEF Handled
  <2>2. format_str \in Seq(Piece)
    BY DEF Inputs
  <2>3. ~ \A i \in 1..Len(format_str) : i \notin Ahead(m)
    BY <2>1, <2>2, ChosenNone
  <2>4. QED
    BY <2>3
<1>2. PICK k \in 1..Len(format_str) :
        /\ m < k /\ IsMatch(format_str[k])
        /\ \A i \in (m + 1)..(k - 1) : ~IsMatch(format_str[i])
        /\ Chosen(format_str, Ahead(k)) \in Seq(Piece)
        /\ Chosen(format_str, Ahead(m))
             = <<format_str[k]>> \o Chosen(format_str, Ahead(k))
  BY <1>1, AheadFirst
<1>3. ASSUME NEW e \in Piece, NEW rest \in Seq(Piece), matches = <<e>> \o rest
      PROVE  Head(matches) = e /\ Tail(matches) = rest
  BY <1>3
<1> DEFINE rest == Chosen(format_str, Ahead(k))
<1>4. rest \in Seq(Piece) /\ matches = <<format_str[k]>> \o rest
  BY <1>2 DEF Handled
<1> HIDE DEF rest
<1>5. format_str[k] \in Piece
  BY Format
<1>6. Head(matches) = format_str[k] /\ Tail(matches) = rest
  BY <1>3, <1>4, <1>5
<1>7. QED
  BY <1>2, <1>6 DEF rest

\* When no placeholder is left to the loop, there is none ahead.
LEMMA NoneAhead ==
  ASSUME Inputs, NEW m \in Nat, Handled(m), matches = <<>>
  PROVE  \A i \in 1..Len(format_str) : i > m => ~IsMatch(format_str[i])
<1>1. ASSUME Ahead(m) # {} PROVE FALSE
  <2>1. PICK k \in 1..Len(format_str) :
          /\ Chosen(format_str, Ahead(k)) \in Seq(Piece)
          /\ Chosen(format_str, Ahead(m))
               = <<format_str[k]>> \o Chosen(format_str, Ahead(k))
    BY <1>1, AheadFirst
  <2> DEFINE rest == Chosen(format_str, Ahead(k))
             first == <<format_str[k]>>
  <2>2. rest \in Seq(Piece) /\ <<>> = first \o rest
    BY <2>1 DEF Handled
  <2>3. first \in Seq(Piece) /\ Len(first) = 1
    BY Format
  <2> HIDE DEF rest, first
  <2>4. Len(first \o rest) = 1 + Len(rest) /\ Len(rest) \in Nat
    <3>1. Len(first \o rest) = Len(first) + Len(rest)
      BY <2>2, <2>3, ConcatProperties
    <3>2. Len(rest) \in Nat
      BY <2>2, LenProperties
    <3>3. QED
      BY <2>3, <3>1, <3>2
  <2>5. Len(<<>>) = 0
    OBVIOUS
  <2>6. QED
    BY <2>2, <2>4, <2>5
<1>2. QED
  BY <1>1, Format DEF Ahead

-----------------------------------------------------------------------------
(* One step of the loop                                                    *)

\* There is no placeholder between the m-th piece and the k-th.
Passes(m, k) == m < k /\ \A i \in (m + 1)..(k - 1) : ~IsMatch(format_str[i])

\* No piece before the next placeholder becomes something that reads like it.
LEMMA NotBefore ==
  ASSUME Inputs, NoneMistaken, NEW m \in Nat, NEW k \in 1..Len(format_str),
         Known(format_str[k]), Passes(m, k)
  PROVE  LackBefore(Cells(m), k, format_str[k])
<1> DEFINE p == format_str[k]
<1>1. IsMatch(p)
  BY DEF Known, IsMatch
<1>2. SUFFICES ASSUME NEW i \in 1..(k - 1) PROVE Lacks(Cells(m)[i], p)
  BY DEF LackBefore
<1>3. i \in 1..Len(format_str) /\ format_str[i] \in Piece
  BY Format
<1> DEFINE x == format_str[i]
<1>4. Cells(m)[i] = IF i <= m THEN Meaning(x) ELSE <<x>>
  BY <1>3, CellsType
<1>5. CASE i > m
  <2>1. ~IsMatch(x)
    BY <1>2, <1>5 DEF Passes
  <2>2. Cells(m)[i] = <<x>> /\ x # p
    BY <1>1, <1>4, <1>5, <2>1
  <2>3. QED
    BY <2>2 DEF Lacks
<1>6. CASE i <= m
  <2>1. Cells(m)[i] = Meaning(x) /\ Meaning(x) \in Seq(Parts)
    BY <1>3, <1>4, <1>6, MeaningIs
  <2>2. p \notin ToSet(Meaning(x))
    BY <1>2, Format DEF NoneMistaken
  <2>3. ASSUME NEW q \in 1..Len(Meaning(x)) PROVE Meaning(x)[q] # p
    BY <2>1, <2>2, LenProperties DEF ToSet
  <2>4. QED
    BY <2>1, <2>3 DEF Lacks
<1>7. QED
  BY <1>5, <1>6

\* From one placeholder to the next, only what stands in the place of the
\* latter changes.
LEMMA CellsDiffer ==
  ASSUME Inputs, NEW m \in Nat, NEW k \in 1..Len(format_str), Passes(m, k)
  PROVE  /\ OneDiffers(Cells(m), Cells(k), k)
         /\ Cells(m)[k] = <<format_str[k]>>
         /\ Cells(k)[k] = Meaning(format_str[k])
<1>1. k \in Nat /\ k <= k /\ ~(k <= m)
  BY Format DEF Passes
<1>2. /\ Len(Cells(m)) = Len(format_str) /\ Len(Cells(k)) = Len(format_str)
      /\ Cells(m)[k] = <<format_str[k]>>
      /\ Cells(k)[k] = Meaning(format_str[k])
  BY <1>1, CellsType
<1>3. ASSUME NEW i \in 1..Len(format_str), i # k
      PROVE  Cells(m)[i] = Cells(k)[i]
  <2>1. /\ Cells(m)[i] = IF i <= m THEN Meaning(format_str[i]) ELSE <<format_str[i]>>
        /\ Cells(k)[i] = IF i <= k THEN Meaning(format_str[i]) ELSE <<format_str[i]>>
        /\ format_str[i] \in Piece
    BY <1>1, CellsType, Format
  <2>2. CASE i <= m \/ i > k
    BY <1>1, <2>1, <2>2
  <2>3. CASE i \in (m + 1)..(k - 1)
    <3>1. ~IsMatch(format_str[i])
      BY <2>3 DEF Passes
    <3>2. Meaning(format_str[i]) = <<format_str[i]>>
      BY <2>1, <3>1, MeaningIs
    <3>3. QED
      BY <2>1, <3>2
  <2>4. QED
    BY <1>1, <1>3, <2>2, <2>3
<1>4. QED
  BY <1>2, <1>3 DEF OneDiffers

\* In a sequence of sequences of which one is the placeholder alone and none
\* before it has it, replacing it is putting the value at that place.
LEMMA ReplaceInCell ==
  ASSUME NEW S, NEW ss \in Seq(Seq(S)), NEW tt \in Seq(Seq(S)),
         NEW k \in 1..Len(ss), OneDiffers(ss, tt, k),
         NEW p \in S, LackBefore(ss, k, p)
  PROVE  ss[k] = <<p>> /\ tt[k] \in Seq(S)
           => Replace(FlattenSeq(ss), p, tt[k]) = FlattenSeq(tt)
<1>1. PICK a, g \in Seq(S) :
        /\ FlattenSeq(ss) = Then(Then(a, ss[k]), g)
        /\ FlattenSeq(tt) = Then(Then(a, tt[k]), g)
        /\ Lacks(a, p)
  BY FlattenAround
<1>2. ASSUME tt[k] \in Seq(S)
      PROVE  Replace(Then(Then(a, <<p>>), g), p, tt[k]) = Then(Then(a, tt[k]), g)
  BY <1>1, <1>2, ReplaceFirst
<1>3. QED
  BY <1>1, <1>2

\* The placeholder is replaced in its own place.
LEMMA SubstituteInPlace ==
  ASSUME Inputs, NoneMistaken, NEW m \in Nat, NEW k \in 1..Len(format_str),
         Known(format_str[k]), ~Raises(format_str[k]), Passes(m, k),
         NEW line, line = FlattenSeq(Cells(m))
  PROVE  Replace(line, format_str[k], Show(format_str[k], sub_bits(format_str[k])))
           = FlattenSeq(Cells(k))
<1> DEFINE p == format_str[k]
           ss == Cells(m)
           tt == Cells(k)
           shown == Show(p, sub_bits(p))
<1>1. p \in Piece /\ p.form # "to" /\ IsMatch(p) /\ k \in Nat
  BY Format DEF Raises, Known, IsMatch
<1>2. shown = Meaning(p)
  <2>1. sub_bits(p) = BitsAt(Positions(p))
    BY <1>1, SliceIsBits DEF Inputs
  <2>2. Meaning(p) = Show(p, BitsAt(Positions(p)))
    BY <1>1 DEF Meaning
  <2>3. QED
    BY <2>1, <2>2
<1>3. shown \in Seq(Parts) /\ p \in Parts
  BY <1>1, <1>2, MeaningIs DEF Parts
<1>4. /\ ss \in Seq(Seq(Parts)) /\ tt \in Seq(Seq(Parts))
      /\ Len(ss) = Len(format_str)
  BY <1>1, CellsType
<1>5. OneDiffers(ss, tt, k) /\ ss[k] = <<p>> /\ tt[k] = shown
  BY <1>2, CellsDiffer
<1>6. LackBefore(ss, k, p) /\ k \in 1..Len(ss)
  BY <1>4, NotBefore
<1>7. line = FlattenSeq(ss)
  OBVIOUS
<1> HIDE DEF p, ss, tt, shown
<1>8. Replace(FlattenSeq(ss), p, shown) = FlattenSeq(tt)
  BY <1>3, <1>4, <1>5, <1>6, ReplaceInCell
<1>9. QED
  BY <1>7, <1>8 DEF p, ss, tt, shown

\* A placeholder that is not known stays.
LEMMA SkipInPlace ==
  ASSUME Inputs, NEW m \in Nat, NEW k \in 1..Len(format_str),
         ~Known(format_str[k]), Passes(m, k)
  PROVE  Cells(k) = Cells(m)
<1>1. k \in Nat /\ format_str[k] \in Piece
  BY Format
<1>2. Meaning(format_str[k]) = <<format_str[k]>>
  BY <1>1, MeaningIs
<1> DEFINE ss == Cells(m)
           tt == Cells(k)
           n == Len(format_str)
<1>3. /\ OneDiffers(ss, tt, k) /\ ss[k] = tt[k]
      /\ ss = [i \in 1..n |-> ss[i]] /\ tt = [i \in 1..n |-> tt[i]] /\ Len(ss) = n
  <2>1. ss = [i \in 1..n |-> ss[i]] /\ tt = [i \in 1..n |-> tt[i]]
    BY Format DEF Cells
  <2>2. QED
    BY <1>1, <1>2, <2>1, CellsDiffer, CellsType
<1> HIDE DEF ss, tt, n
<1>4. \A i \in 1..n : ss[i] = tt[i]
  BY <1>3 DEF OneDiffers
<1>5. ss = tt
  BY <1>3, <1>4
<1>6. QED
  BY <1>5 DEF ss, tt

-----------------------------------------------------------------------------
(* The invariant                                                           *)

LEMMA LoopInit == Init => LoopInv
<1> SUFFICES ASSUME Init PROVE LoopInv
  OBVIOUS
<1>1. Inputs
  BY PiecesAssumption DEF Init, Inputs
<1> DEFINE cells == Cells(0)
<1>2. /\ cells \in Seq(Seq(Parts)) /\ Len(cells) = Len(format_str)
      /\ \A i \in 1..Len(format_str) : cells[i] = <<format_str[i]>>
  <2>1. 0 \in Nat /\ \A i \in 1..Len(format_str) : ~(i <= 0)
    OBVIOUS
  <2>2. QED
    BY <1>1, <2>1, CellsType
<1>3. format_str \in Seq(Parts)
  <2>1. Piece \subseteq Parts
    BY DEF Parts
  <2>2. QED
    BY <1>1, <2>1, SeqMonotonic DEF Inputs
<1> HIDE DEF cells
<1>4. FlattenSeq(cells) = format_str
  BY <1>2, <1>3, FlattenSingles
<1>5. matches = Chosen(format_str, Ahead(0))
  <2>1. Ahead(0) = {i \in DOMAIN format_str : IsMatch(format_str[i])}
    BY <1>1, Format DEF Ahead
  <2>2. QED
    BY <2>1 DEF Init
<1>6. Handled(0)
  BY <1>1, <1>4, <1>5, Format DEF Handled, Init, cells
<1>7. QED
  BY <1>1, <1>6 DEF LoopInv, Init

LEMMA LoopStep == LoopInv /\ [Next]_vars => LoopInv'
<1> SUFFICES ASSUME LoopInv, [Next]_vars PROVE LoopInv'
  OBVIOUS
<1>1. Inputs
  BY DEF LoopInv
<1>2. CASE UNCHANGED <<format_str, name, bits>> /\ NextMatch
  <2>1. PICK m \in Nat : Handled(m)
    BY <1>2 DEF LoopInv, NextMatch
  <2>2. PICK k \in 1..Len(format_str) :
          /\ m < k /\ Head(matches) = format_str[k]
          /\ IsMatch(format_str[k])
          /\ \A i \in (m + 1)..(k - 1) : ~IsMatch(format_str[i])
          /\ Tail(matches) = Chosen(format_str, Ahead(k))
    BY <1>1, <1>2, <2>1, NextIsAhead DEF NextMatch
  <2>3. /\ Inputs' /\ Ahead(k)' = Ahead(k) /\ Cells(k)' = Cells(k)
        /\ NoneMistaken' = NoneMistaken /\ k \in Nat
    BY <1>1, <1>2, Format
       DEF Inputs, Ahead, Cells, NoneMistaken, Meaning, Show, BitsAt, Positions
  <2>4. matches' = Chosen(format_str, Ahead(k))
    BY <1>2, <2>2 DEF NextMatch
  <2>5. CASE Substitute
    <3>1. /\ Known(format_str[k]) /\ ~Raises(format_str[k]) /\ status' = status
          /\ out' = Replace(out, format_str[k],
                            Show(format_str[k], sub_bits(format_str[k])))
      BY <2>2, <2>5 DEF Substitute
    <3>2. NoneMistaken => out' = FlattenSeq(Cells(k))
      BY <1>1, <2>1, <2>2, <3>1, SubstituteInPlace DEF Handled, Passes
    <3>3. Handled(k)'
      BY <1>2, <2>2, <2>3, <2>4, <3>2 DEF Handled
    <3>4. QED
      BY <1>2, <2>3, <3>1, <3>3 DEF LoopInv, NextMatch
  <2>6. CASE Skip
    <3>1. ~Known(format_str[k]) /\ out' = out /\ status' = status
      BY <2>2, <2>6 DEF Skip
    <3>2. Cells(k) = Cells(m)
      BY <1>1, <2>2, <3>1, SkipInPlace DEF Passes
    <3>3. Handled(k)'
      BY <1>2, <2>1, <2>2, <2>3, <2>4, <3>1, <3>2 DEF Handled
    <3>4. QED
      BY <1>2, <2>3, <3>1, <3>3 DEF LoopInv, NextMatch
  <2>7. CASE Raise
    BY <2>3, <2>7 DEF Raise, LoopInv
  <2>8. CASE Return
    BY <1>2, <2>8 DEF Return, NextMatch
  <2>9. QED
    BY <1>2, <2>5, <2>6, <2>7, <2>8 DEF Next, vars, NextMatch
<1>3. CASE Return \/ UNCHANGED vars
  <2>1. /\ UNCHANGED <<format_str, name, bits, matches, out>>
        /\ status' = "returned" => matches = <<>>
        /\ status' \in {"formatting", "returned"}
             => status \in {"formatting", "returned"}
    BY <1>3 DEF Return, vars, LoopInv
  <2>2. ASSUME NEW m \in Nat, Handled(m) PROVE Handled(m)'
    <3>1. Ahead(m)' = Ahead(m) /\ NoneMistaken' = NoneMistaken
      BY <2>1 DEF Ahead, NoneMistaken, Meaning, Show, BitsAt, Positions
    <3>2. Cells(m)' = Cells(m)
      BY <2>1 DEF Cells, Meaning, Show, BitsAt, Positions
    <3>3. QED
      BY <2>1, <2>2, <3>1, <3>2 DEF Handled
  <2>3. Inputs'
    BY <1>1, <2>1 DEF Inputs
  <2>4. QED
    BY <2>1, <2>2, <2>3 DEF LoopInv
<1>4. QED
  BY <1>2, <1>3 DEF Next, Substitute, Skip, Raise, NextMatch

\* For any format string, whatever its indices, any packet and byte width: the
\* line has what each placeholder stands for in its place, if no text put in for
\* one before it, the name or bytes that read as one, has it in it.
THEOREM LineIsRight == Spec => []LineIsItsFormat
<1>1. LoopInv => LineIsItsFormat
  <2> SUFFICES ASSUME LoopInv, status = "returned", NoneMistaken
               PROVE  out = FlattenSeq([i \in DOMAIN format_str |->
                                          Meaning(format_str[i])])
    BY DEF LineIsItsFormat
  <2>1. Inputs /\ matches = <<>>
    BY DEF LoopInv
  <2>2. PICK m \in Nat : Handled(m)
    BY DEF LoopInv
  <2>3. \A i \in 1..Len(format_str) : i > m => ~IsMatch(format_str[i])
    BY <2>1, <2>2, NoneAhead
  <2>4. ASSUME NEW i \in DOMAIN format_str
        PROVE  (IF i <= m THEN Meaning(format_str[i]) ELSE <<format_str[i]>>)
                 = Meaning(format_str[i])
    <3>1. i \in 1..Len(format_str) /\ i \in Nat /\ format_str[i] \in Piece
      BY <2>1, Format
    <3>2. CASE i <= m
      BY <3>2
    <3>3. CASE i > m
      BY <2>1, <2>3, <3>1, <3>3, MeaningIs
    <3>4. QED
      BY <3>1, <3>2, <3>3
  <2>5. Cells(m) = [i \in DOMAIN format_str |-> Meaning(format_str[i])]
    BY <2>4 DEF Cells
  <2>6. QED
    BY <2>2, <2>5 DEF Handled
<1>2. QED
  BY <1>1, LoopInit, LoopStep, PTL DEF Spec
=============================================================================
