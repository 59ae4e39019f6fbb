----------------------------- MODULE Topology_proofs -----------------------------
(***************************************************************************)
(* Proofs about the map overlay, for maps of any size, any tiles told and   *)
(* any digs: its lookups tell what it was told, its regions are the         *)
(* connected parts of the open tiles, and a hint leads to them.             *)
(***************************************************************************)
EXTENDS Topology, SequenceTheorems, FiniteSetTheorems, WellFoundedInduction, TLAPS

\* What holds of m and passes from each number to the next holds up to n.
LEMMA Upward ==
  ASSUME NEW m \in Nat, NEW n \in Nat, NEW S, m \in S, \A i \in m + 1..n : i - 1 \in S => i \in S
  PROVE  m..n \subseteq S
<1> DEFINE Bad == {i \in m..n : i \notin S}
<1>1. SUFFICES ASSUME Bad # {} PROVE FALSE
  OBVIOUS
<1>2. Bad \in SUBSET Nat OBVIOUS
<1>3. PICK R : IsWellFoundedOn(R, Nat) /\ \A x, y \in Nat : y < x => <<y, x>> \in R
  <2>1. \A x, y \in Nat : y < x => <<y, x>> \in OpToRel(<, Nat) BY DEF OpToRel
  <2> QED BY <2>1, NatLessThanWellFounded
<1>4. PICK i \in Bad : \A k \in Bad : ~(<<k, i>> \in R) BY <1>1, <1>2, <1>3, WFMin
<1>5. i \in m..n /\ i \notin S /\ i # m OBVIOUS
<1>6. i - 1 \in m..n /\ i \in m + 1..n /\ i - 1 \notin S BY <1>5
<1>7. i - 1 \in Bad /\ i - 1 < i /\ i \in Nat /\ i - 1 \in Nat BY <1>5, <1>6
<1> QED BY <1>3, <1>4, <1>7

\* g makes a value of V from the one before; f starts with b and goes on with g.
Steps(g, m, n, V) == g \in [(m + 1..n) \X V -> V]
Recurs(f, b, g, m, n, V) == f \in [m..n -> V] /\ \A i \in m..n : f[i] = IF i = m THEN b ELSE g[<<i, f[i - 1]>>]
\* Such a recursion is one of a function.
LEMMA Recursion ==
  ASSUME NEW m \in Nat, NEW n \in Nat, NEW V, NEW b \in V, NEW g, Steps(g, m, n, V)
  PROVE  \E f : Recurs(f, b, g, m, n, V)
<1> USE DEF Steps, Recurs
<1> DEFINE Is(f, k) == f \in [m..k -> V] /\ \A i \in m..k : f[i] = IF i = m THEN b ELSE g[<<i, f[i - 1]>>]
           S == {k \in Nat : \E f : Is(f, k)}
<1>1. m \in S
  <2> DEFINE f == [i \in m..m |-> b]
  <2>1. Is(f, m) OBVIOUS
  <2> QED BY <2>1
<1>2. ASSUME NEW k \in m + 1..n, k - 1 \in S PROVE k \in S
  <2>1. PICK f : Is(f, k - 1) BY <1>2
  <2> DEFINE h == [i \in m..k |-> IF i = k THEN g[<<k, f[k - 1]>>] ELSE f[i]]
  <2>2. k - 1 \in m..k - 1 /\ k \in Nat /\ k # m /\ k - 1 # k OBVIOUS
  <2>3. f[k - 1] \in V /\ g[<<k, f[k - 1]>>] \in V BY <2>1, <2>2
  <2>4. \A i \in m..k : i # k => i \in m..k - 1 OBVIOUS
  <2>5. h \in [m..k -> V] BY <2>1, <2>3, <2>4
  <2>6. ASSUME NEW i \in m..k PROVE h[i] = IF i = m THEN b ELSE g[<<i, h[i - 1]>>]
    <3>1. CASE i = k
      <4>1. h[i] = g[<<k, f[k - 1]>>] /\ h[k - 1] = f[k - 1] BY <2>2, <3>1
      <4> QED BY <2>2, <3>1, <4>1
    <3>2. CASE i # k
      <4>1. i \in m..k - 1 /\ h[i] = f[i] BY <2>4, <3>2
      <4>2. i # m => i - 1 \in m..k /\ i - 1 # k BY <4>1
      <4>3. i # m => h[i - 1] = f[i - 1] BY <4>2
      <4> QED BY <2>1, <4>1, <4>3
    <3> QED BY <3>1, <3>2
  <2> HIDE DEF h
  <2>7. Is(h, k) BY <2>5, <2>6
  <2> QED BY <2>2, <2>7
<1>3. m..n \subseteq S
  <2> HIDE DEF S
  <2> QED BY <1>1, <1>2, Upward
<1>4. CASE m <= n
  <2>1. n \in S BY <1>3, <1>4
  <2> QED BY <2>1
<1>5. CASE ~(m <= n)
  <2>1. m..n = {} BY <1>5
  <2> DEFINE f == [i \in {} |-> b]
  <2>2. f \in [m..n -> V] /\ \A i \in m..n : f[i] = IF i = m THEN b ELSE g[<<i, f[i - 1]>>] BY <2>1
  <2> QED BY <2>2
<1> QED BY <1>4, <1>5

----------------------------------------------------------------------------
(* The map overlay: its bits and what was told of its tiles.               *)

\* A product grows with its first factor.
LEMMA Grows == ASSUME NEW n \in Nat, NEW p \in Nat, NEW q \in Nat, p <= q PROVE p * n <= q * n /\ p * n \in Nat
<1>1. (q - p) * n >= 0 /\ q - p \in Nat OBVIOUS
<1>2. (q - p) * n = q * n - p * n OBVIOUS
<1>3. p * n \in Nat OBVIOUS
<1> QED BY <1>1, <1>2, <1>3

\* The number with quotient p by n and rest r.
Compound(n, p, r) == p * n + r
\* A number has one quotient and one rest.
LEMMA Quotient ==
  ASSUME NEW n \in Nat, NEW p \in Nat, NEW q \in Nat, NEW r \in 0..n - 1, NEW s \in 0..n - 1,
         Compound(n, p, r) = Compound(n, q, s)
  PROVE  p = q /\ r = s
<1>1. ASSUME NEW a \in Nat, NEW b \in Nat, a < b PROVE a * n + n <= b * n
  <2>1. (a + 1) * n <= b * n BY <1>1, Grows
  <2>2. (a + 1) * n = a * n + n OBVIOUS
  <2> QED BY <2>1, <2>2
<1>2. p * n \in Nat /\ q * n \in Nat BY Grows
<1> DEFINE P == p * n
           Q == q * n
<1>3. P \in Nat /\ Q \in Nat /\ P + r = Q + s BY <1>2 DEF Compound
<1>4. p < q => P + n <= Q BY <1>1
<1>5. q < p => Q + n <= P BY <1>1
<1>6. p = q => P = Q OBVIOUS
<1> HIDE DEF P, Q
<1>7. ~(p < q) BY <1>3, <1>4
<1>8. ~(q < p) BY <1>3, <1>5
<1>9. p = q BY <1>7, <1>8
<1> QED BY <1>3, <1>6, <1>9

\* Each tile has a bit of its own.
LEMMA BitIs ==
  ASSUME DimensionsAssumption
  PROVE  /\ Size \in Nat
         /\ \A c \in Coords : Bit(c) \in 0..Size - 1
         /\ \A c, d \in Coords : Bit(c) = Bit(d) => c = d
<1> DEFINE W == Width
           H == Height
           D == Depth
           m == H * W
           Low(c) == c[2] * W + c[1]
<1>1. W \in Nat /\ H \in Nat /\ D \in Nat BY DEF DimensionsAssumption
<1>2. m \in Nat /\ D * m \in Nat BY <1>1, Grows
<1>3. Size = D * m BY <1>1 DEF Size
<1>4. ASSUME NEW c \in Coords
      PROVE  /\ c = <<c[1], c[2], c[3]>> /\ c[1] \in 0..W - 1 /\ c[2] \in 0..H - 1 /\ c[3] \in 0..D - 1
             /\ Low(c) \in 0..m - 1 /\ Bit(c) = c[3] * m + Low(c)
  <2>1. c = <<c[1], c[2], c[3]>> /\ c[1] \in 0..W - 1 /\ c[2] \in 0..H - 1 /\ c[3] \in 0..D - 1
    BY DEF Coords
  <2>2. c[1] \in Nat /\ c[2] \in Nat /\ c[3] \in Nat /\ H - 1 \in Nat /\ c[2] <= H - 1 BY <1>1, <2>1
  <2>3. c[2] * W <= (H - 1) * W /\ c[2] * W \in Nat BY <1>1, <2>2, Grows
  <2>4. (H - 1) * W = m - W BY <1>1
  <2> HIDE DEF W, H, D
  <2>5. Low(c) \in 0..m - 1
    <3> DEFINE x == c[2] * W
               y == (H - 1) * W
    <3>1. x <= y /\ x \in Nat /\ y = m - W BY <2>3, <2>4
    <3> HIDE DEF x, y, m
    <3>2. x + c[1] \in 0..m - 1 BY <1>1, <1>2, <2>1, <3>1
    <3> QED BY <3>2 DEF x
  <2>6. Bit(c) = c[3] * m + Low(c)
    <3>1. c[3] * W * H = c[3] * (H * W) BY <1>1, <2>2
    <3> DEFINE x == c[3] * W * H
               y == c[2] * W
    <3>2. x = c[3] * m BY <3>1
    <3>3. Bit(c) = x + y + c[1] BY DEF Bit, W, H
    <3>4. x \in Int /\ y \in Int /\ c[1] \in Int BY <1>1, <2>2
    <3> HIDE DEF x, y
    <3>5. x + y + c[1] = x + (y + c[1]) BY <3>4
    <3> QED BY <3>2, <3>3, <3>5 DEF y
  <2> QED BY <2>1, <2>5, <2>6 DEF W, H, D
<1> HIDE DEF W, H, D, m, Low
<1>5. ASSUME NEW c \in Coords PROVE Bit(c) \in 0..Size - 1
  <2>1. c[3] \in Nat /\ D - 1 \in Nat /\ c[3] <= D - 1 /\ Low(c) \in 0..m - 1 /\ Bit(c) = c[3] * m + Low(c)
    BY <1>1, <1>4
  <2>2. c[3] * m <= (D - 1) * m /\ c[3] * m \in Nat BY <1>2, <2>1, Grows
  <2>3. (D - 1) * m = D * m - m BY <1>1, <1>2
  <2> DEFINE x == c[3] * m
             y == (D - 1) * m
             z == D * m
  <2>4. x <= y /\ x \in Nat /\ y = z - m /\ z \in Nat /\ Bit(c) = x + Low(c) /\ Size = z
    BY <1>2, <1>3, <2>1, <2>2, <2>3
  <2> HIDE DEF x, y, z
  <2> QED BY <1>2, <2>1, <2>4
<1>6. ASSUME NEW c \in Coords, NEW d \in Coords, Bit(c) = Bit(d) PROVE c = d
  <2>1. c[3] \in Nat /\ d[3] \in Nat /\ Low(c) \in 0..m - 1 /\ Low(d) \in 0..m - 1
        /\ Compound(m, c[3], Low(c)) = Compound(m, d[3], Low(d))
    BY <1>1, <1>4, <1>6 DEF Compound
  <2>2. c[3] = d[3] /\ Low(c) = Low(d) BY <1>2, <2>1, Quotient
  <2>3. c[2] \in Nat /\ d[2] \in Nat /\ c[1] \in 0..W - 1 /\ d[1] \in 0..W - 1 BY <1>1, <1>4
  <2>4. Compound(W, c[2], c[1]) = Compound(W, d[2], d[1]) BY <2>2 DEF Low, Compound
  <2>5. c[2] = d[2] /\ c[1] = d[1] BY <1>1, <2>3, <2>4, Quotient
  <2> QED BY <1>4, <2>2, <2>5
<1> QED BY <1>2, <1>3, <1>5, <1>6

\* Every number has a quotient and a rest.
LEMMA Division ==
  ASSUME NEW n \in Nat, n > 0, NEW x \in Nat
  PROVE  \E q \in Nat, r \in 0..n - 1 : x = Compound(n, q, r)
<1> DEFINE S == {y \in Nat : \E q \in Nat, r \in 0..n - 1 : y = Compound(n, q, r)}
<1>1. 0 \in S
  <2>1. 0 \in 0..n - 1 /\ 0 = Compound(n, 0, 0) BY DEF Compound
  <2> QED BY <2>1
<1>2. ASSUME NEW y \in 0 + 1..x, y - 1 \in S PROVE y \in S
  <2>1. PICK q \in Nat, r \in 0..n - 1 : y - 1 = Compound(n, q, r) BY <1>2
  <2> DEFINE p == q * n
  <2>2. p \in Nat /\ y - 1 = p + r BY <2>1, Grows DEF Compound
  <2>3. (q + 1) * n = p + n OBVIOUS
  <2> HIDE DEF p
  <2>4. CASE r + 1 < n
    <3>1. r + 1 \in 0..n - 1 /\ y = p + (r + 1) BY <2>2, <2>4
    <3>2. y = Compound(n, q, r + 1) BY <3>1 DEF Compound, p
    <3> QED BY <3>1, <3>2
  <2>5. CASE ~(r + 1 < n)
    <3>1. y = p + n + 0 /\ 0 \in 0..n - 1 /\ q + 1 \in Nat BY <2>2, <2>5
    <3>2. y = Compound(n, q + 1, 0) BY <2>3, <3>1 DEF Compound
    <3> QED BY <3>1, <3>2
  <2> QED BY <2>4, <2>5
<1>3. x \in S
  <2> HIDE DEF S
  <2>1. 0..x \subseteq S BY <1>1, <1>2, Upward
  <2> QED BY <2>1
<1> QED BY <1>3

\* What is less than a multiple has a smaller quotient.
LEMMA SmallerQuotient ==
  ASSUME NEW n \in Nat, NEW q \in Nat, NEW r \in Nat, NEW k \in Nat, Compound(n, q, r) < k * n PROVE q < k
<1> SUFFICES ASSUME k <= q PROVE FALSE
  OBVIOUS
<1>1. k * n <= q * n /\ k * n \in Nat /\ q * n \in Nat BY Grows
<1> DEFINE a == k * n
           b == q * n
<1>2. a <= b /\ a \in Nat /\ b \in Nat /\ b + r < a BY <1>1 DEF Compound
<1> HIDE DEF a, b
<1> QED BY <1>2

\* Each bit is that of a tile, and the bits of a level follow each other.
LEMMA BitsAre ==
  ASSUME DimensionsAssumption
  PROVE  /\ \A n \in 0..Size - 1 : \E c \in Coords : Bit(c) = n
         /\ \A z \in 0..Depth - 1 : \A c \in Coords :
              c[3] = z <=> Bit(c) \in z * Width * Height..(z + 1) * Width * Height - 1
         /\ \A z \in 0..Depth - 1 : z * Width * Height..(z + 1) * Width * Height - 1 \subseteq 0..Size - 1
<1> DEFINE W == Width
           H == Height
           D == Depth
           m == H * W
<1>1. W \in Nat /\ H \in Nat /\ D \in Nat BY DEF DimensionsAssumption
<1>2. m \in Nat /\ D * m \in Nat BY <1>1, Grows
<1>3. Size = D * m BY <1>1 DEF Size
<1>4. ASSUME NEW z \in Int PROVE z * W * H = z * m
  BY <1>1, <1>4
<1>5. ASSUME NEW n \in 0..D * m - 1 PROVE \E c \in Coords : Bit(c) = n
  <2>1. m > 0 /\ W > 0 /\ n \in Nat
    <3>1. D * m > 0 /\ n \in Nat BY <1>2
    <3>2. m # 0 BY <1>1, <3>1
    <3>3. W # 0 BY <1>1, <3>2
    <3> QED BY <1>1, <1>2, <3>1, <3>2, <3>3
  <2> HIDE DEF m
  <2>2. PICK z \in Nat, l \in 0..m - 1 : n = Compound(m, z, l) BY <1>2, <2>1, Division
  <2>3. PICK y \in Nat, x \in 0..W - 1 : l = Compound(W, y, x)
    <3>1. l \in Nat /\ W \in Nat /\ W > 0 BY <1>1, <1>2, <2>1, <2>2
    <3> QED BY <3>1, Division
  <2>4. z < D
    <3>1. n < D * m BY <1>2, <2>1
    <3> QED BY <1>1, <1>2, <2>2, <3>1, SmallerQuotient
  <2>5. y < H
    <3>1. l < H * W BY <1>2, <2>2 DEF m
    <3> QED BY <1>1, <2>3, <3>1, SmallerQuotient
  <2> DEFINE c == <<x, y, z>>
  <2>6. c \in Coords BY <1>1, <2>3, <2>4, <2>5 DEF Coords
  <2>7. Bit(c) = n
    <3>1. Bit(c) = z * W * H + y * W + x BY DEF Bit
    <3>2. z * W * H = z * m BY <1>4
    <3>3. n = z * m + l /\ l = y * W + x BY <2>2, <2>3 DEF Compound
    <3> DEFINE p == z * m
               q == y * W
    <3>4. p \in Int /\ q \in Int BY <1>1, <1>2
    <3>5. Bit(c) = p + q + x /\ n = p + (q + x) BY <3>1, <3>2, <3>3
    <3> HIDE DEF p, q
    <3> QED BY <3>4, <3>5
  <2> QED BY <2>6, <2>7
<1>6. ASSUME NEW z \in 0..D - 1
      PROVE  /\ z * W * H = z * m /\ (z + 1) * W * H = z * m + m /\ z * m \in Nat /\ z * m + m <= D * m /\ z \in Nat
  <2>1. z \in Nat /\ z + 1 \in Nat /\ z + 1 <= D BY <1>1
  <2>2. (z + 1) * m <= D * m /\ z * m \in Nat BY <1>1, <1>2, <2>1, Grows
  <2>3. (z + 1) * m = z * m + m BY <1>2, <2>1
  <2>4. z * W * H = z * m /\ (z + 1) * W * H = (z + 1) * m BY <1>4, <2>1
  <2> QED BY <2>1, <2>2, <2>3, <2>4
<1>7. ASSUME NEW z \in 0..D - 1, NEW c \in Coords
      PROVE  c[3] = z <=> Bit(c) \in z * W * H..(z + 1) * W * H - 1
  <2>1. PICK l \in 0..m - 1 : Bit(c) = Compound(m, c[3], l) /\ c[3] \in Nat
    <3>1. c = <<c[1], c[2], c[3]>> /\ c[1] \in 0..W - 1 /\ c[2] \in 0..H - 1 /\ c[3] \in 0..D - 1
      BY DEF Coords
    <3>2. PICK l \in Int : l = c[2] * W + c[1] BY <1>1, <3>1
    <3>3. c[2] \in Nat /\ H - 1 \in Nat /\ c[2] <= H - 1 BY <1>1, <3>1
    <3>4. c[2] * W <= (H - 1) * W /\ c[2] * W \in Nat BY <1>1, <3>3, Grows
    <3>5. (H - 1) * W = m - W BY <1>1
    <3>6. l \in 0..m - 1
      <4> DEFINE p == c[2] * W
      <4>1. p <= m - W /\ p \in Nat /\ l = p + c[1] BY <3>2, <3>4, <3>5
      <4> HIDE DEF p, m
      <4> QED BY <1>1, <1>2, <3>1, <4>1
    <3>7. c[3] * W * H = c[3] * m BY <1>4, <3>1
    <3>8. Bit(c) = c[3] * m + l
      <4> DEFINE p == c[3] * m
                 q == c[2] * W
      <4>1. Bit(c) = p + q + c[1] BY <3>7 DEF Bit
      <4>2. p \in Int /\ q \in Int /\ c[1] \in Int /\ l = q + c[1] BY <1>1, <1>2, <3>1, <3>2
      <4> HIDE DEF p, q
      <4>3. Bit(c) = p + l BY <4>1, <4>2
      <4> QED BY <4>3 DEF p
    <3> QED BY <1>1, <3>1, <3>6, <3>8 DEF Compound
  <2> HIDE DEF m, D
  <2>2. /\ z * W * H = z * m /\ (z + 1) * W * H = z * m + m /\ z * m \in Nat /\ z \in Nat BY <1>6
  <2>3. ASSUME c[3] = z PROVE Bit(c) \in z * W * H..(z + 1) * W * H - 1
    <3> DEFINE p == z * m
    <3>1. Bit(c) = p + l BY <2>1, <2>3 DEF Compound
    <3>2. z * W * H = p /\ (z + 1) * W * H = p + m /\ p \in Nat BY <2>2
    <3> HIDE DEF p, W, H
    <3> QED BY <1>2, <3>1, <3>2
  <2>4. ASSUME Bit(c) \in z * W * H..(z + 1) * W * H - 1 PROVE c[3] = z
    <3> DEFINE p == z * m
               b == Bit(c)
               lo == z * W * H
               hi == (z + 1) * W * H
    <3>1. lo = p /\ hi = p + m /\ p \in Nat /\ b \in lo..hi - 1 BY <2>2, <2>4
    <3> HIDE DEF p, W, H, b, lo, hi
    <3>2. b \in p..p + m - 1 /\ b \in Int BY <3>1, <1>2
    <3>3. b - p \in 0..m - 1 /\ b = p + (b - p) BY <1>2, <3>1, <3>2
    <3>4. b = Compound(m, z, b - p) BY <3>3 DEF Compound, p
    <3>5. Compound(m, c[3], l) = Compound(m, z, b - p) BY <2>1, <3>4 DEF b
    <3> QED BY <1>2, <2>1, <2>2, <3>3, <3>5, Quotient
  <2> QED BY <2>3, <2>4
<1>8. ASSUME NEW z \in 0..D - 1 PROVE z * W * H..(z + 1) * W * H - 1 \subseteq 0..D * m - 1
  <2> DEFINE lo == z * W * H
             hi == (z + 1) * W * H
             q  == D * m
  <2>1. lo \in Nat /\ hi \in Int /\ hi <= q /\ q \in Int
    <3> DEFINE p == z * m
    <3>1. lo = p /\ hi = p + m /\ p \in Nat /\ p + m <= q BY <1>6
    <3>2. q \in Int BY <1>1, <1>2
    <3> HIDE DEF lo, hi, q, p, m
    <3> QED BY <1>2, <3>1, <3>2
  <2>2. lo..hi - 1 \subseteq 0..q - 1
    <3> HIDE DEF lo, hi, q, m
    <3> QED BY <2>1
  <2> HIDE DEF m
  <2> QED BY <2>2 DEF lo, hi, q
<1> HIDE DEF m
<1> QED BY <1>3, <1>5, <1>7, <1>8 DEF W, H, D

\* A set of tiles is finite, and has as many bits as tiles.
LEMMA BitsCount ==
  ASSUME DimensionsAssumption
  PROVE  /\ IsFiniteSet(Coords) /\ Cardinality(Coords) = Size
         /\ \A S \in SUBSET Coords :
              IsFiniteSet(S) /\ Cardinality(S) \in Nat /\ Cardinality({Bit(c) : c \in S}) = Cardinality(S)
<1> DEFINE N == Size
<1>1. /\ N \in Nat /\ \A c \in Coords : Bit(c) \in 0..N - 1
      /\ \A c, d \in Coords : Bit(c) = Bit(d) => c = d
      /\ \A n \in 0..N - 1 : \E c \in Coords : Bit(c) = n
  BY BitIs, BitsAre
<1>2. IsFiniteSet(0..N - 1) /\ Cardinality(0..N - 1) = N
  <2>1. 0 \in Int /\ N - 1 \in Int BY <1>1
  <2> HIDE DEF N
  <2>2. IsFiniteSet(0..N - 1) /\ Cardinality(0..N - 1) = IF 0 > N - 1 THEN 0 ELSE N - 1 - 0 + 1 BY <2>1, FS_Interval
  <2> QED BY <1>1, <2>2
<1> HIDE DEF N
<1>3. ASSUME NEW S \in SUBSET Coords, IsFiniteSet(S)
      PROVE  Cardinality({Bit(c) : c \in S}) = Cardinality(S)
  <2> DEFINE T == {Bit(c) : c \in S}
             f == [c \in S |-> Bit(c)]
  <2>1. f \in [S -> T] /\ \A n \in T : \E c \in S : f[c] = n OBVIOUS
  <2>2. \A c, d \in S : f[c] = f[d] => c = d
    <3> SUFFICES ASSUME NEW c \in S, NEW d \in S, f[c] = f[d] PROVE c = d
      OBVIOUS
    <3>1. Bit(c) = Bit(d) OBVIOUS
    <3> QED BY <1>1, <3>1
  <2> HIDE DEF f, T
  <2>3. ExistsBijection(S, T)
    BY <2>1, <2>2 DEF ExistsBijection, Bijection, Injection, Surjection, IsInjective
  <2>4. Cardinality(T) = Cardinality(S) BY <1>3, <2>3, FS_Bijection
  <2> QED BY <2>4 DEF T
<1>4. IsFiniteSet(Coords)
  <2> DEFINE f == [c \in Coords |-> Bit(c)]
  <2>1. f \in [Coords -> 0..N - 1] BY <1>1
  <2>2. \A c, d \in Coords : f[c] = f[d] => c = d
    <3> SUFFICES ASSUME NEW c \in Coords, NEW d \in Coords, f[c] = f[d] PROVE c = d
      OBVIOUS
    <3>1. Bit(c) = Bit(d) OBVIOUS
    <3> QED BY <1>1, <3>1
  <2>3. \A n \in 0..N - 1 : \E c \in Coords : f[c] = n
    <3>1. \A c \in Coords : f[c] = Bit(c) OBVIOUS
    <3> QED BY <1>1, <3>1
  <2> HIDE DEF f
  <2> DEFINE g == [n \in 0..N - 1 |-> CHOOSE c \in Coords : f[c] = n]
  <2>4. \A n \in 0..N - 1 : g[n] \in Coords /\ f[g[n]] = n
    <3> SUFFICES ASSUME NEW n \in 0..N - 1 PROVE g[n] \in Coords /\ f[g[n]] = n
      OBVIOUS
    <3> DEFINE c == CHOOSE d \in Coords : f[d] = n
    <3>1. g[n] = c OBVIOUS
    <3>2. \E d \in Coords : f[d] = n BY <2>3
    <3>3. c \in Coords /\ f[c] = n BY <3>2, Zenon
    <3> QED BY <3>1, <3>3
  <2>5. g = [n \in 0..N - 1 |-> g[n]] OBVIOUS
  <2> HIDE DEF g
  <2>6. g \in [0..N - 1 -> Coords] BY <2>4, <2>5
  <2>7. \A c \in Coords : \E n \in 0..N - 1 : g[n] = c
    <3> SUFFICES ASSUME NEW c \in Coords PROVE \E n \in 0..N - 1 : g[n] = c
      OBVIOUS
    <3>1. f[c] \in 0..N - 1 BY <2>1
    <3>2. g[f[c]] = c BY <2>2, <2>4, <3>1
    <3> QED BY <3>1, <3>2
  <2>8. g \in Surjection(0..N - 1, Coords) BY <2>6, <2>7 DEF Surjection
  <2> QED BY <1>2, <2>8, FS_Surjection
<1>5. Cardinality(Coords) = N
  <2>1. {Bit(c) : c \in Coords} = 0..N - 1
    <3>1. \A n : n \in {Bit(c) : c \in Coords} <=> \E c \in Coords : Bit(c) = n
      OBVIOUS
    <3> QED BY <1>1, <3>1
  <2>2. Cardinality({Bit(c) : c \in Coords}) = Cardinality(Coords) BY <1>3, <1>4
  <2> QED BY <1>2, <2>1, <2>2
<1>6. \A S \in SUBSET Coords : IsFiniteSet(S) BY <1>4, FS_Subset
<1> QED BY <1>3, <1>4, <1>5, <1>6, FS_CardinalityType DEF N

\* A set that takes in or gives up an element counts one more or less.
LEMMA CountChanges ==
  ASSUME NEW S, NEW T, NEW x, IsFiniteSet(S), NEW b \in BOOLEAN, T = IF b THEN S \cup {x} ELSE S \ {x}
  PROVE  Cardinality(T) = Cardinality(S) + ((IF b THEN 1 ELSE 0) - (IF x \in S THEN 1 ELSE 0))
<1>1. Cardinality(S) \in Nat BY FS_CardinalityType
<1>2. CASE b
  <2>1. Cardinality(T) = IF x \in S THEN Cardinality(S) ELSE Cardinality(S) + 1 BY <1>2, FS_AddElement
  <2> QED BY <1>1, <1>2, <2>1
<1>3. CASE ~b
  <2>1. Cardinality(T) = IF x \in S THEN Cardinality(S) - 1 ELSE Cardinality(S) BY <1>3, FS_RemoveElement
  <2> QED BY <1>1, <1>3, <2>1
<1> QED BY <1>2, <1>3

\* Each tile of the overlay is as it was last told, in place, and the open and the
\* closed ones are counted.
ToldTo(of, s) == {c \in Coords : of[c] = s}
InPlace(ov, of) ==
  \A c \in Coords :
    /\ of[c] \in {"open", "closed", "unknown"}
    /\ Bit(c) \in ov.known <=> of[c] # "unknown"
    /\ Bit(c) \in ov.data <=> of[c] = "open"
Shows(ov, of) ==
  /\ InPlace(ov, of)
  /\ ov.openTiles = Cardinality(ToldTo(of, "open")) /\ ov.closedTiles = Cardinality(ToldTo(of, "closed"))
OpenOf(ov) == {c \in Coords : GetTileState(ov, c) = "open"}

\* The open tiles are those told to be open.
LEMMA OpenIs ==
  ASSUME NEW ov, NEW of, Shows(ov, of)
  PROVE  /\ OpenOf(ov) = {c \in Coords : of[c] = "open"}
         /\ \A c : GetTileState(ov, c) = "open" <=> c \in OpenOf(ov)
<1>1. \A c : GetTileState(ov, c) = "open" => c \in Coords BY DEF GetTileState
<1>2. \A c \in Coords : GetTileState(ov, c) = "open" <=> of[c] = "open"
  BY DEF Shows, InPlace, GetTileState
<1> QED BY <1>1, <1>2 DEF OpenOf

\* A map built from tiles shows what they are.
LEMMA BuildShows ==
  ASSUME DimensionsAssumption, NEW flags,
         NEW of, of = [c \in Coords |-> ClassifyState(flags[c])]
  PROVE  Shows(BuildFromTiles(flags), of)
<1> DEFINE Is(s) == {Bit(c) : c \in {d \in Coords : ClassifyState(flags[d]) = s}}
           ov == BuildFromTiles(flags)
<1>1. ASSUME NEW c \in Coords, NEW s PROVE Bit(c) \in Is(s) <=> of[c] = s
  <2>1. of[c] = ClassifyState(flags[c]) OBVIOUS
  <2>2. \A d \in Coords : Bit(c) = Bit(d) => c = d BY BitIs
  <2> QED BY <2>1, <2>2
<1>2. \A c \in Coords : of[c] \in {"open", "closed", "unknown"} BY DEF ClassifyState
<1>3. /\ ov.known = Is("open") \cup Is("closed") /\ ov.data = Is("open")
      /\ ov.openTiles = Cardinality(Is("open")) /\ ov.closedTiles = Cardinality(Is("closed"))
  BY DEF BuildFromTiles
<1>4. ASSUME NEW s PROVE Cardinality(Is(s)) = Cardinality(ToldTo(of, s))
  <2> DEFINE S == {d \in Coords : ClassifyState(flags[d]) = s}
  <2>1. S = ToldTo(of, s) BY DEF ToldTo
  <2>2. Cardinality({Bit(c) : c \in S}) = Cardinality(S)
    <3>1. S \in SUBSET Coords OBVIOUS
    <3> HIDE DEF S
    <3> QED BY <3>1, BitsCount
  <2>3. Is(s) = {Bit(c) : c \in S} OBVIOUS
  <2> HIDE DEF S, Is
  <2> QED BY <2>1, <2>2, <2>3
<1> HIDE DEF Is, ov
<1>5. InPlace(ov, of) BY <1>1, <1>2, <1>3 DEF InPlace
<1>6. ov.openTiles = Cardinality(ToldTo(of, "open")) /\ ov.closedTiles = Cardinality(ToldTo(of, "closed"))
  BY <1>3, <1>4
<1> QED BY <1>5, <1>6 DEF ov, Shows

\* A tile that is set is as it was set, and no other changes.
LEMMA SetShows ==
  ASSUME DimensionsAssumption, NEW ov, NEW of, Shows(ov, of), NEW c, NEW s \in {"open", "closed", "unknown"},
         NEW now, \A d \in Coords : now[d] = IF d = c THEN s ELSE of[d]
  PROVE  Shows(SetTileState(ov, c, s), now)
<1> DEFINE b == Bit(c)
           new == SetTileState(ov, c, s)
<1>1. CASE c \notin Coords
  <2>1. new = ov BY <1>1 DEF SetTileState
  <2>2. \A d \in Coords : now[d] = of[d] BY <1>1
  <2>3. InPlace(ov, now) BY <2>2 DEF Shows, InPlace
  <2>4. \A t : ToldTo(now, t) = ToldTo(of, t) BY <2>2 DEF ToldTo
  <2> QED BY <2>1, <2>3, <2>4 DEF Shows
<1>2. CASE c \in Coords
  <2> DEFINE was(t) == c \in Coords /\ Bit(c) \in ov.known /\ ((Bit(c) \in ov.data) = (t = "open"))
             step(t) == (IF s = t THEN 1 ELSE 0) - (IF was(t) THEN 1 ELSE 0)
  <2>1. /\ new.known = IF s = "unknown" THEN ov.known \ {b} ELSE ov.known \cup {b}
        /\ new.data = IF s = "open" THEN ov.data \cup {b} ELSE ov.data \ {b}
        /\ new.openTiles = ov.openTiles + step("open") /\ new.closedTiles = ov.closedTiles + step("closed")
    BY <1>2 DEF SetTileState
  <2>2. \A d \in Coords : Bit(d) = b <=> d = c BY <1>2, BitIs
  <2> HIDE DEF new
  <2>3. InPlace(new, now)
    <3> HIDE DEF b, step
    <3> SUFFICES ASSUME NEW d \in Coords
                 PROVE  /\ now[d] \in {"open", "closed", "unknown"}
                        /\ Bit(d) \in new.known <=> now[d] # "unknown"
                        /\ Bit(d) \in new.data <=> now[d] = "open"
      BY DEF InPlace
    <3>1. CASE d = c BY <2>1, <2>2, <3>1
    <3>2. CASE d # c BY <2>1, <2>2, <3>2 DEF Shows, InPlace
    <3> QED BY <3>1, <3>2
  <2>4. ASSUME NEW t \in {"open", "closed"} PROVE was(t) <=> c \in ToldTo(of, t)
    <3>1. of[c] \in {"open", "closed", "unknown"} /\ (b \in ov.known <=> of[c] # "unknown") /\ (b \in ov.data <=> of[c] = "open")
      BY <1>2 DEF Shows, InPlace
    <3>2. (b \in ov.data) \in BOOLEAN OBVIOUS
    <3>3. CASE t = "open" BY <1>2, <3>1, <3>2, <3>3 DEF ToldTo
    <3>4. CASE t = "closed" BY <1>2, <3>1, <3>2, <3>4 DEF ToldTo
    <3> QED BY <3>3, <3>4
  <2> HIDE DEF was
  <2>5. ASSUME NEW t \in {"open", "closed"}
        PROVE  Cardinality(ToldTo(now, t)) = Cardinality(ToldTo(of, t)) + step(t)
    <3> DEFINE S == ToldTo(of, t)
               T == ToldTo(now, t)
    <3>1. IsFiniteSet(S)
      <4>1. S \in SUBSET Coords BY DEF ToldTo
      <4> QED BY <4>1, BitsCount
    <3>2. T = IF s = t THEN S \cup {c} ELSE S \ {c} BY <1>2 DEF ToldTo
    <3>3. was(t) <=> c \in S BY <2>4
    <3> HIDE DEF S, T
    <3> DEFINE e == s = t
    <3>4. e \in BOOLEAN /\ T = IF e THEN S \cup {c} ELSE S \ {c} BY <3>2
    <3> HIDE DEF e
    <3>5. Cardinality(T) = Cardinality(S) + ((IF e THEN 1 ELSE 0) - (IF c \in S THEN 1 ELSE 0))
      BY <3>1, <3>4, CountChanges
    <3>6. Cardinality(T) = Cardinality(S) + step(t) BY <3>3, <3>5 DEF e
    <3> QED BY <3>6 DEF S, T
  <2> HIDE DEF step
  <2>6. /\ new.openTiles = Cardinality(ToldTo(now, "open")) /\ new.closedTiles = Cardinality(ToldTo(now, "closed"))
    BY <2>1, <2>5 DEF Shows
  <2> QED BY <2>3, <2>6 DEF Shows, new
<1> QED BY <1>1, <1>2

----------------------------------------------------------------------------
(* The regions of the map overlay.                                         *)

\* Two tiles with a side in common.
Adjacent(a, b) ==
  Abs(a[1] - b[1]) + Abs(a[2] - b[2]) + Abs(a[3] - b[3]) = 1
IsIn(s, x) == \E i \in 1..Len(s) : s[i] = x
\* Tiles of S found one after the other, each beside one that was there before.
Found(s, S) ==
  /\ s \in Seq(S) /\ s # <<>>
  /\ \A i, j \in 1..Len(s) : s[i] = s[j] => i = j
  /\ \A i \in 2..Len(s) : \E j \in 1..i - 1 : Adjacent(s[j], s[i])
Extends(s, t) == Len(s) <= Len(t) /\ \A i \in 1..Len(s) : t[i] = s[i]
\* The neighbours n that are open and not visited before have been found.
Handles(s, n, D, V) == n \in D => n \in V \/ IsIn(s, n)

\* The set of a sequence is what occurs in it.
LEMMA ToSetIs == ASSUME NEW T, NEW s \in Seq(T) PROVE \A x : x \in ToSet(s) <=> IsIn(s, x)
BY LenProperties DEF ToSet, IsIn

\* The neighbours of a tile are those with a side in common.
LEMMA NeighborsAre ==
  ASSUME DimensionsAssumption, NEW c \in Coords, NEW n \in Coords
  PROVE  /\ Adjacent(c, n) <=> Adjacent(n, c)
         /\ Adjacent(c, n) <=> \E i \in 1..6 : n = neighbors(c)[i]
<1>1. /\ c = <<c[1], c[2], c[3]>> /\ n = <<n[1], n[2], n[3]>>
      /\ c[1] \in Int /\ c[2] \in Int /\ c[3] \in Int /\ n[1] \in Int /\ n[2] \in Int /\ n[3] \in Int
  BY DEF Coords, DimensionsAssumption
<1>2. Adjacent(c, n) <=>
        \/ n[1] = c[1] - 1 /\ n[2] = c[2] /\ n[3] = c[3]
        \/ n[1] = c[1] + 1 /\ n[2] = c[2] /\ n[3] = c[3]
        \/ n[1] = c[1] /\ n[2] = c[2] - 1 /\ n[3] = c[3]
        \/ n[1] = c[1] /\ n[2] = c[2] + 1 /\ n[3] = c[3]
        \/ n[1] = c[1] /\ n[2] = c[2] /\ n[3] = c[3] - 1
        \/ n[1] = c[1] /\ n[2] = c[2] /\ n[3] = c[3] + 1
  BY <1>1 DEF Adjacent, Abs
<1>3. Adjacent(c, n) <=> Adjacent(n, c) BY <1>1 DEF Adjacent, Abs
<1>4. (\E i \in 1..6 : n = neighbors(c)[i]) <=>
        \/ n = <<c[1] - 1, c[2], c[3]>> \/ n = <<c[1] + 1, c[2], c[3]>> \/ n = <<c[1], c[2] - 1, c[3]>>
        \/ n = <<c[1], c[2] + 1, c[3]>> \/ n = <<c[1], c[2], c[3] - 1>> \/ n = <<c[1], c[2], c[3] + 1>>
  <2>1. 1..6 = {1, 2, 3, 4, 5, 6} OBVIOUS
  <2>2. /\ neighbors(c)[1] = <<c[1] - 1, c[2], c[3]>> /\ neighbors(c)[2] = <<c[1] + 1, c[2], c[3]>>
        /\ neighbors(c)[3] = <<c[1], c[2] - 1, c[3]>> /\ neighbors(c)[4] = <<c[1], c[2] + 1, c[3]>>
        /\ neighbors(c)[5] = <<c[1], c[2], c[3] - 1>> /\ neighbors(c)[6] = <<c[1], c[2], c[3] + 1>>
    BY DEF neighbors
  <2> QED BY <2>1, <2>2
<1>5. \A x, y, z : n = <<x, y, z>> <=> n[1] = x /\ n[2] = y /\ n[3] = z BY <1>1
<1> QED BY <1>2, <1>3, <1>4, <1>5

\* A neighbour that is taken was not there, and the neighbour is handled.
LEMMA TakeIs ==
  ASSUME NEW ov, NEW V, NEW t, Found(t, OpenOf(ov) \ V), NEW j \in 1..Len(t), NEW n,
         n \in Coords => Adjacent(t[j], n)
  PROVE  /\ Found(Take(ov, V, t, n), OpenOf(ov) \ V) /\ Extends(t, Take(ov, V, t, n))
         /\ Handles(Take(ov, V, t, n), n, OpenOf(ov), V)
<1> DEFINE S == OpenOf(ov) \ V
           u == Take(ov, V, t, n)
<1>1. t \in Seq(S) /\ Len(t) \in Nat BY LenProperties DEF Found
<1>2. n \in ToSet(t) <=> IsIn(t, n) BY <1>1, ToSetIs
<1>3. n \in OpenOf(ov) => n \in Coords /\ GetTileState(ov, n) = "open" BY DEF OpenOf
<1>4. GetTileState(ov, n) = "open" => n \in OpenOf(ov) BY DEF OpenOf, GetTileState
<1> SUFFICES Found(u, S) /\ Extends(t, u) /\ Handles(u, n, OpenOf(ov), V)
  OBVIOUS
<1>5. CASE n \in V \cup ToSet(t) \/ GetTileState(ov, n) # "open"
  <2>1. u = t BY <1>5 DEF Take
  <2>2. Handles(t, n, OpenOf(ov), V) BY <1>2, <1>3, <1>5 DEF Handles
  <2>3. Extends(t, t) BY <1>1 DEF Extends
  <2> QED BY <2>1, <2>2, <2>3
<1>6. CASE ~(n \in V \cup ToSet(t) \/ GetTileState(ov, n) # "open")
  <2>1. u = Append(t, n) BY <1>6 DEF Take
  <2>2. n \in S /\ n \in Coords /\ ~IsIn(t, n) BY <1>2, <1>3, <1>4, <1>6
  <2> HIDE DEF S, u
  <2>3. /\ u \in Seq(S) /\ u # <<>> /\ Len(u) = Len(t) + 1 /\ u[Len(t) + 1] = n
        /\ \A i \in 1..Len(t) : u[i] = t[i]
    BY <1>1, <2>1, <2>2, AppendProperties
  <2>4. \A i \in 1..Len(u) : i \in 1..Len(t) \/ i = Len(t) + 1 BY <1>1, <2>3
  <2>5. \A i, k \in 1..Len(u) : u[i] = u[k] => i = k
    <3> SUFFICES ASSUME NEW i \in 1..Len(u), NEW k \in 1..Len(u), u[i] = u[k] PROVE i = k
      OBVIOUS
    <3>1. \A l \in 1..Len(t) : u[l] # n BY <2>2, <2>3 DEF IsIn
    <3>2. CASE i \in 1..Len(t) /\ k \in 1..Len(t) BY <2>3, <3>2 DEF Found
    <3>3. CASE i = Len(t) + 1 BY <2>3, <2>4, <3>1, <3>3
    <3>4. CASE k = Len(t) + 1 BY <2>3, <2>4, <3>1, <3>4
    <3> QED BY <2>4, <3>2, <3>3, <3>4
  <2>6. \A i \in 2..Len(u) : \E k \in 1..i - 1 : Adjacent(u[k], u[i])
    <3> SUFFICES ASSUME NEW i \in 2..Len(u) PROVE \E k \in 1..i - 1 : Adjacent(u[k], u[i])
      OBVIOUS
    <3>1. CASE i = Len(t) + 1
      <4>1. j \in 1..i - 1 /\ u[j] = t[j] /\ u[i] = n BY <1>1, <2>3, <3>1
      <4> QED BY <2>2, <4>1
    <3>2. CASE i # Len(t) + 1
      <4>1. i \in 2..Len(t) /\ u[i] = t[i] /\ \A k \in 1..i - 1 : k \in 1..Len(t) BY <1>1, <2>3, <3>2
      <4>2. PICK k \in 1..i - 1 : Adjacent(t[k], t[i]) BY <4>1 DEF Found
      <4> QED BY <2>3, <4>1, <4>2
    <3> QED BY <3>1, <3>2
  <2>7. Handles(u, n, OpenOf(ov), V)
    <3>1. Len(t) + 1 \in 1..Len(u) BY <1>1, <2>3
    <3> QED BY <2>3, <3>1 DEF Handles, IsIn
  <2>8. Extends(t, u) BY <1>1, <2>3 DEF Extends
  <2> QED BY <2>3, <2>5, <2>6, <2>7, <2>8 DEF Found
<1> QED BY <1>5, <1>6

\* What extends tiles found has them, and handles what they handle.
LEMMA ExtendsOn ==
  ASSUME NEW S, NEW s, NEW t, NEW u, Found(s, S), Found(t, S), Found(u, S), Extends(s, t), Extends(t, u)
  PROVE  /\ Extends(s, u)
         /\ \A n, D, V : Handles(s, n, D, V) => Handles(t, n, D, V)
<1>1. Len(s) \in Nat /\ Len(t) \in Nat /\ Len(u) \in Nat BY LenProperties DEF Found
<1>2. \A i \in 1..Len(s) : i \in 1..Len(t) BY <1>1 DEF Extends
<1>3. Extends(s, u)
  <2>1. Len(s) <= Len(u) BY <1>1 DEF Extends
  <2>2. \A i \in 1..Len(s) : u[i] = s[i] BY <1>2 DEF Extends
  <2> QED BY <2>1, <2>2 DEF Extends
<1>4. \A n : IsIn(s, n) => IsIn(t, n) BY <1>2 DEF Extends, IsIn
<1> QED BY <1>3, <1>4 DEF Handles

\* All neighbours of a tile found are handled.
LEMMA AroundIs ==
  ASSUME DimensionsAssumption, NEW ov, NEW V, NEW t, Found(t, OpenOf(ov) \ V), NEW j \in 1..Len(t)
  PROVE  /\ Found(Around(ov, V, t, t[j]), OpenOf(ov) \ V) /\ Extends(t, Around(ov, V, t, t[j]))
         /\ \A n \in OpenOf(ov) : Adjacent(t[j], n) => Handles(Around(ov, V, t, t[j]), n, OpenOf(ov), V)
<1> DEFINE D == OpenOf(ov)
           S == D \ V
           c == t[j]
           n == neighbors(c)
           t1 == Take(ov, V, t, n[1])
           t2 == Take(ov, V, t1, n[2])
           t3 == Take(ov, V, t2, n[3])
           t4 == Take(ov, V, t3, n[4])
           t5 == Take(ov, V, t4, n[5])
           t6 == Take(ov, V, t5, n[6])
<1>1. Around(ov, V, t, t[j]) = t6 BY DEF Around
<1>2. c \in Coords
  <2>1. t \in Seq(S) BY DEF Found
  <2>2. c \in S BY <2>1, ElementOfSeq
  <2> QED BY <2>2 DEF OpenOf
<1>3. \A i \in 1..6 : n[i] \in Coords => Adjacent(c, n[i]) BY <1>2, NeighborsAre
<1>4. \A m \in D : Adjacent(c, m) => \E i \in 1..6 : m = n[i] BY <1>2, NeighborsAre DEF OpenOf
<1> SUFFICES Found(t6, S) /\ Extends(t, t6) /\ \A m \in D : Adjacent(c, m) => Handles(t6, m, D, V)
  BY <1>1
<1> HIDE DEF c, n
<1>5. ASSUME NEW u, Found(u, S), Extends(t, u) PROVE j \in 1..Len(u) /\ u[j] = c
  <2>1. Len(u) \in Nat /\ Len(t) \in Nat BY <1>5, LenProperties DEF Found
  <2> QED BY <1>5, <2>1 DEF Extends, c
<1> DEFINE Goes(u, v, i) == Found(v, S) /\ Extends(t, v) /\ Handles(v, n[i], D, V)
                            /\ \A m : Handles(u, m, D, V) => Handles(v, m, D, V)
<1>6. ASSUME NEW u, Found(u, S), Extends(t, u), NEW i \in 1..6
      PROVE  Goes(u, Take(ov, V, u, n[i]), i)
  <2>1. j \in 1..Len(u) /\ (n[i] \in Coords => Adjacent(u[j], n[i])) BY <1>3, <1>5, <1>6
  <2> DEFINE v == Take(ov, V, u, n[i])
  <2>2. Found(v, S) /\ Extends(u, v) /\ Handles(v, n[i], D, V) BY <1>6, <2>1, TakeIs
  <2> SUFFICES Goes(u, v, i)
    OBVIOUS
  <2> HIDE DEF v, S, D
  <2>3. Extends(v, v) BY <2>2, LenProperties DEF Extends, Found
  <2>4. Extends(t, v) BY <1>6, <2>2, ExtendsOn DEF S, D
  <2>5. \A m : Handles(u, m, D, V) => Handles(v, m, D, V) BY <1>6, <2>2, <2>3, ExtendsOn
  <2> QED BY <2>2, <2>4, <2>5
<1>7. Extends(t, t) BY LenProperties DEF Extends, Found
<1> HIDE DEF Goes
<1>8. Found(t, S) OBVIOUS
<1>9. \A u, v, i : Goes(u, v, i) => Found(v, S) /\ Extends(t, v) BY DEF Goes
<1>10. \A u : Found(u, S) /\ Extends(t, u) => \A i \in 1..6 : Goes(u, Take(ov, V, u, n[i]), i) BY <1>6
<1> HIDE DEF t1, t2, t3, t4, t5, t6, S, D
<1>11. Goes(t, t1, 1) BY <1>7, <1>8, <1>10 DEF t1
<1>12. Goes(t1, t2, 2) BY <1>9, <1>10, <1>11 DEF t2
<1>13. Goes(t2, t3, 3) BY <1>9, <1>10, <1>12 DEF t3
<1>14. Goes(t3, t4, 4) BY <1>9, <1>10, <1>13 DEF t4
<1>15. Goes(t4, t5, 5) BY <1>9, <1>10, <1>14 DEF t5
<1>16. Goes(t5, t6, 6) BY <1>9, <1>10, <1>15 DEF t6
<1>17. \A i \in 1..6 : Handles(t6, n[i], D, V)
  <2>1. Handles(t6, n[6], D, V) BY <1>16 DEF Goes
  <2>2. Handles(t6, n[5], D, V) BY <1>15, <1>16 DEF Goes
  <2>3. Handles(t6, n[4], D, V) BY <1>14, <1>15, <1>16 DEF Goes
  <2>4. Handles(t6, n[3], D, V) BY <1>13, <1>14, <1>15, <1>16 DEF Goes
  <2>5. Handles(t6, n[2], D, V) BY <1>12, <1>13, <1>14, <1>15, <1>16 DEF Goes
  <2>6. Handles(t6, n[1], D, V) BY <1>11, <1>12, <1>13, <1>14, <1>15, <1>16 DEF Goes
  <2> QED BY <2>1, <2>2, <2>3, <2>4, <2>5, <2>6
<1>18. Found(t6, S) /\ Extends(t, t6) BY <1>9, <1>16
<1> QED BY <1>4, <1>17, <1>18

\* Only open tiles are taken, whichever they are beside.
LEMMA DequeueIsOpen ==
  ASSUME NEW ov, NEW V, NEW t \in Seq(OpenOf(ov)), NEW k
  PROVE  Dequeue(ov, V, t, k) \in Seq(OpenOf(ov))
<1> DEFINE T == Seq(OpenOf(ov))
<1>1. \A u \in T : \A n : Take(ov, V, u, n) \in T
  <2> SUFFICES ASSUME NEW u \in T, NEW n PROVE Take(ov, V, u, n) \in T
    OBVIOUS
  <2>1. GetTileState(ov, n) = "open" => n \in OpenOf(ov) BY DEF OpenOf, GetTileState
  <2>2. n \in OpenOf(ov) => Append(u, n) \in T BY AppendProperties
  <2> HIDE DEF T
  <2> QED BY <2>1, <2>2 DEF Take
<1> HIDE DEF T
<1>2. t \in T BY DEF T
<1>3. \A u \in T : \A c : Around(ov, V, u, c) \in T BY <1>1 DEF Around
<1>4. Dequeue(ov, V, t, k) \in T BY <1>2, <1>3 DEF Dequeue
<1> QED BY <1>4 DEF T

\* What the first k tiles have beside them has been found.
Emptied(s, k, D, V) ==
  \A i \in 1..Len(s) : i <= k => \A n \in D : Adjacent(s[i], n) => Handles(s, n, D, V)
\* One more leaves the queue.
LEMMA DequeueIs ==
  ASSUME DimensionsAssumption, NEW ov, NEW V, NEW t, Found(t, OpenOf(ov) \ V), NEW k \in Nat, k > 0,
         Emptied(t, k - 1, OpenOf(ov), V)
  PROVE  /\ Found(Dequeue(ov, V, t, k), OpenOf(ov) \ V) /\ Extends(t, Dequeue(ov, V, t, k))
         /\ Emptied(Dequeue(ov, V, t, k), k, OpenOf(ov), V)
<1> DEFINE D == OpenOf(ov)
           S == D \ V
           u == Dequeue(ov, V, t, k)
<1>1. Len(t) \in Nat BY LenProperties DEF Found
<1> SUFFICES Found(u, S) /\ Extends(t, u) /\ Emptied(u, k, D, V)
  OBVIOUS
<1>2. CASE k > Len(t)
  <2>1. u = t BY <1>2 DEF Dequeue
  <2>2. Extends(t, t) BY <1>1 DEF Extends
  <2>3. \A i \in 1..Len(t) : i <= k - 1 BY <1>1, <1>2
  <2>4. Emptied(t, k, D, V) BY <2>3 DEF Emptied
  <2> QED BY <2>1, <2>2, <2>4
<1>3. CASE ~(k > Len(t))
  <2>1. k \in 1..Len(t) BY <1>1, <1>3
  <2>2. u = Around(ov, V, t, t[k]) BY <1>3 DEF Dequeue
  <2> DEFINE v == Around(ov, V, t, t[k])
  <2>3. Found(u, S) /\ Extends(t, u) /\ \A n \in D : Adjacent(t[k], n) => Handles(u, n, D, V)
    <3>1. Found(v, S) /\ Extends(t, v) /\ \A n \in D : Adjacent(t[k], n) => Handles(v, n, D, V)
      BY <2>1, AroundIs, Zenon
    <3> HIDE DEF u, v
    <3> QED BY <2>2, <3>1 DEF v
  <2> HIDE DEF u, S, D
  <2>4. Found(t, S) BY DEF S, D
  <2>5. Extends(u, u) BY <2>3, LenProperties DEF Extends, Found
  <2>6. \A n : Handles(t, n, D, V) => Handles(u, n, D, V) BY <2>3, <2>4, <2>5, ExtendsOn
  <2>7. Emptied(u, k, D, V)
    <3> SUFFICES ASSUME NEW i \in 1..Len(u), i <= k, NEW n \in D, Adjacent(u[i], n) PROVE Handles(u, n, D, V)
      BY DEF Emptied
    <3>1. i \in 1..Len(t) /\ u[i] = t[i] BY <2>1, <2>3 DEF Extends
    <3>2. CASE i = k BY <2>3, <3>1, <3>2
    <3>3. CASE i # k
      <4>1. i <= k - 1 BY <3>3
      <4>2. Handles(t, n, D, V) BY <3>1, <4>1 DEF Emptied, D
      <4> QED BY <2>6, <4>2
    <3> QED BY <3>2, <3>3
  <2> QED BY <2>3, <2>7
<1> QED BY <1>2, <1>3

\* No more tiles are found than there are.
LEMMA FoundFew ==
  ASSUME DimensionsAssumption, NEW S \in SUBSET Coords, NEW t, Found(t, S)
  PROVE  Len(t) \in Nat /\ Len(t) >= 1 /\ Len(t) <= Size
<1> DEFINE n == Len(t)
           f == [i \in 1..n |-> Bit(t[i])]
           N == Size
<1>1. n \in Nat /\ n >= 1 BY LenProperties, EmptySeq DEF Found
<1>2. N \in Nat /\ \A c \in Coords : Bit(c) \in 0..N - 1 BY BitIs
<1>3. \A i \in 1..n : t[i] \in Coords BY ElementOfSeq DEF Found
<1>4. f \in [1..n -> 0..N - 1] BY <1>2, <1>3
<1>5. IsFiniteSet(1..n) /\ Cardinality(1..n) = n
  <2>1. 1 \in Int /\ n \in Int BY <1>1
  <2> HIDE DEF n
  <2>2. IsFiniteSet(1..n) /\ Cardinality(1..n) = IF 1 > n THEN 0 ELSE n - 1 + 1 BY <2>1, FS_Interval
  <2> QED BY <1>1, <2>2
<1>6. IsFiniteSet(0..N - 1) /\ Cardinality(0..N - 1) = N
  <2>1. 0 \in Int /\ N - 1 \in Int BY <1>2
  <2> HIDE DEF N
  <2>2. IsFiniteSet(0..N - 1) /\ Cardinality(0..N - 1) = IF 0 > N - 1 THEN 0 ELSE N - 1 - 0 + 1 BY <2>1, FS_Interval
  <2> QED BY <1>2, <2>2
<1>7. \A i, j \in 1..n : f[i] = f[j] => i = j
  <2> SUFFICES ASSUME NEW i \in 1..n, NEW j \in 1..n, f[i] = f[j] PROVE i = j
    OBVIOUS
  <2>1. Bit(t[i]) = Bit(t[j]) OBVIOUS
  <2>2. t[i] = t[j] BY <1>3, <2>1, BitIs
  <2> QED BY <2>2 DEF Found
<1>8. ~(N < n)
  <2> SUFFICES ASSUME N < n PROVE FALSE
    OBVIOUS
  <2> HIDE DEF f, n, N
  <2>1. Cardinality(0..N - 1) < Cardinality(1..n) BY <1>5, <1>6
  <2>2. \E i, j \in 1..n : i # j /\ f[i] = f[j] BY <1>4, <1>5, <1>6, <2>1, FS_PigeonHole
  <2> QED BY <1>7, <2>2
<1> QED BY <1>1, <1>2, <1>8

\* From one tile all is found that can be reached without what was visited.
LEMMA FloodFillIs ==
  ASSUME DimensionsAssumption, NEW ov, NEW V, NEW c \in OpenOf(ov) \ V
  PROVE  /\ Found(floodFill(ov, c, V), OpenOf(ov) \ V) /\ IsIn(floodFill(ov, c, V), c)
         /\ \A a, n \in OpenOf(ov) : IsIn(floodFill(ov, c, V), a) /\ Adjacent(a, n)
              => n \in V \/ IsIn(floodFill(ov, c, V), n)
<1> DEFINE D == OpenOf(ov)
           S == D \ V
           N == Size
           Next_(k, t) == Dequeue(ov, V, t, k)
           Fill(f) == f = [k \in 0..N |-> IF k = 0 THEN <<c>> ELSE Next_(k, f[k - 1])]
           f == CHOOSE h : Fill(h)
<1>1. N \in Nat BY BitIs
<1>2. <<c>> \in Seq(D) /\ \A k : \A t \in Seq(D) : Next_(k, t) \in Seq(D) BY DequeueIsOpen
<1>3. floodFill(ov, c, V) = f[N] BY DEF floodFill
<1> HIDE DEF D, N, Next_
<1>4. \E h : Fill(h)
  <2> DEFINE g == [p \in (0 + 1..N) \X Seq(D) |-> Next_(p[1], p[2])]
  <2>1. g \in [(0 + 1..N) \X Seq(D) -> Seq(D)] BY <1>2
  <2>2. ASSUME NEW k \in 0 + 1..N, NEW t \in Seq(D) PROVE g[<<k, t>>] = Next_(k, t)
    <3>1. <<k, t>> \in (0 + 1..N) \X Seq(D) OBVIOUS
    <3> QED BY <3>1
  <2> HIDE DEF g
  <2>3. PICK h : Recurs(h, <<c>>, g, 0, N, Seq(D))
    <3>1. Steps(g, 0, N, Seq(D)) BY <2>1 DEF Steps
    <3> QED BY <1>1, <1>2, <3>1, Recursion
  <2>4. h \in [0..N -> Seq(D)] /\ \A k \in 0..N : h[k] = IF k = 0 THEN <<c>> ELSE g[<<k, h[k - 1]>>] BY <2>3 DEF Recurs
  <2>5. ASSUME NEW k \in 0..N PROVE h[k] = IF k = 0 THEN <<c>> ELSE Next_(k, h[k - 1])
    <3>1. k # 0 => k \in 0 + 1..N /\ k - 1 \in 0..N BY <1>1
    <3> QED BY <2>2, <2>4, <3>1
  <2>6. h = [k \in 0..N |-> h[k]] BY <2>4
  <2> QED BY <2>5, <2>6
<1>5. Fill(f) BY <1>4
<1> HIDE DEF f
<1>6. \A k \in 0..N : f[k] = IF k = 0 THEN <<c>> ELSE Next_(k, f[k - 1]) BY <1>5
<1> DEFINE Good == {k \in 0..N : Found(f[k], S) /\ f[k][1] = c /\ Emptied(f[k], k, D, V)}
<1>7. 0 \in Good
  <2>1. f[0] = <<c>> BY <1>1, <1>6
  <2>2. Len(<<c>>) = 1 /\ <<c>>[1] = c /\ <<c>> # <<>> /\ c \in S /\ <<c>> \in Seq(S) BY DEF D
  <2> DEFINE s == <<c>>
  <2> HIDE DEF s
  <2>3. Found(s, S)
    <3>1. Len(s) = 1 /\ s # <<>> /\ s \in Seq(S) BY <2>2 DEF s
    <3> QED BY <3>1 DEF Found
  <2>4. Emptied(s, 0, D, V)
    <3>1. \A i \in 1..Len(s) : ~(i <= 0) BY <2>2 DEF s
    <3> QED BY <3>1 DEF Emptied
  <2>5. f[0] = s /\ s[1] = c BY <2>1, <2>2 DEF s
  <2> QED BY <1>1, <2>3, <2>4, <2>5
<1>8. ASSUME NEW k \in 0 + 1..N, k - 1 \in Good PROVE k \in Good
  <2>1. k \in 0..N /\ k # 0 /\ k \in Nat /\ k > 0 BY <1>1
  <2>2. f[k] = Next_(k, f[k - 1]) BY <1>6, <2>1
  <2>3. Found(f[k - 1], S) /\ f[k - 1][1] = c /\ Emptied(f[k - 1], k - 1, D, V) BY <1>8
  <2>4. Found(f[k], S) /\ Extends(f[k - 1], f[k]) /\ Emptied(f[k], k, D, V)
    BY <2>1, <2>2, <2>3, DequeueIs DEF Next_, D
  <2>5. 1 \in 1..Len(f[k - 1])
    <3>1. Len(f[k - 1]) \in Nat /\ Len(f[k - 1]) # 0 BY <2>3, LenProperties, EmptySeq DEF Found
    <3> QED BY <3>1
  <2>6. f[k][1] = c BY <2>3, <2>4, <2>5 DEF Extends
  <2> QED BY <2>1, <2>4, <2>6
<1> DEFINE r == f[N]
<1>9. Found(r, S) /\ r[1] = c /\ Emptied(r, N, D, V)
  <2> HIDE DEF Good
  <2>1. 0..N \subseteq Good BY <1>1, <1>7, <1>8, Upward
  <2>2. N \in Good BY <1>1, <2>1
  <2> QED BY <2>2 DEF Good
<1> HIDE DEF r
<1> SUFFICES /\ Found(r, S) /\ IsIn(r, c)
             /\ \A a, n \in D : IsIn(r, a) /\ Adjacent(a, n) => n \in V \/ IsIn(r, n)
  BY <1>3 DEF r, D
<1>10. Len(r) \in Nat /\ Len(r) >= 1 /\ Len(r) <= N
  <2>1. S \in SUBSET Coords BY DEF D, OpenOf
  <2> HIDE DEF S
  <2> QED BY <1>9, <2>1, FoundFew DEF N
<1>11. IsIn(r, c)
  <2>1. 1 \in 1..Len(r) BY <1>10
  <2> QED BY <1>9, <2>1 DEF IsIn
<1>12. ASSUME NEW a \in D, NEW n \in D, IsIn(r, a), Adjacent(a, n) PROVE n \in V \/ IsIn(r, n)
  <2>1. PICK i \in 1..Len(r) : r[i] = a BY <1>12 DEF IsIn
  <2>2. i <= N BY <1>1, <1>10
  <2>3. Handles(r, n, D, V) BY <1>9, <1>12, <2>1, <2>2 DEF Emptied
  <2> QED BY <2>3 DEF Handles
<1> QED BY <1>9, <1>11, <1>12

\* Regions of D: each found tile by tile, apart from the others, with all of D
\* beside it.
Apart(R, D) ==
  /\ R \in Seq(Seq(D))
  /\ \A i \in 1..Len(R) : Found(R[i], D)
  /\ \A i, j \in 1..Len(R) : \A a : IsIn(R[i], a) /\ IsIn(R[j], a) => i = j
  /\ \A i \in 1..Len(R) : \A a, n \in D : IsIn(R[i], a) /\ Adjacent(a, n) => IsIn(R[i], n)
Placed(R, c) == \E i \in 1..Len(R) : IsIn(R[i], c)

\* The tiles of the regions so far are those marked as visited, and tiles of the map.
LEMMA VisitedIs ==
  ASSUME NEW D, NEW R \in Seq(Seq(D))
  PROVE  /\ \A c : c \in Visited(R) <=> Placed(R, c)
         /\ \A c : Placed(R, c) => c \in D
<1>1. DOMAIN R = 1..Len(R) /\ \A i \in 1..Len(R) : R[i] \in Seq(D) BY LenProperties, ElementOfSeq
<1>2. \A i \in 1..Len(R) : \A c : c \in ToSet(R[i]) <=> IsIn(R[i], c) BY <1>1, ToSetIs
<1>3. \A c : c \in Visited(R) <=> Placed(R, c) BY <1>1, <1>2 DEF Visited, Placed
<1>4. ASSUME NEW c, Placed(R, c) PROVE c \in D
  <2>1. PICK i \in 1..Len(R) : IsIn(R[i], c) BY <1>4 DEF Placed
  <2>2. PICK a \in 1..Len(R[i]) : R[i][a] = c BY <2>1 DEF IsIn
  <2> QED BY <1>1, <2>2, ElementOfSeq
<1> QED BY <1>3, <1>4

\* A tile of the scan joins a region that is there or starts one.
LEMMA ScanIs ==
  ASSUME DimensionsAssumption, NEW ov, NEW R \in Seq(Seq(OpenOf(ov))), NEW c
  PROVE  /\ Scan(ov, R, c) \in Seq(Seq(OpenOf(ov)))
         /\ Apart(R, OpenOf(ov)) =>
              /\ Apart(Scan(ov, R, c), OpenOf(ov))
              /\ \A a : Placed(R, a) => Placed(Scan(ov, R, c), a)
              /\ c \in OpenOf(ov) => Placed(Scan(ov, R, c), c)
<1> DEFINE D == OpenOf(ov)
           V == Visited(R)
           r == floodFill(ov, c, V)
           Q == Scan(ov, R, c)
<1>0. GetTileState(ov, c) = "open" <=> c \in D BY DEF OpenOf, GetTileState
<1>1. /\ \A a : a \in V <=> Placed(R, a)
      /\ \A a : Placed(R, a) => a \in D
  BY VisitedIs
<1> SUFFICES /\ Q \in Seq(Seq(D))
             /\ Apart(R, D) => /\ Apart(Q, D) /\ \A a : Placed(R, a) => Placed(Q, a)
                               /\ c \in D => Placed(Q, c)
  OBVIOUS
<1>2. CASE c \in V \/ c \notin D
  <2>1. Q = R BY <1>0, <1>2 DEF Scan
  <2> HIDE DEF Q
  <2> QED BY <1>1, <1>2, <2>1
<1>3. CASE ~(c \in V \/ c \notin D)
  <2>1. Q = Append(R, r) BY <1>0, <1>3 DEF Scan
  <2>2. /\ Found(r, D \ V) /\ IsIn(r, c)
        /\ \A a, n \in D : IsIn(r, a) /\ Adjacent(a, n) => n \in V \/ IsIn(r, n)
    BY <1>3, FloodFillIs
  <2> DEFINE m == Len(R)
  <2>3. m \in Nat /\ R \in Seq(Seq(D)) BY LenProperties
  <2> HIDE DEF Q, r, V, D
  <2>4. Found(r, D)
    <3>1. r \in Seq(D \ V) BY <2>2 DEF Found
    <3>2. r \in Seq(D) BY <3>1, SeqMonotonic
    <3> QED BY <2>2, <3>2 DEF Found
  <2>5. r \in Seq(D) BY <2>4 DEF Found
  <2>6. Q \in Seq(Seq(D)) /\ Len(Q) = m + 1 /\ Q[m + 1] = r /\ \A i \in 1..m : Q[i] = R[i]
    BY <2>1, <2>3, <2>5, AppendProperties
  <2>7. \A i \in 1..Len(Q) : i \in 1..m \/ i = m + 1 BY <2>3, <2>6
  <2>8. m + 1 \in 1..Len(Q) /\ \A i \in 1..m : i \in 1..Len(Q) BY <2>3, <2>6
  <2>9. \A a : IsIn(r, a) => a \in D /\ a \notin V
    <3>1. r \in Seq(D \ V) BY <2>2 DEF Found
    <3> SUFFICES ASSUME NEW a, IsIn(r, a) PROVE a \in D \ V
      OBVIOUS
    <3>2. PICK i \in 1..Len(r) : r[i] = a BY DEF IsIn
    <3> QED BY <3>1, <3>2, ElementOfSeq
  <2>10. \A i \in 1..m : \A a : IsIn(R[i], a) => a \in V BY <1>1 DEF Placed
  <2>11. ASSUME Apart(R, D) PROVE Apart(Q, D)
    <3>1. \A i \in 1..Len(Q) : Found(Q[i], D) BY <2>4, <2>6, <2>7, <2>11 DEF Apart
    <3>2. ASSUME NEW i \in 1..Len(Q), NEW j \in 1..Len(Q), NEW a, IsIn(Q[i], a), IsIn(Q[j], a) PROVE i = j
      <4>1. CASE i \in 1..m /\ j \in 1..m BY <2>6, <2>11, <3>2, <4>1 DEF Apart
      <4>2. CASE i = m + 1 /\ j \in 1..m BY <2>6, <2>9, <2>10, <3>2, <4>2
      <4>3. CASE i \in 1..m /\ j = m + 1 BY <2>6, <2>9, <2>10, <3>2, <4>3
      <4>4. CASE i = m + 1 /\ j = m + 1 BY <4>4
      <4> QED BY <2>7, <4>1, <4>2, <4>3, <4>4
    <3>3. ASSUME NEW i \in 1..Len(Q), NEW a \in D, NEW n \in D, IsIn(Q[i], a), Adjacent(a, n) PROVE IsIn(Q[i], n)
      <4>1. CASE i \in 1..m BY <2>6, <2>11, <3>3, <4>1 DEF Apart
      <4>2. CASE i = m + 1
        <5>1. n \in V \/ IsIn(r, n) BY <2>2, <2>6, <3>3, <4>2
        <5>2. ASSUME n \in V PROVE FALSE
          <6>1. PICK j \in 1..m : IsIn(R[j], n) BY <1>1, <5>2 DEF Placed
          <6>2. Adjacent(n, a)
            <7>1. a \in Coords /\ n \in Coords BY DEF D, OpenOf
            <7> QED BY <3>3, <7>1, NeighborsAre
          <6>3. IsIn(R[j], a) BY <2>11, <6>1, <6>2 DEF Apart
          <6> QED BY <2>6, <2>9, <2>10, <3>3, <4>2, <6>3
        <5> QED BY <2>6, <4>2, <5>1, <5>2
      <4> QED BY <2>7, <4>1, <4>2
    <3> QED BY <2>6, <3>1, <3>2, <3>3 DEF Apart
  <2>12. \A a : Placed(R, a) => Placed(Q, a) BY <2>6, <2>8 DEF Placed
  <2>13. Placed(Q, c) BY <2>2, <2>6, <2>8 DEF Placed
  <2> QED BY <2>6, <2>11, <2>12, <2>13
<1> QED BY <1>2, <1>3

\* The scan comes to each tile.
LEMMA ScanComesTo ==
  ASSUME DimensionsAssumption, NEW c \in Coords
  PROVE  \E k \in 1..Size : ScanOrder[k] = c
<1> DEFINE k == Bit(c) + 1
<1>1. /\ Size \in Nat /\ Bit(c) \in 0..Size - 1
      /\ \A d \in Coords : Bit(c) = Bit(d) => c = d
  BY BitIs
<1>2. k \in 1..Size /\ k - 1 = Bit(c) BY <1>1
<1>3. ScanOrder[k] = CHOOSE d \in Coords : Bit(d) = k - 1 BY <1>2 DEF ScanOrder
<1> DEFINE d == CHOOSE e \in Coords : Bit(e) = k - 1
<1> HIDE DEF k
<1>4. d \in Coords /\ Bit(d) = k - 1
  <2>1. \E e \in Coords : Bit(e) = k - 1 BY <1>2
  <2> QED BY <2>1, Zenon
<1> HIDE DEF d
<1>5. d = c BY <1>1, <1>2, <1>4
<1> QED BY <1>2, <1>3, <1>5 DEF d

\* The regions of the map are apart, and each open tile has one.
LEMMA GraphIs ==
  ASSUME DimensionsAssumption, NEW ov
  PROVE  /\ Apart(BuildRegionGraph(ov), OpenOf(ov))
         /\ \A c \in OpenOf(ov) : Placed(BuildRegionGraph(ov), c)
<1> DEFINE D == OpenOf(ov)
           T == Seq(Seq(D))
           N == Size
           S(k, R) == Scan(ov, R, ScanOrder[k])
           Scans(f) == f = [k \in 0..N |-> IF k = 0 THEN <<>> ELSE S(k, f[k - 1])]
           f == CHOOSE h : Scans(h)
<1>1. N \in Nat BY BitIs
<1>2. \A k : \A R \in T : S(k, R) \in T BY ScanIs
<1>3. BuildRegionGraph(ov) = f[N] BY DEF BuildRegionGraph
<1>4. <<>> \in T /\ Len(<<>>) = 0 OBVIOUS
<1> HIDE DEF D, T, N, S
<1>5. \E h : Scans(h)
  <2> DEFINE g == [p \in (0 + 1..N) \X T |-> S(p[1], p[2])]
  <2>1. g \in [(0 + 1..N) \X T -> T] BY <1>2
  <2>2. ASSUME NEW k \in 0 + 1..N, NEW R \in T PROVE g[<<k, R>>] = S(k, R)
    <3>1. <<k, R>> \in (0 + 1..N) \X T OBVIOUS
    <3> QED BY <3>1
  <2> HIDE DEF g
  <2>3. PICK h : Recurs(h, <<>>, g, 0, N, T)
    <3>1. Steps(g, 0, N, T) BY <2>1 DEF Steps
    <3> QED BY <1>1, <1>4, <3>1, Recursion
  <2>4. h \in [0..N -> T] /\ \A k \in 0..N : h[k] = IF k = 0 THEN <<>> ELSE g[<<k, h[k - 1]>>] BY <2>3 DEF Recurs
  <2>5. ASSUME NEW k \in 0..N PROVE h[k] = IF k = 0 THEN <<>> ELSE S(k, h[k - 1])
    <3>1. k # 0 => k \in 0 + 1..N /\ k - 1 \in 0..N BY <1>1
    <3> QED BY <2>2, <2>4, <3>1
  <2>6. h = [k \in 0..N |-> h[k]] BY <2>4
  <2> QED BY <2>5, <2>6
<1>6. Scans(f) BY <1>5
<1> HIDE DEF f
<1>7. \A k \in 0..N : f[k] = IF k = 0 THEN <<>> ELSE S(k, f[k - 1]) BY <1>6
<1> DEFINE Good == {k \in 0..N : /\ f[k] \in T /\ Apart(f[k], D)
                                 /\ \A i \in 1..k : ScanOrder[i] \in D => Placed(f[k], ScanOrder[i])}
<1>8. 0 \in Good
  <2>1. f[0] = <<>> BY <1>1, <1>7
  <2> DEFINE s == <<>>
  <2>2. s \in T /\ 1..Len(s) = {} BY <1>4
  <2> HIDE DEF s
  <2>3. Apart(s, D) BY <2>2 DEF Apart, T
  <2>4. \A i \in 1..0 : FALSE OBVIOUS
  <2>5. f[0] = s BY <2>1 DEF s
  <2> QED BY <1>1, <2>2, <2>3, <2>4, <2>5
<1>9. ASSUME NEW k \in 0 + 1..N, k - 1 \in Good PROVE k \in Good
  <2>1. k \in 0..N /\ k # 0 BY <1>1
  <2>2. f[k] = S(k, f[k - 1]) BY <1>7, <2>1
  <2>3. /\ f[k - 1] \in T /\ Apart(f[k - 1], D)
        /\ \A i \in 1..k - 1 : ScanOrder[i] \in D => Placed(f[k - 1], ScanOrder[i])
    BY <1>9
  <2>4. /\ f[k] \in T /\ Apart(f[k], D)
        /\ \A a : Placed(f[k - 1], a) => Placed(f[k], a)
        /\ ScanOrder[k] \in D => Placed(f[k], ScanOrder[k])
    BY <2>2, <2>3, ScanIs DEF S, D, T
  <2>5. \A i \in 1..k : i \in 1..k - 1 \/ i = k BY <1>1
  <2> QED BY <2>1, <2>3, <2>4, <2>5
<1>10. N \in Good
  <2> HIDE DEF Good
  <2>1. 0..N \subseteq Good BY <1>1, <1>8, <1>9, Upward
  <2> QED BY <1>1, <2>1
<1>11. \A c \in D : Placed(f[N], c)
  <2> SUFFICES ASSUME NEW c \in D PROVE Placed(f[N], c)
    OBVIOUS
  <2>1. c \in Coords BY DEF D, OpenOf
  <2>2. PICK k \in 1..N : ScanOrder[k] = c BY <2>1, ScanComesTo DEF N
  <2> QED BY <1>10, <2>2
<1> QED BY <1>3, <1>10, <1>11 DEF D

\* Each part of a region but the whole has a tile beside one of the rest.
LEMMA RegionIsOne ==
  ASSUME DimensionsAssumption, NEW D \in SUBSET Coords, NEW r, Found(r, D),
         NEW some \in SUBSET ToSet(r), some # {}, some # ToSet(r)
  PROVE  \E a \in some, b \in ToSet(r) \ some : Adjacent(a, b)
<1>1. r \in Seq(D) /\ Len(r) \in Nat BY LenProperties DEF Found
<1> DEFINE n == Len(r)
           all == ToSet(r)
<1>2. \A x : x \in all <=> IsIn(r, x) BY <1>1, ToSetIs
<1>3. \A i \in 1..n : r[i] \in all /\ r[i] \in Coords
  <2>1. \A i \in 1..n : r[i] \in D BY <1>1, ElementOfSeq
  <2> QED BY <1>2, <2>1 DEF IsIn
<1>4. r[1] \in all
  <2>1. n # 0 BY <1>1, EmptySeq DEF Found
  <2>2. 1 \in 1..n BY <1>1, <2>1
  <2> QED BY <1>3, <2>2
<1> SUFFICES ASSUME \A a \in some, b \in all \ some : ~Adjacent(a, b) PROVE FALSE
  OBVIOUS
<1> DEFINE Same == {i \in 1..n : r[i] \in some <=> r[1] \in some}
<1>5. ASSUME NEW i \in 2..n, \A j \in 1..i - 1 : j \in Same PROVE i \in Same
  <2>1. PICK j \in 1..i - 1 : Adjacent(r[j], r[i]) BY DEF Found
  <2>2. i \in 1..n /\ j \in 1..n BY <1>1
  <2>3. Adjacent(r[i], r[j]) BY <1>3, <2>1, <2>2, NeighborsAre
  <2>4. r[i] \in some <=> r[j] \in some BY <1>3, <2>1, <2>2, <2>3
  <2> QED BY <1>5, <2>2, <2>4
<1> DEFINE S == {k \in 0..n : \A i \in 1..k : i \in Same}
<1>6. 0 \in S BY <1>1
<1>7. ASSUME NEW k \in 0 + 1..n, k - 1 \in S PROVE k \in S
  <2>1. \A i \in 1..k - 1 : i \in Same BY <1>7
  <2>2. k \in Same
    <3>1. CASE k = 1
      <4>1. 1 \in 1..n BY <1>1, <3>1
      <4> QED BY <3>1, <4>1
    <3>2. CASE k # 1
      <4>1. k \in 2..n BY <1>1, <3>2
      <4> HIDE DEF Same
      <4> QED BY <1>5, <2>1, <4>1
    <3> QED BY <3>1, <3>2
  <2> HIDE DEF Same
  <2>3. \A i \in 1..k : i \in 1..k - 1 \/ i = k BY <1>1
  <2>4. k \in 0..n BY <1>1
  <2> QED BY <2>1, <2>2, <2>3, <2>4
<1>8. \A i \in 1..n : i \in Same
  <2> HIDE DEF S, n
  <2>1. 0..n \subseteq S BY <1>1, <1>6, <1>7, Upward DEF n
  <2>2. n \in S BY <1>1, <2>1 DEF n
  <2> QED BY <2>2 DEF S
<1>9. \A x \in all : x \in some <=> r[1] \in some BY <1>2, <1>8 DEF IsIn
<1> HIDE DEF all
<1> QED BY <1>4, <1>9 DEF all

\* The regions are the connected parts of the open tiles (Topology, BuildRegionGraph).
LEMMA RegionsAreParts ==
  ASSUME DimensionsAssumption, topo # Nothing => Shows(topo, told)
  PROVE  RegionsAreComponents
<1> SUFFICES ASSUME topo # Nothing PROVE RegionsAreComponents
  BY DEF RegionsAreComponents
<1> DEFINE R == BuildRegionGraph(topo)
           D == OpenOf(topo)
<1>1. D = {c \in Coords : told[c] = "open"} BY OpenIs
<1>2. Apart(R, D) /\ \A c \in D : Placed(R, c) BY GraphIs
<1>3. D \in SUBSET Coords BY <1>1
<1> SUFFICES /\ UNION {ToSet(R[i]) : i \in DOMAIN R} = D
             /\ \A a, b \in D : Adjacent(a, b) => SameRegion(R, a, b)
             /\ \A i, j \in DOMAIN R : i # j => ToSet(R[i]) \cap ToSet(R[j]) = {}
             /\ \A i \in DOMAIN R : \A some \in SUBSET ToSet(R[i]) :
                  some \notin {{}, ToSet(R[i])}
                    => \E a \in some, b \in ToSet(R[i]) \ some : Adjacent(a, b)
  BY <1>1 DEF RegionsAreComponents, Adjacent
<1> HIDE DEF R, D
<1>4. R \in Seq(Seq(D)) BY <1>2 DEF Apart
<1>5. DOMAIN R = 1..Len(R) /\ \A i \in 1..Len(R) : R[i] \in Seq(D) BY <1>4, LenProperties, ElementOfSeq
<1>6. \A i \in DOMAIN R : \A x : x \in ToSet(R[i]) <=> IsIn(R[i], x) BY <1>5, ToSetIs
<1>7. UNION {ToSet(R[i]) : i \in DOMAIN R} = D
  <2>1. \A x : x \in Visited(R) <=> Placed(R, x) BY <1>4, VisitedIs
  <2>2. \A x : Placed(R, x) => x \in D BY <1>4, VisitedIs
  <2>3. Visited(R) = D BY <1>2, <2>1, <2>2
  <2> QED BY <2>3 DEF Visited
<1>8. \A i, j \in DOMAIN R : i # j => ToSet(R[i]) \cap ToSet(R[j]) = {}
  BY <1>2, <1>5, <1>6 DEF Apart
<1>9. ASSUME NEW a \in D, NEW b \in D, Adjacent(a, b) PROVE SameRegion(R, a, b)
  <2>1. PICK i \in 1..Len(R) : IsIn(R[i], a) BY <1>2 DEF Placed
  <2>2. IsIn(R[i], b) BY <1>2, <1>9, <2>1 DEF Apart
  <2>3. ASSUME NEW c, IsIn(R[i], c) PROVE RegionAt(R, c) = i
    <3> DEFINE At == CHOOSE j \in DOMAIN R : c \in ToSet(R[j])
    <3>1. \E j \in DOMAIN R : c \in ToSet(R[j]) BY <1>5, <1>6, <2>3
    <3>2. RegionAt(R, c) = At BY <3>1 DEF RegionAt
    <3>3. At \in DOMAIN R /\ c \in ToSet(R[At]) BY <3>1, Zenon
    <3> HIDE DEF At
    <3>4. At = i BY <1>2, <1>5, <1>6, <2>3, <3>3 DEF Apart
    <3> QED BY <3>2, <3>4
  <2>4. i # 0 OBVIOUS
  <2>5. RegionAt(R, a) = i /\ RegionAt(R, b) = i BY <2>1, <2>2, <2>3
  <2> QED BY <2>4, <2>5 DEF SameRegion
<1>10. ASSUME NEW i \in DOMAIN R, NEW some \in SUBSET ToSet(R[i]), some \notin {{}, ToSet(R[i])}
       PROVE  \E a \in some, b \in ToSet(R[i]) \ some : Adjacent(a, b)
  <2>1. Found(R[i], D) BY <1>2, <1>5 DEF Apart
  <2> QED BY <1>3, <1>10, <2>1, RegionIsOne
<1> QED BY <1>7, <1>8, <1>9, <1>10

----------------------------------------------------------------------------
(* The hint of designate_dig.                                              *)

\* A set of numbers has a least one.
LEMMA LeastOf == ASSUME NEW S \in SUBSET Nat, S # {} PROVE \E m \in S : \A k \in S : m <= k
<1>1. PICK R : IsWellFoundedOn(R, Nat) /\ \A x, y \in Nat : y < x => <<y, x>> \in R
  <2>1. \A x, y \in Nat : y < x => <<y, x>> \in OpToRel(<, Nat) BY DEF OpToRel
  <2> QED BY <2>1, NatLessThanWellFounded
<1>2. PICK m \in S : \A k \in S : ~(<<k, m>> \in R) BY <1>1, WFMin
<1>3. \A k \in S : ~(k < m) BY <1>1, <1>2
<1> QED BY <1>3

\* The largest of three numbers, and the ends of two.
LEMMA LargestOf ==
  ASSUME NEW S, NEW a \in S, \A x \in S : x \in Int, \E x \in S : \A y \in S : x >= y
  PROVE  Max(S) \in S /\ \A y \in S : Max(S) >= y
<1> DEFINE m == CHOOSE x \in S : \A y \in S : x >= y
<1>1. Max(S) = m BY DEF Max
<1>2. m \in S /\ \A y \in S : m >= y BY Zenon
<1> HIDE DEF m
<1> QED BY <1>1, <1>2

\* A set of integers with a least one has it as its minimum.
LEMMA LeastIs ==
  ASSUME NEW S, NEW a \in S, \A x \in S : x \in Int, \E x \in S : \A y \in S : x =< y
  PROVE  Min(S) \in S /\ \A y \in S : Min(S) <= y
<1> DEFINE m == CHOOSE x \in S : \A y \in S : x =< y
<1>1. Min(S) = m BY DEF Min
<1>2. m \in S /\ \A y \in S : m =< y BY Zenon
<1> HIDE DEF m
<1> QED BY <1>1, <1>2

\* A spot has three coordinates, on the map or not.
IsSpot(c) == c[1] \in Int /\ c[2] \in Int /\ c[3] \in Int
\* The distance is a number, and at least the difference in each direction.
LEMMA DistanceIs ==
  ASSUME NEW a, NEW b, IsSpot(a), IsSpot(b)
  PROVE  /\ Distance(a, b) \in Nat
         /\ \A i \in 1..3 : Abs(a[i] - b[i]) <= Distance(a, b)
<1> DEFINE x == Abs(a[1] - b[1])
           y == Abs(a[2] - b[2])
           z == Abs(a[3] - b[3])
           S == {Abs(a[i] - b[i]) : i \in 1..3}
<1>1. x \in Nat /\ y \in Nat /\ z \in Nat BY DEF IsSpot, Abs
<1>2. S = {x, y, z}
  <2>1. 1..3 = {1, 2, 3} OBVIOUS
  <2> QED BY <2>1
<1>3. Distance(a, b) = Max(S) BY DEF Distance
<1>4. \A i \in 1..3 : Abs(a[i] - b[i]) \in S OBVIOUS
<1> HIDE DEF x, y, z, S
<1>5. \E m \in S : \A k \in S : m >= k
  <2>1. CASE x >= y /\ x >= z BY <1>1, <1>2, <2>1
  <2>2. CASE y >= x /\ y >= z BY <1>1, <1>2, <2>2
  <2>3. CASE z >= x /\ z >= y BY <1>1, <1>2, <2>3
  <2> QED BY <1>1, <2>1, <2>2, <2>3
<1>6. x \in S /\ \A m \in S : m \in Int BY <1>1, <1>2
<1>7. Max(S) \in S /\ \A k \in S : Max(S) >= k BY <1>5, <1>6, LargestOf
<1>8. \A m \in S : m \in Nat BY <1>1, <1>2
<1>9. Max(S) \in Nat BY <1>7, <1>8
<1>10. \A i \in 1..3 : Abs(a[i] - b[i]) \in Nat BY <1>4, <1>8
<1>11. \A i \in 1..3 : Abs(a[i] - b[i]) <= Max(S) BY <1>4, <1>7, <1>9, <1>10
<1> QED BY <1>3, <1>9, <1>11

\* A rectangle with its corners in order.
IsRect(r) == \A i \in 1..3 : r.lo[i] \in Int /\ r.hi[i] \in Int /\ r.lo[i] <= r.hi[i]
Rects == {Ordered(d) : d \in Digs}
\* Putting the corners in order makes such a rectangle.
LEMMA OrderedIs ==
  ASSUME DigsAssumption, NEW d \in Digs
  PROVE  /\ IsRect(Ordered(d)) /\ Ordered(d) \in Rects
         /\ DOMAIN Ordered(d).lo = 1..3 /\ DOMAIN Ordered(d).hi = 1..3
         /\ \E f, g : Ordered(d) = [lo |-> f, hi |-> g]
<1> DEFINE r == Ordered(d)
<1>1. /\ r.lo = [i \in 1..3 |-> Min({d.a[i], d.b[i]})]
      /\ r.hi = [i \in 1..3 |-> Max({d.a[i], d.b[i]})]
      /\ r = [lo |-> r.lo, hi |-> r.hi]
  BY DEF Ordered
<1>2. ASSUME NEW x \in Int, NEW y \in Int
      PROVE  /\ Min({x, y}) \in Int /\ Max({x, y}) \in Int
             /\ Min({x, y}) <= Max({x, y})
  <2> DEFINE S == {x, y}
  <2>1. x \in S /\ y \in S /\ \A z \in S : z \in Int OBVIOUS
  <2>2. (\E m \in S : \A k \in S : m >= k) /\ (\E m \in S : \A k \in S : m =< k)
    <3>1. CASE x <= y BY <3>1
    <3>2. CASE y <= x BY <3>2
    <3> QED BY <3>1, <3>2
  <2> HIDE DEF S
  <2>3. Max(S) \in S /\ \A k \in S : Max(S) >= k BY <2>1, <2>2, LargestOf
  <2>4. Min(S) \in S BY <2>1, <2>2, LeastIs
  <2>5. Max(S) >= Min(S) /\ Max(S) \in Int /\ Min(S) \in Int BY <2>1, <2>3, <2>4
  <2>6. Min(S) <= Max(S) BY <2>5
  <2> QED BY <2>5, <2>6 DEF S
<1>3. \A i \in 1..3 : d.a[i] \in Int /\ d.b[i] \in Int BY DEF DigsAssumption
<1>4. DOMAIN r.lo = 1..3 /\ DOMAIN r.hi = 1..3 BY <1>1
<1>5. \A i \in 1..3 : r.lo[i] = Min({d.a[i], d.b[i]}) /\ r.hi[i] = Max({d.a[i], d.b[i]}) BY <1>1
<1>6. r \in Rects BY DEF Rects
<1> HIDE DEF r
<1>7. IsRect(r) BY <1>2, <1>3, <1>5 DEF IsRect
<1> QED BY <1>1, <1>4, <1>6, <1>7 DEF r

\* The tiles of a box.
LEMMA InBox ==
  ASSUME NEW lo, NEW hi
  PROVE  \A c : c \in Box(lo, hi) <=>
           /\ c = <<c[1], c[2], c[3]>>
           /\ c[1] \in lo[1]..hi[1] /\ c[2] \in lo[2]..hi[2] /\ c[3] \in lo[3]..hi[3]
BY DEF Box

\* A tile beside a rectangle is in its ring, or above or below it.
LEMMA RingIs ==
  ASSUME NEW r, IsRect(r), DOMAIN r.lo = 1..3, DOMAIN r.hi = 1..3, NEW t \in Tiles(r),
         NEW c, c = <<c[1], c[2], c[3]>>, IsSpot(c), c \notin Tiles(r),
         Abs(c[3] - t[3]) <= 1,
         c[3] = t[3] => Distance(c, t) <= 1,
         c[3] # t[3] => c[1] = t[1] /\ c[2] = t[2]
  PROVE  c \in Ring(r) \cup Footprints(r)
<1> DEFINE l == r.lo
           h == r.hi
<1>1. /\ l[1] \in Int /\ l[2] \in Int /\ l[3] \in Int /\ h[1] \in Int /\ h[2] \in Int /\ h[3] \in Int
      /\ l[1] <= h[1] /\ l[2] <= h[2] /\ l[3] <= h[3]
  BY DEF IsRect
<1>2. DOMAIN l = 1..3 /\ DOMAIN h = 1..3 OBVIOUS
<1> HIDE DEF l, h
<1>3. t[1] \in l[1]..h[1] /\ t[2] \in l[2]..h[2] /\ t[3] \in l[3]..h[3] BY InBox DEF Tiles, l, h
<1>4. ~(c[1] \in l[1]..h[1] /\ c[2] \in l[2]..h[2] /\ c[3] \in l[3]..h[3]) BY InBox DEF Tiles, l, h
<1>5. IsSpot(t) /\ c[1] \in Int /\ c[2] \in Int /\ c[3] \in Int BY <1>1, <1>3 DEF IsSpot
<1>6. CASE c[3] = t[3]
  <2>1. Distance(c, t) <= 1 BY <1>6
  <2>2. Distance(c, t) \in Nat /\ \A i \in 1..3 : Abs(c[i] - t[i]) <= Distance(c, t)
    BY <1>5, DistanceIs
  <2>3. Abs(c[1] - t[1]) <= Distance(c, t) /\ Abs(c[2] - t[2]) <= Distance(c, t)
    BY <2>2
  <2>4. c[1] - t[1] \in -1..1 /\ c[2] - t[2] \in -1..1 BY <1>5, <2>1, <2>2, <2>3 DEF IsSpot, Abs
  <2> DEFINE L == [l EXCEPT ![1] = @ - 1, ![2] = @ - 1]
             H == [h EXCEPT ![1] = @ + 1, ![2] = @ + 1]
  <2>5. /\ L[1] = l[1] - 1 /\ L[2] = l[2] - 1 /\ L[3] = l[3]
        /\ H[1] = h[1] + 1 /\ H[2] = h[2] + 1 /\ H[3] = h[3]
    BY <1>2
  <2>6. c[1] \in l[1] - 1..h[1] + 1 /\ c[2] \in l[2] - 1..h[2] + 1 /\ c[3] \in l[3]..h[3]
    BY <1>1, <1>3, <1>5, <1>6, <2>4 DEF IsSpot
  <2> HIDE DEF L, H
  <2>7. c \in Box(L, H) BY <2>5, <2>6, InBox
  <2> QED BY <2>7 DEF Ring, L, H, l, h
<1>7. CASE c[3] # t[3]
  <2>1. c[1] = t[1] /\ c[2] = t[2] BY <1>7
  <2>2. c[3] - t[3] \in {-1, 1} BY <1>5, <1>7 DEF IsSpot, Abs
  <2>3. c[3] \notin l[3]..h[3] BY <1>3, <1>4, <2>1
  <2>4. c[3] = l[3] - 1 \/ c[3] = h[3] + 1 BY <1>1, <1>3, <1>5, <2>2, <2>3
  <2>5. CASE c[3] = l[3] - 1
    <3> DEFINE L == [l EXCEPT ![3] = @ - 1]
               H == [h EXCEPT ![3] = l[3] - 1]
    <3>1. L[1] = l[1] /\ L[2] = l[2] /\ L[3] = l[3] - 1 /\ H[1] = h[1] /\ H[2] = h[2] /\ H[3] = l[3] - 1 BY <1>2
    <3>2. c[3] \in l[3] - 1..l[3] - 1 BY <1>1, <2>5
    <3> HIDE DEF L, H
    <3>3. c \in Box(L, H) BY <1>3, <2>1, <3>1, <3>2, InBox
    <3> QED BY <3>3 DEF Footprints, L, H, l, h
  <2>6. CASE c[3] = h[3] + 1
    <3> DEFINE L == [l EXCEPT ![3] = h[3] + 1]
               H == [h EXCEPT ![3] = @ + 1]
    <3>1. L[1] = l[1] /\ L[2] = l[2] /\ L[3] = h[3] + 1 /\ H[1] = h[1] /\ H[2] = h[2] /\ H[3] = h[3] + 1 BY <1>2
    <3>2. c[3] \in h[3] + 1..h[3] + 1 BY <1>1, <2>6
    <3> HIDE DEF L, H
    <3>3. c \in Box(L, H) BY <1>3, <2>1, <3>1, <3>2, InBox
    <3> QED BY <3>3 DEF Footprints, L, H, l, h
  <2> QED BY <2>4, <2>5, <2>6
<1> QED BY <1>6, <1>7

\* A nearest tile of the regions is a tile of theirs that none is nearer than.
LEMMA NearestIs ==
  ASSUME NEW D \in SUBSET Coords, DimensionsAssumption, NEW R, R # <<>>, Apart(R, D), \A c \in D : Placed(R, c),
         NEW from, IsSpot(from)
  PROVE  /\ NearestRegion(R, from) \in D
         /\ \A c \in D : Distance(NearestRegion(R, from), from) <= Distance(c, from)
<1> DEFINE places == UNION {{i} \X (DOMAIN R[i]) : i \in DOMAIN R}
           far(p) == Distance(R[p[1]][p[2]], from)
           Earlier(p, q) == p[1] < q[1] \/ (p[1] = q[1] /\ p[2] < q[2])
           Is(p) == \A q \in places : ~(far(q) < far(p)) /\ (Earlier(q, p) => far(p) < far(q))
           first == CHOOSE p \in places : Is(p)
<1>1. R \in Seq(Seq(D)) /\ DOMAIN R = 1..Len(R) /\ Len(R) \in Nat /\ Len(R) # 0 BY LenProperties, EmptySeq DEF Apart
<1>2. NearestRegion(R, from) = R[first[1]][first[2]] BY DEF NearestRegion
<1>3. \A i \in 1..Len(R) : R[i] \in Seq(D) /\ DOMAIN R[i] = 1..Len(R[i]) /\ Len(R[i]) \in Nat
  BY <1>1, ElementOfSeq, LenProperties
<1>4. ASSUME NEW p \in places
      PROVE  p[1] \in 1..Len(R) /\ p[2] \in 1..Len(R[p[1]]) /\ p[1] \in Nat /\ p[2] \in Nat /\ R[p[1]][p[2]] \in D
  <2>1. PICK i \in DOMAIN R : p \in {i} \X (DOMAIN R[i]) OBVIOUS
  <2>2. p[1] = i /\ p[2] \in DOMAIN R[i] BY <2>1
  <2>3. R[i] \in Seq(D) /\ p[2] \in 1..Len(R[i]) /\ p[2] \in Nat BY <1>1, <1>3, <2>2
  <2>4. R[i][p[2]] \in D BY <2>3, ElementOfSeq
  <2> QED BY <1>1, <2>2, <2>3, <2>4
<1>5. ASSUME NEW i \in 1..Len(R), NEW k \in 1..Len(R[i]) PROVE <<i, k>> \in places
  <2>1. <<i, k>> \in {i} \X (DOMAIN R[i]) BY <1>3
  <2> QED BY <1>1, <2>1
<1> HIDE DEF places, first
<1>6. \A c \in D : \E p \in places : R[p[1]][p[2]] = c
  <2> SUFFICES ASSUME NEW c \in D PROVE \E p \in places : R[p[1]][p[2]] = c
    OBVIOUS
  <2>1. PICK i \in 1..Len(R) : IsIn(R[i], c) BY DEF Placed
  <2>2. PICK k \in 1..Len(R[i]) : R[i][k] = c BY <2>1 DEF IsIn
  <2>3. <<i, k>>[1] = i /\ <<i, k>>[2] = k OBVIOUS
  <2> QED BY <1>5, <2>2, <2>3
<1>7. \A c \in D : Distance(c, from) \in Nat
  <2>1. \A c \in D : IsSpot(c) BY DEF Coords, DimensionsAssumption, IsSpot
  <2> QED BY <2>1, DistanceIs
<1>8. \A p \in places : far(p) \in Nat BY <1>4, <1>7
<1>9. places # {}
  <2>1. 1 \in 1..Len(R) BY <1>1
  <2>2. R[1] \in Seq(D) /\ R[1] # <<>> BY <1>3, <2>1 DEF Apart, Found
  <2>3. 1 \in 1..Len(R[1]) BY <2>2, LenProperties, EmptySeq
  <2> QED BY <1>5, <2>1, <2>3
<1>10. \E p \in places : Is(p)
  <2> HIDE DEF far
  <2>1. PICK m \in {far(p) : p \in places} : \A x \in {far(p) : p \in places} : m <= x
    <3> DEFINE S == {far(p) : p \in places}
    <3>1. S \in SUBSET Nat /\ S # {} BY <1>8, <1>9
    <3> HIDE DEF S
    <3>2. \E x \in S : \A y \in S : x <= y BY <3>1, LeastOf
    <3> QED BY <3>2 DEF S
  <2>2. PICK i \in {p[1] : p \in {q \in places : far(q) = m}} :
          \A x \in {p[1] : p \in {q \in places : far(q) = m}} : i <= x
    <3> DEFINE S == {p[1] : p \in {q \in places : far(q) = m}}
    <3>1. S \in SUBSET Nat /\ S # {} BY <1>4, <2>1
    <3> HIDE DEF S
    <3>2. \E x \in S : \A y \in S : x <= y BY <3>1, LeastOf
    <3> QED BY <3>2 DEF S
  <2>3. PICK k \in {p[2] : p \in {q \in places : far(q) = m /\ q[1] = i}} :
          \A x \in {p[2] : p \in {q \in places : far(q) = m /\ q[1] = i}} : k <= x
    <3> DEFINE S == {p[2] : p \in {q \in places : far(q) = m /\ q[1] = i}}
    <3>1. S \in SUBSET Nat /\ S # {} BY <1>4, <2>2
    <3> HIDE DEF S
    <3>2. \E x \in S : \A y \in S : x <= y BY <3>1, LeastOf
    <3> QED BY <3>2 DEF S
  <2>4. PICK p \in places : far(p) = m /\ p[1] = i /\ p[2] = k BY <2>3
  <2>5. ASSUME NEW q \in places PROVE ~(far(q) < far(p)) /\ (Earlier(q, p) => far(p) < far(q))
    <3>1. far(q) \in Nat /\ m <= far(q) /\ m \in Nat BY <1>8, <2>1
    <3>2. far(q) = m => i <= q[1] BY <2>2
    <3>3. far(q) = m /\ q[1] = i => k <= q[2] BY <2>3
    <3>4. p[1] \in Nat /\ p[2] \in Nat /\ q[1] \in Nat /\ q[2] \in Nat BY <1>4
    <3> QED BY <2>4, <3>1, <3>2, <3>3, <3>4
  <2> QED BY <2>4, <2>5
<1>11. first \in places /\ Is(first)
  <2> HIDE DEF Is
  <2> QED BY <1>10, Zenon DEF first
<1>12. R[first[1]][first[2]] \in D BY <1>4, <1>11
<1>13. ASSUME NEW c \in D PROVE far(first) <= Distance(c, from)
  <2>1. PICK p \in places : R[p[1]][p[2]] = c BY <1>6
  <2>2. far(p) = Distance(c, from) /\ far(p) \in Nat /\ far(first) \in Nat /\ ~(far(p) < far(first))
    BY <1>8, <1>11, <2>1
  <2> QED BY <2>2
<1> QED BY <1>2, <1>12, <1>13

\* What the property says of a hint and of a call.
IsLine(l) == Cardinality({i \in 1..3 : l[1][i] # l[2][i]}) <= 1
IsBeside(c, t) == /\ Abs(c[3] - t[3]) <= 1 /\ (c[3] = t[3] => Distance(c, t) <= 1)
                  /\ (c[3] # t[3] => c[1] = t[1] /\ c[2] = t[2])
LeadsThere(h, ever, always) ==
  h.to \in ever /\ \A c \in always : Distance(h.from, h.to) <= Distance(h.from, c)
TouchesNone(r, some) == \A t \in Tiles(r), c \in some : ~IsBeside(c, t) \/ c \in Tiles(r)
LegsJoin(h, r) ==
  /\ h.from \in Tiles(r)
  /\ \A i \in DOMAIN h.legs : IsLine(h.legs[i])
  /\ h.legs # <<>> =>
       /\ h.legs[1][1] = h.from /\ Last(h.legs)[2] = h.to
       /\ Len(h.legs) = 2 => h.legs[1][2] = h.legs[2][1]
  /\ h.legs = <<>> => h.from[3] # h.to[3]
Connects(w) ==
  w.hint.kind = "connect" =>
    /\ LeadsThere(w.hint, w.ever, w.always) /\ TouchesNone(w.rect, w.always \cup w.before) /\ LegsJoin(w.hint, w.rect)
\* What is asked of the hints, by the names used here.
LEMMA ConnectsIs == SuggestionConnects <=> \A c \in Callers : calls[c].stage = "record" => Connects(calls[c])
BY DEF SuggestionConnects, Connects, LeadsThere, TouchesNone, LegsJoin, IsLine, IsBeside

\* Two spots that differ in one direction are on a line.
LEMMA LineIs == ASSUME NEW a, NEW b, NEW k \in 1..3, \A i \in 1..3 : i # k => a[i] = b[i] PROVE IsLine(<<a, b>>)
<1> DEFINE S == {i \in 1..3 : a[i] # b[i]}
<1>1. S \subseteq {k} OBVIOUS
<1>2. IsFiniteSet({k}) /\ Cardinality({k}) = 1 BY FS_Singleton
<1> HIDE DEF S
<1>3. Cardinality(S) <= 1 BY <1>1, <1>2, FS_Subset
<1> QED BY <1>3 DEF IsLine, S

\* The middle of two numbers is between them.
LEMMA MiddleIs == ASSUME NEW x \in Int, NEW y \in Int, x <= y PROVE (x + y) \div 2 \in x..y
OBVIOUS

\* Distances are the same both ways.
LEMMA DistanceBoth ==
  ASSUME NEW a, NEW b, IsSpot(a), IsSpot(b) PROVE Distance(a, b) = Distance(b, a)
<1>1. \A i \in 1..3 : Abs(a[i] - b[i]) = Abs(b[i] - a[i])
  <2>1. 1..3 = {1, 2, 3} OBVIOUS
  <2> QED BY <2>1 DEF IsSpot, Abs
<1> QED BY <1>1 DEF Distance

\* The regions of a moment when the tiles open all the time were open, and no others
\* than those open at some time.
GraphOf(R, ever, always) ==
  \E D \in SUBSET Coords :
    /\ always \subseteq D /\ D \subseteq ever
    /\ R # <<>> /\ Apart(R, D) /\ \A c \in D : Placed(R, c)
Dug(ds) == UNION {Tiles(ds[i]) : i \in DOMAIN ds}
Stages == {"graph", "touch", "slices", "suggest"}
\* A call at work on an overlay that was told of, when the digs are ds.
IsCall(w) == w = [stage |-> w.stage, rect |-> w.rect, hint |-> w.hint, on |-> w.on, regions |-> w.regions,
                  level |-> w.level, ever |-> w.ever, always |-> w.always, before |-> w.before]
Sound(w, of, ds) ==
  /\ IsCall(w) /\ w.stage \in Stages /\ w.rect \in Rects
  /\ w.always \subseteq OpenTiles(of) /\ OpenTiles(of) \subseteq w.ever /\ w.before \subseteq Dug(ds)
  /\ w.stage # "graph" => GraphOf(w.regions, w.ever, w.always)
  /\ w.stage \in {"slices", "suggest"} => TouchesNone(w.rect, w.always \cup w.before)

\* The hint for a dig that touches nothing leads to a nearest open tile.
LEMMA ConnectorConnects ==
  ASSUME DimensionsAssumption, DigsAssumption, NEW ov, NEW r \in Rects, NEW R, NEW ever, NEW always, GraphOf(R, ever, always),
         NEW h, h = Connector(ov, R, r), h.kind = "connect"
  PROVE  LeadsThere(h, ever, always) /\ LegsJoin(h, r)
<1> DEFINE from == <<(r.lo[1] + r.hi[1]) \div 2, (r.lo[2] + r.hi[2]) \div 2, r.lo[3]>>
           to == NearestRegion(R, from)
           corner == <<to[1], from[2], from[3]>>
           legs == IF from[3] # to[3] THEN <<>>
                   ELSE IF from[1] = to[1] \/ from[2] = to[2] THEN << <<from, to>> >>
                   ELSE << <<from, corner>>, <<corner, to>> >>
<1>1. IsRect(r)
  <2>1. PICK d \in Digs : r = Ordered(d) BY DEF Rects
  <2> QED BY <2>1, OrderedIs
<1>2. /\ r.lo[1] \in Int /\ r.lo[2] \in Int /\ r.lo[3] \in Int /\ r.hi[1] \in Int /\ r.hi[2] \in Int /\ r.hi[3] \in Int
      /\ r.lo[1] <= r.hi[1] /\ r.lo[2] <= r.hi[2] /\ r.lo[3] <= r.hi[3]
  BY <1>1 DEF IsRect
<1>3. PICK D \in SUBSET Coords : /\ always \subseteq D /\ D \subseteq ever
                                 /\ R # <<>> /\ Apart(R, D) /\ \A c \in D : Placed(R, c)
  BY DEF GraphOf
<1>5. h = [kind |-> "connect", from |-> from, to |-> to, legs |-> legs]
  BY DEF Connector, Nothing
<1>6. /\ (r.lo[1] + r.hi[1]) \div 2 \in r.lo[1]..r.hi[1] /\ (r.lo[2] + r.hi[2]) \div 2 \in r.lo[2]..r.hi[2]
      /\ r.lo[3] \in r.lo[3]..r.hi[3]
  <2>1. \A x, y \in Int : x <= y => (x + y) \div 2 \in x..y BY MiddleIs
  <2>2. r.lo[3] \in r.lo[3]..r.hi[3] BY <1>2
  <2> QED BY <1>2, <2>1, <2>2, Zenon
<1>7. from \in Tiles(r) BY <1>6, InBox DEF Tiles
<1>8. IsSpot(from) BY <1>2, <1>6 DEF IsSpot
<1>9. from = <<from[1], from[2], from[3]>> OBVIOUS
<1> HIDE DEF from
<1>11. to \in D /\ \A c \in D : Distance(to, from) <= Distance(c, from)
  BY <1>3, <1>8, NearestIs
<1>12. h.from = from /\ h.to = to /\ h.legs = legs BY <1>5
<1> HIDE DEF to
<1>13. LeadsThere(h, ever, always)
  <2>1. \A c \in D : IsSpot(c) BY <1>3 DEF Coords, DimensionsAssumption, IsSpot
  <2>2. \A c \in D : Distance(from, c) = Distance(c, from) BY <1>8, <2>1, DistanceBoth
  <2>3. \A c \in D : Distance(from, to) <= Distance(from, c) BY <1>11, <2>2
  <2> QED BY <1>3, <1>11, <1>12, <2>3 DEF LeadsThere
<1>14. LegsJoin(h, r)
  <2>1. CASE from[3] # to[3]
    <3>1. legs = <<>> BY <2>1
    <3> QED BY <1>7, <1>12, <2>1, <3>1 DEF LegsJoin
  <2>2. CASE from[3] = to[3] /\ (from[1] = to[1] \/ from[2] = to[2])
    <3>1. legs = << <<from, to>> >> BY <2>2
    <3>2. IsLine(<<from, to>>)
      <4>1. 1..3 = {1, 2, 3} OBVIOUS
      <4>2. CASE from[1] = to[1] BY <2>2, <4>1, <4>2, LineIs
      <4>3. CASE from[2] = to[2] BY <2>2, <4>1, <4>3, LineIs
      <4> QED BY <2>2, <4>2, <4>3
    <3> DEFINE l == << <<from, to>> >>
    <3>3. DOMAIN l = {1} /\ Len(l) = 1 /\ l[1] = <<from, to>> /\ l # <<>> OBVIOUS
    <3>4. Last(l) = <<from, to>> BY <3>3 DEF Last
    <3> HIDE DEF l, legs
    <3>5. h.legs = l BY <1>12, <3>1 DEF l
    <3> DEFINE leg == <<from, to>>
    <3>6. leg[1] = from /\ leg[2] = to OBVIOUS
    <3> HIDE DEF leg
    <3>7. \A i \in DOMAIN h.legs : IsLine(h.legs[i]) BY <3>2, <3>3, <3>5
    <3>8. h.legs[1][1] = from /\ Last(h.legs)[2] = to BY <3>3, <3>4, <3>5, <3>6 DEF leg
    <3>9. h.legs # <<>> /\ Len(h.legs) = 1 BY <3>3, <3>5
    <3> QED BY <1>7, <1>12, <3>7, <3>8, <3>9 DEF LegsJoin
  <2>3. CASE from[3] = to[3] /\ ~(from[1] = to[1] \/ from[2] = to[2])
    <3>1. legs = << <<from, corner>>, <<corner, to>> >> BY <2>3
    <3>2. corner[1] = to[1] /\ corner[2] = from[2] /\ corner[3] = from[3] OBVIOUS
    <3> HIDE DEF corner
    <3>3. 1..3 = {1, 2, 3} OBVIOUS
    <3>4. IsLine(<<from, corner>>) BY <3>2, <3>3, LineIs
    <3>5. IsLine(<<corner, to>>) BY <2>3, <3>2, <3>3, LineIs
    <3> DEFINE l == << <<from, corner>>, <<corner, to>> >>
    <3>6. DOMAIN l = {1, 2} /\ Len(l) = 2 /\ l[1] = <<from, corner>> /\ l[2] = <<corner, to>> /\ l # <<>> OBVIOUS
    <3>7. Last(l) = <<corner, to>> BY <3>6 DEF Last
    <3> HIDE DEF l, legs
    <3>8. h.legs = l BY <1>12, <3>1 DEF l
    <3> QED BY <1>7, <1>12, <3>4, <3>5, <3>6, <3>7, <3>8 DEF LegsJoin
  <2> QED BY <2>1, <2>2, <2>3
<1> QED BY <1>13, <1>14

\* A dig that touches nothing has beside it no open tile and none of a dig recorded.
LEMMA TouchIs ==
  ASSUME DimensionsAssumption, DigsAssumption, NEW ov, NEW r \in Rects, digs \in Seq(Rects), ~Touches(ov, r)
  PROVE  TouchesNone(r, OpenOf(ov) \cup Dug(digs))
<1>1. IsRect(r) /\ DOMAIN r.lo = 1..3 /\ DOMAIN r.hi = 1..3
  <2>1. PICK d \in Digs : r = Ordered(d) BY DEF Rects
  <2> QED BY <2>1, OrderedIs
<1> SUFFICES ASSUME NEW t \in Tiles(r), NEW c \in OpenOf(ov) \cup Dug(digs), IsBeside(c, t), c \notin Tiles(r)
             PROVE  FALSE
  BY DEF TouchesNone
<1>2. c = <<c[1], c[2], c[3]>> /\ IsSpot(c)
  <2>1. CASE c \in OpenOf(ov) BY <2>1 DEF OpenOf, Coords, DimensionsAssumption, IsSpot
  <2>2. CASE c \in Dug(digs)
    <3>1. PICK i \in DOMAIN digs : c \in Tiles(digs[i]) BY <2>2 DEF Dug
    <3>2. IsRect(digs[i])
      <4>1. DOMAIN digs = 1..Len(digs) /\ digs[i] \in Rects BY <3>1, LenProperties, ElementOfSeq
      <4>2. PICK e \in Digs : digs[i] = Ordered(e) BY <4>1 DEF Rects
      <4> QED BY <4>2, OrderedIs
    <3>3. /\ c = <<c[1], c[2], c[3]>>
          /\ c[1] \in digs[i].lo[1]..digs[i].hi[1] /\ c[2] \in digs[i].lo[2]..digs[i].hi[2]
          /\ c[3] \in digs[i].lo[3]..digs[i].hi[3]
      BY <3>1, InBox DEF Tiles
    <3> QED BY <3>2, <3>3 DEF IsRect, IsSpot
  <2> QED BY <2>1, <2>2
<1>3. c \in Ring(r) \cup Footprints(r) BY <1>1, <1>2, RingIs DEF IsBeside
<1>4. GetTileState(ov, c) # "open" /\ ~Pending(c) BY <1>3 DEF Touches
<1> QED BY <1>4 DEF OpenOf, Dug, Pending

\* An overlay with a tile set is one.
LEMMA SetIsThere == ASSUME NEW ov, ov # Nothing, NEW c, NEW s PROVE SetTileState(ov, c, s) # Nothing
<1>1. CASE c \in Coords
  <2>1. "known" \in DOMAIN SetTileState(ov, c, s) /\ "known" \notin DOMAIN Nothing BY <1>1 DEF SetTileState, Nothing
  <2> QED BY <2>1
<1>2. CASE c \notin Coords BY <1>2 DEF SetTileState
<1> QED BY <1>1, <1>2

\* A slice that shows something open shows one tile, which is set.
LEMMA SeededShows ==
  ASSUME DimensionsAssumption, NEW ov, NEW of, Shows(ov, of), NEW r, NEW z, NEW slice \in Slices(r, z), SawOpen(slice),
         NEW now, now = Learnt(of, slice)
  PROVE  Shows(Seeded(ov, slice), now) /\ (ov # Nothing => Seeded(ov, slice) # Nothing)
<1>1. PICK c : slice = [d \in {c} |-> "open"]
  <2>1. PICK d \in DOMAIN slice : slice[d] = "open" BY DEF SawOpen
  <2>2. slice # [e \in {} |-> "open"] BY <2>1
  <2>3. slice # [e \in LiveWindow(r, z) |-> "closed"] BY <2>1
  <2> QED BY <2>2, <2>3 DEF Slices
<1> DEFINE tiles == SetToSeq(DOMAIN slice)
           N == Len(tiles)
           S(k, o) == SetTileState(o, tiles[k], slice[tiles[k]])
           Sets(f) == f = [k \in 0..N |-> IF k = 0 THEN ov ELSE S(k, f[k - 1])]
           f == CHOOSE g : Sets(g)
<1>2. DOMAIN slice = {c} /\ slice[c] = "open" BY <1>1
<1>3. N = 1 /\ tiles[1] = c
  <2>1. IsFiniteSet({c}) /\ Cardinality({c}) = 1 BY FS_Singleton
  <2>2. tiles = CHOOSE g \in [1..1 -> {c}] : IsInjective(g)
    BY <1>2, <2>1 DEF SetToSeq, IsInjective
  <2> DEFINE one == [i \in 1..1 |-> c]
  <2>3. one \in [1..1 -> {c}] /\ IsInjective(one) BY DEF IsInjective
  <2> HIDE DEF one
  <2>4. \E g \in [1..1 -> {c}] : IsInjective(g) BY <2>3
  <2> HIDE DEF tiles
  <2>5. tiles \in [1..1 -> {c}] BY <2>2, <2>4, Zenon
  <2> QED BY <2>5
<1>4. Seeded(ov, slice) = f[N] BY DEF Seeded
<1> HIDE DEF tiles
<1>5. \E g : Sets(g)
  <2> DEFINE g == [k \in 0..N |-> IF k = 0 THEN ov ELSE S(1, ov)]
  <2>1. \A k \in 0..N : k # 0 => k = 1 /\ k - 1 \in 0..N /\ k - 1 = 0 BY <1>3
  <2>2. 0 \in 0..N BY <1>3
  <2> HIDE DEF S
  <2>3. g[0] = ov BY <2>2
  <2>4. \A k \in 0..N : g[k] = IF k = 0 THEN ov ELSE S(k, g[k - 1]) BY <2>1, <2>3
  <2>5. g = [k \in 0..N |-> g[k]] OBVIOUS
  <2> HIDE DEF g
  <2>6. Sets(g) BY <2>4, <2>5
  <2> QED BY <2>6
<1>6. Sets(f) BY <1>5
<1> HIDE DEF f
<1>7. f[0] = ov /\ f[1] = S(1, f[0])
  <2> HIDE DEF S
  <2>1. \A k \in 0..N : f[k] = IF k = 0 THEN ov ELSE S(k, f[k - 1]) BY <1>6
  <2>2. 0 \in 0..N /\ 1 \in 0..N /\ 1 - 1 = 0 BY <1>3
  <2> QED BY <2>1, <2>2
<1>8. f[N] = SetTileState(ov, c, "open") BY <1>2, <1>3, <1>7
<1>9. \A d \in Coords : now[d] = IF d = c THEN "open" ELSE of[d] BY <1>2 DEF Learnt
<1>10. Shows(SetTileState(ov, c, "open"), now) BY <1>9, SetShows
<1>11. ov # Nothing => SetTileState(ov, c, "open") # Nothing BY SetIsThere
<1> QED BY <1>4, <1>8, <1>10, <1>11

\* What is told of an overlay and seen of digs leaves a call sound.
LEMMA SoundSeen ==
  ASSUME NEW w, NEW of, NEW ds, Sound(w, of, ds), NEW now, NEW more, Dug(ds) \subseteq Dug(more)
  PROVE  /\ Sound(w, of, more)
         /\ LET v == [w EXCEPT !.ever = @ \cup OpenTiles(now), !.always = @ \cap OpenTiles(now)]
            IN v.stage = w.stage /\ v.on = w.on /\ Sound(v, now, more)
<1> DEFINE v == [w EXCEPT !.ever = @ \cup OpenTiles(now), !.always = @ \cap OpenTiles(now)]
<1>1. /\ IsCall(v) /\ v.stage = w.stage /\ v.on = w.on /\ v.rect = w.rect /\ v.before = w.before /\ v.regions = w.regions
      /\ v.ever = w.ever \cup OpenTiles(now) /\ v.always = w.always \cap OpenTiles(now)
  <2> DEFINE x == w.ever \cup OpenTiles(now)
             y == w.always \cap OpenTiles(now)
             u == [w EXCEPT !.ever = x]
  <2>1. v = [u EXCEPT !.always = y] OBVIOUS
  <2>2. IsCall(w) BY DEF Sound
  <2> HIDE DEF v, x, y
  <2>3. /\ IsCall(u) /\ u.stage = w.stage /\ u.on = w.on /\ u.rect = w.rect /\ u.before = w.before
        /\ u.regions = w.regions /\ u.ever = x
    BY <2>2 DEF IsCall
  <2> HIDE DEF u
  <2>4. /\ IsCall(v) /\ v.stage = u.stage /\ v.on = u.on /\ v.rect = u.rect /\ v.before = u.before
        /\ v.regions = u.regions /\ v.ever = u.ever /\ v.always = y
    BY <2>1, <2>3 DEF IsCall
  <2> QED BY <2>3, <2>4 DEF x, y
<1> HIDE DEF v
<1>2. Sound(w, of, more) BY DEF Sound
<1>3. v.stage # "graph" => GraphOf(v.regions, v.ever, v.always) BY <1>1 DEF Sound, GraphOf
<1>4. v.stage \in {"slices", "suggest"} => TouchesNone(v.rect, v.always \cup v.before)
  BY <1>1 DEF Sound, TouchesNone
<1>5. Sound(v, now, more) BY <1>1, <1>3, <1>4 DEF Sound
<1> QED BY <1>1, <1>2, <1>5 DEF v

\* What a call is, when the overlay is tp and told td, those before it rt, the digs ds.
CallIs(w, tp, td, rt, ds) ==
  /\ w.stage \in Stages \cup {"idle", "record"}
  /\ w.stage = "record" => w.rect \in Rects /\ Connects(w)
  /\ w.stage \in Stages =>
       /\ w.on \in 1..Len(rt) + 1 /\ (w.on = Len(rt) + 1 => tp # Nothing)
       /\ Sound(w, IF w.on = Len(rt) + 1 THEN td ELSE rt[w.on].told, ds)
OverlaysShow(tp, td, rt) ==
  /\ \E S : rt \in Seq(S)
  /\ tp # Nothing => Shows(tp, td)
  /\ \A k \in 1..Len(rt) : Shows(rt[k].topo, rt[k].told)

\* Each overlay shows what it was told, and each call is sound of the one it works on.
IInv == /\ OverlaysShow(topo, told, retired) /\ digs \in Seq(Rects)
        /\ calls = [c \in Callers |-> calls[c]]
        /\ \A c \in Callers : CallIs(calls[c], topo, told, retired, digs)

\* A full state brings an overlay that shows what it tells; calls keep the one they have.
LEMMA FullStateKeeps ==
  ASSUME DimensionsAssumption, IInv, NEW flags, FullState(flags)
  PROVE  IInv'
<1> DEFINE n == Len(retired)
           old == [topo |-> topo, told |-> told]
           held == \E c \in Callers : Working(c) /\ calls[c].on = Current
<1>1. /\ topo' = BuildFromTiles(flags) /\ told' = [c \in Coords |-> ClassifyState(flags[c])]
      /\ retired' = IF held THEN Append(retired, old) ELSE retired
      /\ digs' = digs /\ calls' = calls
  BY DEF FullState
<1>2. Shows(topo', told') BY <1>1, BuildShows
<1>3. topo' # Nothing
  <2>1. "known" \in DOMAIN BuildFromTiles(flags) /\ "known" \notin DOMAIN Nothing BY DEF BuildFromTiles, Nothing
  <2> QED BY <1>1, <2>1
<1>4. PICK S : retired \in Seq(S) BY DEF IInv, OverlaysShow
<1>5. n \in Nat /\ Current = n + 1 BY <1>4, LenProperties DEF Current
<1>6. CASE held
  <2>1. retired' = Append(retired, old) BY <1>1, <1>6
  <2>2. retired \in Seq(S \cup {old}) BY <1>4
  <2>3. /\ retired' \in Seq(S \cup {old}) /\ Len(retired') = n + 1 /\ retired'[n + 1] = old
        /\ \A k \in 1..n : retired'[k] = retired[k]
    BY <2>1, <2>2, AppendProperties
  <2>4. topo # Nothing
    <3>1. PICK c \in Callers : Working(c) /\ calls[c].on = Current BY <1>6
    <3> QED BY <3>1, <1>5 DEF IInv, CallIs, Working, Stages
  <2>5. Shows(old.topo, old.told) BY <2>4 DEF IInv, OverlaysShow
  <2> HIDE DEF old, held
  <2>6. OverlaysShow(topo', told', retired')
    <3>1. \A k \in 1..n + 1 : k \in 1..n \/ k = n + 1 BY <1>5
    <3>2. \A k \in 1..Len(retired') : Shows(retired'[k].topo, retired'[k].told)
      BY <2>3, <2>5, <3>1 DEF IInv, OverlaysShow
    <3> QED BY <1>2, <2>3, <3>2 DEF OverlaysShow
  <2>7. ASSUME NEW c \in Callers PROVE CallIs(calls[c], topo', told', retired', digs)
    <3> DEFINE w == calls[c]
    <3>1. CallIs(w, topo, told, retired, digs) BY DEF IInv
    <3> HIDE DEF w
    <3>2. ASSUME w.stage \in Stages
          PROVE  /\ w.on \in 1..n + 1 /\ w.on # n + 2
                 /\ retired'[w.on].told = IF w.on = n + 1 THEN told ELSE retired[w.on].told
      <4>1. w.on \in 1..n + 1 BY <3>1, <3>2 DEF CallIs
      <4>2. w.on # n + 2 BY <1>5, <4>1
      <4>3. CASE w.on = n + 1 BY <2>3, <4>1, <4>2, <4>3 DEF old
      <4>4. CASE w.on # n + 1
        <5>1. w.on \in 1..n BY <1>5, <4>1, <4>4
        <5> QED BY <2>3, <4>1, <4>2, <4>4, <5>1
      <4> QED BY <4>3, <4>4
    <3>3. Len(retired') + 1 = n + 2 /\ 1..n + 1 \subseteq 1..n + 2 BY <1>5, <2>3
    <3>4. CallIs(w, topo', told', retired', digs) BY <1>3, <3>1, <3>2, <3>3 DEF CallIs
    <3> QED BY <3>4 DEF w
  <2> QED BY <1>1, <2>6, <2>7 DEF IInv
<1>7. CASE ~held
  <2>1. retired' = retired BY <1>1, <1>7
  <2>2. OverlaysShow(topo', told', retired') BY <1>2, <2>1 DEF IInv, OverlaysShow
  <2>3. ASSUME NEW c \in Callers PROVE CallIs(calls[c], topo', told', retired, digs)
    <3>1. CallIs(calls[c], topo, told, retired, digs) BY DEF IInv
    <3>2. calls[c].stage \in Stages => calls[c].on # n + 1 BY <1>5, <1>7 DEF Working, Stages
    <3> QED BY <3>1, <3>2 DEF CallIs
  <2> QED BY <1>1, <2>1, <2>2, <2>3 DEF IInv
<1> QED BY <1>6, <1>7

\* A change of the overlay k is one of what the calls at work on it have seen.
LEMMA WitnessKeeps ==
  ASSUME IInv, NEW k, NEW of, NEW tp, NEW td, NEW rt, Len(rt) = Len(retired), topo # Nothing => tp # Nothing,
         \A j \in 1..Len(retired) + 1 :
           IF j = k THEN (IF j = Len(rt) + 1 THEN td ELSE rt[j].told) = of
           ELSE (IF j = Len(rt) + 1 THEN td ELSE rt[j].told) = ToldOf(j),
         NEW c \in Callers
  PROVE  CallIs(Witnessed(k, of)[c], tp, td, rt, digs)
<1> DEFINE w == calls[c]
           v == [w EXCEPT !.ever = @ \cup OpenTiles(of), !.always = @ \cap OpenTiles(of)]
           Now(j) == IF j = Len(rt) + 1 THEN td ELSE rt[j].told
<1>1. CallIs(w, topo, told, retired, digs) BY DEF IInv
<1>2. Witnessed(k, of)[c] = IF w.stage \in Stages /\ w.on = k THEN v ELSE w BY DEF Witnessed, Working, Stages
<1>3. \A j \in 1..Len(retired) + 1 : (j = k => Now(j) = of) /\ (j # k => Now(j) = ToldOf(j)) OBVIOUS
<1>4. w.stage \in Stages => w.on \in 1..Len(retired) + 1 /\ Sound(w, ToldOf(w.on), digs)
  BY <1>1 DEF CallIs, ToldOf, Current
<1> HIDE DEF w, v, Now
<1>5. CASE w.stage \in Stages /\ w.on = k
  <2>1. v.stage = w.stage /\ v.on = w.on /\ Sound(v, of, digs) BY <1>4, <1>5, SoundSeen DEF v
  <2>2. Now(v.on) = of BY <1>3, <1>4, <1>5, <2>1
  <2>3. v.stage # "record" BY <1>5, <2>1 DEF Stages
  <2> QED BY <1>1, <1>2, <1>5, <2>1, <2>2, <2>3 DEF CallIs, Now
<1>6. CASE w.stage \in Stages /\ w.on # k
  <2>1. Now(w.on) = ToldOf(w.on) BY <1>3, <1>4, <1>6
  <2>2. w.stage # "record" BY <1>6 DEF Stages
  <2> QED BY <1>1, <1>2, <1>4, <1>6, <2>1, <2>2 DEF CallIs, Now
<1>7. CASE w.stage \notin Stages BY <1>1, <1>2, <1>7 DEF CallIs
<1> QED BY <1>5, <1>6, <1>7

\* A change of a tile is shown, and seen by the calls at work on the overlay.
LEMMA TileUpdateKeeps ==
  ASSUME DimensionsAssumption, IInv, NEW c, NEW flags, TileUpdate(c, flags)
  PROVE  IInv'
<1> DEFINE s == ClassifyState(flags)
<1>1. s \in {"open", "closed", "unknown"} BY DEF ClassifyState
<1> HIDE DEF s
<1>2. /\ topo' = SetTileState(topo, c, s) /\ Shows(topo, told) /\ topo # Nothing
      /\ told' = [d \in Coords |-> IF d = c THEN s ELSE told[d]]
      /\ calls' = Witnessed(Current, told') /\ digs' = digs /\ retired' = retired
  BY DEF TileUpdate, IInv, OverlaysShow, s
<1>3. Shows(topo', told')
  <2>1. \A d \in Coords : told'[d] = IF d = c THEN s ELSE told[d] BY <1>2
  <2>2. Shows(SetTileState(topo, c, s), told') BY <1>1, <1>2, <2>1, SetShows
  <2> QED BY <1>2, <2>2
<1>4. topo' # Nothing BY <1>2, SetIsThere
<1>5. OverlaysShow(topo', told', retired') BY <1>2, <1>3 DEF IInv, OverlaysShow
<1>6. ASSUME NEW e \in Callers PROVE CallIs(Witnessed(Current, told')[e], topo', told', retired, digs)
  <2> DEFINE of == told'
             tp == topo'
  <2>1. \A j \in 1..Len(retired) + 1 :
          IF j = Current THEN (IF j = Len(retired) + 1 THEN of ELSE retired[j].told) = of
          ELSE (IF j = Len(retired) + 1 THEN of ELSE retired[j].told) = ToldOf(j)
    BY DEF Current, ToldOf
  <2>2. tp # Nothing BY <1>4
  <2> HIDE DEF of, tp
  <2>3. CallIs(Witnessed(Current, of)[e], tp, of, retired, digs) BY <2>1, <2>2, WitnessKeeps
  <2> QED BY <2>3 DEF of, tp
<1>7. calls' = [e \in Callers |-> calls'[e]] BY <1>2 DEF Witnessed
<1> QED BY <1>2, <1>5, <1>6, <1>7 DEF IInv

\* A step of a call that leaves the map alone needs to keep that call only.
LEMMA StillKeeps ==
  ASSUME IInv, Still, NEW c \in Callers, NEW w, calls' = [calls EXCEPT ![c] = w],
         CallIs(w, topo, told, retired, digs)
  PROVE  IInv'
<1>1. topo' = topo /\ told' = told /\ retired' = retired /\ digs' = digs BY DEF Still
<1>2. \A e \in Callers : calls'[e] = IF e = c THEN w ELSE calls[e] BY DEF IInv
<1>3. calls' = [e \in Callers |-> calls'[e]] BY DEF IInv
<1>4. \A e \in Callers : CallIs(calls'[e], topo, told, retired, digs) BY <1>2 DEF IInv
<1> QED BY <1>1, <1>3, <1>4 DEF IInv

\* A call that ends without a hint is as it should be.
LEMMA FinishedIs ==
  ASSUME NEW c, calls[c].rect \in Rects, NEW tp, NEW td, NEW rt, NEW ds
  PROVE  CallIs(Finished(c), tp, td, rt, ds)
BY DEF Finished, CallIs, Connects, Nothing, Stages

\* A dig begins with what is told and recorded now.
LEMMA DesignateKeeps ==
  ASSUME DigsAssumption, IInv, NEW c \in Callers, NEW d \in Digs, Designate(c, d)
  PROVE  IInv'
<1> DEFINE r == Ordered(d)
           w == IF topo = Nothing THEN [stage |-> "record", rect |-> r, hint |-> Nothing]
                ELSE [stage |-> "graph", rect |-> r, hint |-> Nothing, on |-> Current,
                      regions |-> <<>>, level |-> r.lo[3],
                      ever |-> OpenTiles(told), always |-> OpenTiles(told), before |-> Recorded]
<1>1. calls' = [calls EXCEPT ![c] = w] /\ topo' = topo /\ told' = told /\ retired' = retired /\ digs' = digs
  BY DEF Designate
<1>2. r \in Rects BY OrderedIs
<1>3. Current \in 1..Len(retired) + 1 /\ Current = Len(retired) + 1
  <2>1. Len(retired) \in Nat BY LenProperties DEF IInv, OverlaysShow
  <2> QED BY <2>1 DEF Current
<1> HIDE DEF r
<1>4. CallIs(w, topo, told, retired, digs)
  <2>1. CASE topo = Nothing
    <3>1. w = [stage |-> "record", rect |-> r, hint |-> Nothing] BY <2>1
    <3> HIDE DEF w
    <3> QED BY <1>2, <3>1 DEF CallIs, Connects, Nothing, Stages
  <2>2. CASE topo # Nothing
    <3>1. /\ IsCall(w) /\ w.stage = "graph" /\ w.rect = r /\ w.on = Current
          /\ w.ever = OpenTiles(told) /\ w.always = OpenTiles(told) /\ w.before = Recorded
      BY <2>2 DEF IsCall
    <3> HIDE DEF w
    <3>2. w.before \subseteq Dug(digs) BY <3>1 DEF Recorded, Dug
    <3>3. Sound(w, told, digs) BY <1>2, <3>1, <3>2 DEF Sound, Stages
    <3> QED BY <1>3, <2>2, <3>1, <3>3 DEF CallIs, Stages
  <2> QED BY <2>1, <2>2
<1> HIDE DEF w
<1>5. \A e \in Callers : calls'[e] = IF e = c THEN w ELSE calls[e] BY <1>1 DEF IInv
<1>6. calls' = [e \in Callers |-> calls'[e]] BY <1>1 DEF IInv
<1>7. \A e \in Callers : CallIs(calls'[e], topo, told, retired, digs) BY <1>4, <1>5 DEF IInv
<1> QED BY <1>1, <1>6, <1>7 DEF IInv

\* The call at work: the overlay it has, what that was told, and what it is.
LEMMA AtWork ==
  ASSUME IInv, NEW c \in Callers, calls[c].stage \in Stages
  PROVE  /\ calls[c].on \in 1..Len(retired) + 1 /\ (calls[c].on = Len(retired) + 1 => topo # Nothing)
         /\ Sound(calls[c], ToldOf(calls[c].on), digs)
         /\ Shows(OverlayOf(calls[c].on), ToldOf(calls[c].on))
<1> DEFINE w == calls[c]
<1>1. CallIs(w, topo, told, retired, digs) BY DEF IInv
<1>2. w.on \in 1..Len(retired) + 1 /\ (w.on = Len(retired) + 1 => topo # Nothing) BY <1>1 DEF CallIs
<1>3. Sound(w, ToldOf(w.on), digs) BY <1>1 DEF CallIs, ToldOf, Current
<1>4. Len(retired) \in Nat BY LenProperties DEF IInv, OverlaysShow
<1>5. CASE w.on = Len(retired) + 1
  <2>1. Shows(topo, told) BY <1>2, <1>5 DEF IInv, OverlaysShow
  <2>2. OverlayOf(w.on) = topo /\ ToldOf(w.on) = told BY <1>5 DEF OverlayOf, ToldOf, Current
  <2> QED BY <1>2, <1>3, <2>1, <2>2
<1>6. CASE w.on # Len(retired) + 1
  <2>1. w.on \in 1..Len(retired) BY <1>2, <1>4, <1>6
  <2> QED BY <1>2, <1>3, <1>6, <2>1 DEF OverlayOf, ToldOf, Current, IInv, OverlaysShow
<1> QED BY <1>2, <1>3, <1>5, <1>6

\* A call that goes on with its overlay is what it should be if it is sound.
LEMMA GoesOn ==
  ASSUME IInv, NEW c \in Callers, calls[c].stage \in Stages, NEW w, w.on = calls[c].on, Sound(w, ToldOf(w.on), digs)
  PROVE  CallIs(w, topo, told, retired, digs)
<1>1. w.on \in 1..Len(retired) + 1 /\ (w.on = Len(retired) + 1 => topo # Nothing) BY AtWork
<1>2. w.stage \in Stages /\ w.stage # "record" BY DEF Sound, Stages
<1> QED BY <1>1, <1>2 DEF CallIs, ToldOf, Current

\* The graph is of the tiles open when it is built.
LEMMA GraphKeeps ==
  ASSUME DimensionsAssumption, IInv, NEW c \in Callers, Graph(c)
  PROVE  IInv'
<1> DEFINE w == calls[c]
           ov == OverlayOf(w.on)
           of == ToldOf(w.on)
           R == BuildRegionGraph(ov)
           v == [w EXCEPT !.stage = "touch", !.regions = R]
<1>1. w.stage = "graph" /\ Still /\ calls' = [calls EXCEPT ![c] = IF R = <<>> THEN Finished(c) ELSE v]
  BY DEF Graph, IInv
<1>2. w.stage \in Stages BY <1>1 DEF Stages
<1>3. Sound(w, of, digs) /\ Shows(ov, of) BY <1>2, AtWork
<1>4. CallIs(Finished(c), topo, told, retired, digs) BY <1>3, FinishedIs DEF Sound
<1>5. ASSUME R # <<>> PROVE CallIs(v, topo, told, retired, digs)
  <2>1. OpenOf(ov) = OpenTiles(of) BY <1>3, OpenIs DEF OpenTiles
  <2>2. Apart(R, OpenTiles(of)) /\ \A e \in OpenTiles(of) : Placed(R, e) BY <2>1, GraphIs
  <2>3. /\ IsCall(v) /\ v.stage = "touch" /\ v.on = w.on /\ v.rect = w.rect /\ v.regions = R
        /\ v.ever = w.ever /\ v.always = w.always /\ v.before = w.before
    <3> DEFINE u == [w EXCEPT !.stage = "touch"]
    <3>1. v = [u EXCEPT !.regions = R] OBVIOUS
    <3>2. IsCall(w) BY <1>3 DEF Sound
    <3> HIDE DEF v, R, w
    <3>3. /\ IsCall(u) /\ u.stage = "touch" /\ u.on = w.on /\ u.rect = w.rect
          /\ u.ever = w.ever /\ u.always = w.always /\ u.before = w.before
      BY <3>2 DEF IsCall
    <3> HIDE DEF u
    <3>4. /\ IsCall(v) /\ v.stage = u.stage /\ v.on = u.on /\ v.rect = u.rect /\ v.regions = R
          /\ v.ever = u.ever /\ v.always = u.always /\ v.before = u.before
      BY <3>1, <3>3 DEF IsCall
    <3> QED BY <3>3, <3>4
  <2> HIDE DEF v, R, ov, of, w
  <2>4. GraphOf(v.regions, v.ever, v.always)
    <3>1. OpenTiles(of) \in SUBSET Coords BY DEF OpenTiles
    <3>2. w.always \subseteq OpenTiles(of) /\ OpenTiles(of) \subseteq w.ever BY <1>3 DEF Sound
    <3> QED BY <1>5, <2>2, <2>3, <3>1, <3>2 DEF GraphOf
  <2>5. Sound(v, of, digs) BY <1>3, <2>3, <2>4 DEF Sound, Stages
  <2> QED BY <1>2, <2>3, <2>5, GoesOn DEF w, of
<1> HIDE DEF v, R
<1>6. CallIs(IF R = <<>> THEN Finished(c) ELSE v, topo, told, retired, digs) BY <1>4, <1>5
<1> QED BY <1>1, <1>6, StillKeeps

\* A call goes on when its dig touches nothing.
LEMMA TouchKeeps ==
  ASSUME DimensionsAssumption, DigsAssumption, IInv, NEW c \in Callers, Touch(c)
  PROVE  IInv'
<1> DEFINE w == calls[c]
           ov == OverlayOf(w.on)
           of == ToldOf(w.on)
<1>1. PICK next \in {"slices", "suggest"} :
        /\ w.stage = "touch" /\ Still
        /\ calls' = [calls EXCEPT ![c] = IF Touches(ov, w.rect) THEN Finished(c) ELSE [w EXCEPT !.stage = next]]
  BY DEF Touch, IInv
<1> DEFINE v == [w EXCEPT !.stage = next]
<1>2. w.stage \in Stages BY <1>1 DEF Stages
<1>3. Sound(w, of, digs) /\ Shows(ov, of) BY <1>2, AtWork
<1>4. CallIs(Finished(c), topo, told, retired, digs) BY <1>3, FinishedIs DEF Sound
<1>5. ASSUME ~Touches(ov, w.rect) PROVE CallIs(v, topo, told, retired, digs)
  <2>1. OpenOf(ov) = OpenTiles(of) BY <1>3, OpenIs DEF OpenTiles
  <2>2. TouchesNone(w.rect, OpenTiles(of) \cup Dug(digs)) BY <1>3, <1>5, <2>1, TouchIs DEF Sound, IInv
  <2>3. /\ IsCall(v) /\ v.stage = next /\ v.on = w.on /\ v.rect = w.rect /\ v.regions = w.regions
        /\ v.ever = w.ever /\ v.always = w.always /\ v.before = w.before
    BY <1>3 DEF Sound, IsCall
  <2> HIDE DEF v, ov, of, w
  <2>4. TouchesNone(v.rect, v.always \cup v.before)
    <3>1. w.always \cup w.before \subseteq OpenTiles(of) \cup Dug(digs) BY <1>3 DEF Sound
    <3> QED BY <2>2, <2>3, <3>1 DEF TouchesNone
  <2>5. GraphOf(v.regions, v.ever, v.always) BY <1>1, <1>3, <2>3 DEF Sound
  <2>6. Sound(v, of, digs) BY <1>3, <2>3, <2>4, <2>5 DEF Sound, Stages
  <2> QED BY <1>2, <2>3, <2>6, GoesOn DEF w, of
<1> HIDE DEF v
<1>6. CallIs(IF Touches(ov, w.rect) THEN Finished(c) ELSE v, topo, told, retired, digs) BY <1>4, <1>5
<1> QED BY <1>1, <1>6, StillKeeps DEF v

\* A slice that shows nothing open changes nothing but the level.
LEMMA NextSliceKeeps ==
  ASSUME IInv, NEW c \in Callers, NEW slice, calls[c].stage = "slices", NextSlice(c, slice)
  PROVE  IInv'
<1> DEFINE w == calls[c]
           of == ToldOf(w.on)
           v == IF w.level = w.rect.hi[3] THEN [w EXCEPT !.stage = "suggest"] ELSE [w EXCEPT !.level = w.level + 1]
<1>1. Still /\ calls' = [calls EXCEPT ![c] = v] BY DEF NextSlice
<1>2. w.stage \in Stages BY DEF Stages
<1>3. Sound(w, of, digs) BY <1>2, AtWork
<1>4. /\ IsCall(v) /\ v.stage \in {"slices", "suggest"} /\ v.on = w.on /\ v.rect = w.rect /\ v.regions = w.regions
      /\ v.ever = w.ever /\ v.always = w.always /\ v.before = w.before
  BY <1>3 DEF Sound, IsCall
<1> HIDE DEF v
<1>5. Sound(v, of, digs) BY <1>3, <1>4 DEF Sound, Stages
<1>6. CallIs(v, topo, told, retired, digs) BY <1>2, <1>4, <1>5, GoesOn
<1> QED BY <1>1, <1>6, StillKeeps

\* A slice that shows an open tile is shown by the overlay of the call afterwards.
LEMMA SeedKeeps ==
  ASSUME DimensionsAssumption, IInv, NEW c \in Callers, calls[c].stage = "slices",
         NEW slice \in Slices(calls[c].rect, calls[c].level), SeedFromSlice(c, slice)
  PROVE  IInv'
<1> DEFINE w == calls[c]
           k == w.on
           n == Len(retired)
           ov == Seeded(OverlayOf(k), slice)
           of == Learnt(ToldOf(k), slice)
           new == [topo |-> ov, told |-> of]
<1>1. /\ SawOpen(slice) /\ calls' = [Witnessed(k, of) EXCEPT ![c] = Finished(c)] /\ digs' = digs
      /\ IF k = Current THEN topo' = ov /\ told' = of /\ retired' = retired
         ELSE retired' = [retired EXCEPT ![k] = new] /\ topo' = topo /\ told' = told
  BY DEF SeedFromSlice
<1>2. w.stage \in Stages BY DEF Stages
<1>3. /\ k \in 1..n + 1 /\ (k = n + 1 => topo # Nothing)
      /\ Sound(w, ToldOf(k), digs) /\ Shows(OverlayOf(k), ToldOf(k))
  BY <1>2, AtWork
<1>4. Shows(ov, of) BY <1>1, <1>3, SeededShows
<1>5. PICK S : retired \in Seq(S) BY DEF IInv, OverlaysShow
<1>6. n \in Nat /\ Current = n + 1 /\ DOMAIN retired = 1..n BY <1>5, LenProperties DEF Current
<1>7. CallIs(Finished(c), topo', told', retired', digs) BY <1>3, FinishedIs DEF Sound
<1> HIDE DEF ov, of, w, k
<1>8. /\ OverlaysShow(topo', told', retired') /\ Len(retired') = n
      /\ topo # Nothing => topo' # Nothing
      /\ \A j \in 1..n + 1 :
           IF j = k THEN (IF j = n + 1 THEN told' ELSE retired'[j].told) = of
           ELSE (IF j = n + 1 THEN told' ELSE retired'[j].told) = ToldOf(j)
  <2>1. CASE k = n + 1
    <3>1. topo' = ov /\ told' = of /\ retired' = retired BY <1>1, <1>6, <2>1
    <3>2. ov # Nothing
      <4>1. OverlayOf(k) = topo BY <1>6, <2>1 DEF OverlayOf
      <4> QED BY <1>1, <1>3, <2>1, <4>1, SeededShows DEF ov, w, k
    <3>3. OverlaysShow(topo', told', retired') BY <1>4, <3>1 DEF IInv, OverlaysShow
    <3> QED BY <1>6, <2>1, <3>1, <3>2, <3>3 DEF ToldOf
  <2>2. CASE k # n + 1
    <3>1. k \in 1..n /\ topo' = topo /\ told' = told /\ retired' = [retired EXCEPT ![k] = new]
      BY <1>1, <1>3, <1>6, <2>2
    <3>2. /\ DOMAIN retired' = 1..n
          /\ \A j \in 1..n : retired'[j] = IF j = k THEN new ELSE retired[j]
      BY <1>6, <3>1
    <3>3. retired' \in Seq(S \cup {new}) /\ Len(retired') = n
      <4>1. \A j \in 1..n : retired[j] \in S BY <1>5, <1>6, ElementOfSeq
      <4>2. retired' \in [1..n -> S \cup {new}]
        <5>1. retired' = [j \in 1..n |-> retired'[j]] BY <1>6, <3>1
        <5>2. \A j \in 1..n : retired'[j] \in S \cup {new} BY <3>2, <4>1
        <5> QED BY <5>1, <5>2
      <4>3. retired' \in Seq(S \cup {new}) BY <1>6, <4>2, SeqDef
      <4>4. Len(retired') \in Nat /\ DOMAIN retired' = 1..Len(retired') BY <4>3, LenProperties
      <4> QED BY <1>6, <3>2, <4>3, <4>4
    <3>4. new.topo = ov /\ new.told = of OBVIOUS
    <3> HIDE DEF new
    <3>5. \A j \in 1..n : Shows(retired'[j].topo, retired'[j].told)
      BY <1>4, <3>2, <3>4 DEF IInv, OverlaysShow
    <3>6. OverlaysShow(topo', told', retired') BY <3>1, <3>3, <3>5 DEF IInv, OverlaysShow
    <3>7. ASSUME NEW j \in 1..n + 1
          PROVE  IF j = k THEN (IF j = n + 1 THEN told' ELSE retired'[j].told) = of
                 ELSE (IF j = n + 1 THEN told' ELSE retired'[j].told) = ToldOf(j)
      <4>1. j = n + 1 \/ j \in 1..n BY <1>6
      <4> QED BY <1>6, <2>2, <3>1, <3>2, <3>4, <4>1 DEF ToldOf
    <3> QED BY <3>1, <3>3, <3>6, <3>7
  <2> QED BY <2>1, <2>2
<1>9. ASSUME NEW e \in Callers PROVE CallIs(Witnessed(k, of)[e], topo', told', retired', digs)
  <2> DEFINE tp == topo'
             td == told'
             rt == retired'
  <2>1. /\ Len(rt) = n /\ (topo # Nothing => tp # Nothing)
        /\ \A j \in 1..n + 1 :
             IF j = k THEN (IF j = n + 1 THEN td ELSE rt[j].told) = of
             ELSE (IF j = n + 1 THEN td ELSE rt[j].told) = ToldOf(j)
    BY <1>8
  <2> HIDE DEF tp, td, rt
  <2>2. CallIs(Witnessed(k, of)[e], tp, td, rt, digs) BY <2>1, WitnessKeeps
  <2> QED BY <2>2 DEF tp, td, rt
<1>10. calls' = [e \in Callers |-> calls'[e]] /\ \A e \in Callers : calls'[e] = IF e = c THEN Finished(c) ELSE Witnessed(k, of)[e]
  BY <1>1 DEF Witnessed
<1>11. \A e \in Callers : CallIs(calls'[e], topo', told', retired', digs)
  BY <1>1, <1>7, <1>9, <1>10
<1> QED BY <1>1, <1>8, <1>10, <1>11 DEF IInv

\* A hint is right of what the call has seen.
LEMMA SuggestKeeps ==
  ASSUME DimensionsAssumption, DigsAssumption, IInv, NEW c \in Callers, Suggest(c)
  PROVE  IInv'
<1> DEFINE w == calls[c]
           ov == OverlayOf(w.on)
           of == ToldOf(w.on)
           h == Connector(ov, w.regions, w.rect)
           v == [w EXCEPT !.stage = "record", !.hint = h]
<1>1. w.stage = "suggest" /\ Still /\ calls' = [calls EXCEPT ![c] = v] BY DEF Suggest, IInv
<1>2. w.stage \in Stages BY <1>1 DEF Stages
<1>3. Sound(w, of, digs) BY <1>2, AtWork
<1>4. /\ v.stage = "record" /\ v.hint = h /\ v.rect = w.rect
      /\ v.ever = w.ever /\ v.always = w.always /\ v.before = w.before
  BY <1>3 DEF Sound, IsCall
<1> HIDE DEF v, w, ov, of
<1>5. GraphOf(w.regions, w.ever, w.always) /\ w.rect \in Rects /\ TouchesNone(w.rect, w.always \cup w.before)
  BY <1>1, <1>3 DEF Sound
<1>6. h.kind = "connect" => LeadsThere(h, w.ever, w.always) /\ LegsJoin(h, w.rect) BY <1>5, ConnectorConnects
<1> HIDE DEF h
<1>7. Connects(v) BY <1>4, <1>5, <1>6 DEF Connects
<1>8. CallIs(v, topo, told, retired, digs) BY <1>4, <1>5, <1>7 DEF CallIs, Stages
<1> QED BY <1>1, <1>8, StillKeeps DEF w

\* A dig recorded is one more, which calls at work may touch.
LEMMA RecordKeeps ==
  ASSUME IInv, NEW c \in Callers, Record(c)
  PROVE  IInv'
<1> DEFINE r == calls[c].rect
           n == Len(digs)
<1>1. /\ calls[c].stage = "record" /\ digs' = Append(digs, r) /\ calls' = [calls EXCEPT ![c] = Idle]
      /\ topo' = topo /\ told' = told /\ retired' = retired
  BY DEF Record
<1>2. r \in Rects BY <1>1 DEF IInv, CallIs
<1> HIDE DEF r
<1>3. /\ digs' \in Seq(Rects) /\ Len(digs') = n + 1 /\ \A i \in 1..n : digs'[i] = digs[i]
  BY <1>1, <1>2, AppendProperties DEF IInv
<1>4. n \in Nat /\ DOMAIN digs = 1..n /\ DOMAIN digs' = 1..n + 1 BY <1>3, LenProperties DEF IInv
<1>5. Dug(digs) \subseteq Dug(digs')
  <2>1. \A i \in 1..n : i \in 1..n + 1 BY <1>4
  <2> QED BY <1>3, <1>4, <2>1 DEF Dug
<1>6. ASSUME NEW e \in Callers PROVE CallIs(calls[e], topo, told, retired, digs')
  <2> DEFINE w == calls[e]
             of == IF w.on = Len(retired) + 1 THEN told ELSE retired[w.on].told
             ds == digs'
  <2>1. CallIs(w, topo, told, retired, digs) BY DEF IInv
  <2>2. Dug(digs) \subseteq Dug(ds) BY <1>5
  <2> HIDE DEF w, of, ds
  <2>3. Sound(w, of, digs) => Sound(w, of, ds) BY <2>2, SoundSeen
  <2>4. CallIs(w, topo, told, retired, ds) BY <2>1, <2>3 DEF CallIs, of
  <2> QED BY <2>4 DEF w, ds
<1>7. CallIs(Idle, topo, told, retired, digs') BY DEF CallIs, Idle, Stages
<1>8. calls' = [e \in Callers |-> calls'[e]] /\ \A e \in Callers : calls'[e] = IF e = c THEN Idle ELSE calls[e]
  BY <1>1 DEF IInv
<1>9. \A e \in Callers : CallIs(calls'[e], topo, told, retired, digs') BY <1>6, <1>7, <1>8
<1> QED BY <1>1, <1>3, <1>8, <1>9 DEF IInv

\* Overlays show what they were told, and calls are sound, whatever comes between.
LEMMA MapInvariant == TopoSpec => []IInv
<1> USE MapAssumption
<1>1. TopoInit => IInv
  <2> SUFFICES ASSUME TopoInit PROVE IInv
    OBVIOUS
  <2>1. /\ topo = Nothing /\ digs = <<>> /\ retired = <<>> /\ \A c \in Callers : calls[c] = Idle
        /\ calls = [c \in Callers |-> calls[c]]
    BY DEF TopoInit
  <2>2. <<>> \in Seq(Rects) /\ Len(<<>>) = 0 /\ 1..0 = {} OBVIOUS
  <2>3. OverlaysShow(topo, told, retired) BY <2>1, <2>2 DEF OverlaysShow
  <2>4. \A c \in Callers : CallIs(calls[c], topo, told, retired, digs) BY <2>1 DEF CallIs, Idle, Stages
  <2> QED BY <2>1, <2>2, <2>3, <2>4 DEF IInv
<1>2. IInv /\ [TopoNext]_topoVars => IInv'
  <2> SUFFICES ASSUME IInv, [TopoNext]_topoVars PROVE IInv'
    OBVIOUS
  <2>1. CASE UNCHANGED topoVars BY <2>1 DEF topoVars, IInv
  <2>2. ASSUME NEW flags \in FullStates, FullState(flags) PROVE IInv' BY <2>2, FullStateKeeps
  <2>3. ASSUME NEW c \in UpdatedTiles, NEW flags \in TileFlags, TileUpdate(c, flags) PROVE IInv'
    BY <2>3, TileUpdateKeeps
  <2>4. ASSUME NEW c \in Callers, NEW d \in Digs, Designate(c, d) PROVE IInv' BY <2>4, DesignateKeeps
  <2>5. ASSUME NEW c \in Callers, Graph(c) PROVE IInv' BY <2>5, GraphKeeps
  <2>6. ASSUME NEW c \in Callers, Touch(c) PROVE IInv' BY <2>6, TouchKeeps
  <2>7. ASSUME NEW c \in Callers, Sampled(c) PROVE IInv'
    <3>1. calls[c].stage = "slices" BY <2>7 DEF Sampled
    <3>2. PICK slice \in Slices(calls[c].rect, calls[c].level) : NextSlice(c, slice) \/ SeedFromSlice(c, slice)
      BY <2>7 DEF Sampled
    <3> QED BY <3>1, <3>2, NextSliceKeeps, SeedKeeps
  <2>8. ASSUME NEW c \in Callers, Suggest(c) PROVE IInv' BY <2>8, SuggestKeeps
  <2>9. ASSUME NEW c \in Callers, Record(c) PROVE IInv' BY <2>9, RecordKeeps
  <2> QED BY <2>1, <2>2, <2>3, <2>4, <2>5, <2>6, <2>7, <2>8, <2>9 DEF TopoNext
<1> QED BY <1>1, <1>2, PTL DEF TopoSpec

\* At every moment the regions read off the map are the connected parts of the
\* open tiles: they cover them, do not meet, and none falls into two (Topology, BuildRegionGraph).
THEOREM MapRegions == TopoSpec => []RegionsAreComponents
<1>1. IInv => RegionsAreComponents BY MapAssumption, RegionsAreParts DEF IInv, OverlaysShow
<1> QED BY <1>1, MapInvariant, PTL

\* A hint given while the map, its overlay and the other digs change names a tile
\* that was open since its call began, and no tile that stayed open is nearer or
\* beside the dig (Topology, connectorSuggestion).
THEOREM MapHints == TopoSpec => []SuggestionConnects
<1>1. IInv => SuggestionConnects BY ConnectsIs DEF IInv, CallIs
<1> QED BY <1>1, MapInvariant, PTL

\* A tile is read as it was last told.
LEMMA TileIs ==
  ASSUME NEW ov, NEW of, InPlace(ov, of), NEW c \in Coords
  PROVE  GetTileState(ov, c) = of[c] /\ (IsOpen(ov, c) <=> of[c] = "open")
<1>1. /\ of[c] \in {"open", "closed", "unknown"} /\ (Bit(c) \in ov.known <=> of[c] # "unknown")
      /\ (Bit(c) \in ov.data <=> of[c] = "open")
  BY DEF InPlace
<1>2. CASE of[c] = "open" BY <1>1, <1>2 DEF GetTileState, IsOpen
<1>3. CASE of[c] = "closed" BY <1>1, <1>3 DEF GetTileState, IsOpen
<1>4. CASE of[c] = "unknown" BY <1>1, <1>4 DEF GetTileState, IsOpen
<1> QED BY <1>1, <1>2, <1>3, <1>4

\* What is neither open nor closed is unknown, in the counts too.
LEMMA CountsAre ==
  ASSUME DimensionsAssumption, NEW ov, NEW of, Shows(ov, of), NEW s \in {"open", "closed", "unknown"}
  PROVE  Counts(ov)[s] = Cardinality(ToldTo(of, s))
<1> DEFINE O == ToldTo(of, "open")
           C == ToldTo(of, "closed")
           U == ToldTo(of, "unknown")
           N == Size
<1>1. /\ Counts(ov).open = ov.openTiles /\ Counts(ov).closed = ov.closedTiles
      /\ Counts(ov).unknown = N - ov.openTiles - ov.closedTiles
  BY DEF Counts, Size
<1>2. ov.openTiles = Cardinality(O) /\ ov.closedTiles = Cardinality(C) BY DEF Shows
<1>3. Cardinality(U) = N - Cardinality(O) - Cardinality(C)
  <2>1. O \in SUBSET Coords /\ C \in SUBSET Coords /\ U \in SUBSET Coords BY DEF ToldTo
  <2>2. Coords = (O \cup C) \cup U BY DEF Shows, InPlace, ToldTo
  <2>3. O \cap C = {} /\ (O \cup C) \cap U = {} BY DEF ToldTo
  <2>4. O \cup C \in SUBSET Coords BY <2>1
  <2> HIDE DEF O, C, U, N
  <2>5. /\ IsFiniteSet(O) /\ IsFiniteSet(C) /\ IsFiniteSet(U) /\ IsFiniteSet(O \cup C)
        /\ Cardinality(O) \in Nat /\ Cardinality(C) \in Nat /\ Cardinality(U) \in Nat /\ Cardinality(O \cup C) \in Nat
        /\ Cardinality(Coords) = N
    BY <2>1, <2>4, BitsCount DEF N
  <2>6. Cardinality({}) = 0 BY FS_EmptySet
  <2>7. Cardinality(O \cup C) = Cardinality(O) + Cardinality(C) - Cardinality(O \cap C) BY <2>5, FS_Union
  <2>8. Cardinality((O \cup C) \cup U) = Cardinality(O \cup C) + Cardinality(U) - Cardinality((O \cup C) \cap U)
    BY <2>5, FS_Union
  <2>9. Cardinality(O \cap C) = 0 /\ Cardinality((O \cup C) \cap U) = 0 BY <2>3, <2>6
  <2> DEFINE o == Cardinality(O)
             k == Cardinality(C)
             u == Cardinality(U)
             b == Cardinality(O \cup C)
  <2>10. o \in Nat /\ k \in Nat /\ u \in Nat /\ b = o + k - 0 /\ N = b + u - 0 BY <2>2, <2>5, <2>7, <2>8, <2>9
  <2> HIDE DEF o, k, u, b
  <2>11. u = N - o - k BY <2>10
  <2> QED BY <2>11 DEF o, k, u
<1> HIDE DEF O, C, U, N
<1>4. Counts(ov).unknown = Cardinality(U) BY <1>1, <1>2, <1>3
<1>5. CASE s = "open" BY <1>1, <1>2, <1>5 DEF O
<1>6. CASE s = "closed" BY <1>1, <1>2, <1>6 DEF C
<1>7. CASE s = "unknown" BY <1>4, <1>7 DEF U
<1> QED BY <1>5, <1>6, <1>7

\* The tiles of one level told to be s.
OnLevel(of, s, z) == {c \in ToldTo(of, s) : c[3] = z}
\* The bits of a level are as many as its tiles, each kind for itself.
LEMMA LevelIs ==
  ASSUME DimensionsAssumption, NEW ov, NEW of, InPlace(ov, of), NEW z \in 0..Depth - 1,
         NEW s \in {"open", "closed", "unknown"}
  PROVE  StatsForZ(ov, z)[s] = Cardinality(OnLevel(of, s, z))
<1> DEFINE bits == z * Width * Height..(z + 1) * Width * Height - 1
           stats == StatsForZ(ov, z)
           B(t) == {Bit(c) : c \in OnLevel(of, t, z)}
<1>1. /\ stats.open = Cardinality(bits \cap ov.known \cap ov.data)
      /\ stats.closed = Cardinality((bits \cap ov.known) \ ov.data)
      /\ stats.unknown = Cardinality(bits \ ov.known)
  BY DEF StatsForZ
<1>2. /\ \A c \in Coords : c[3] = z <=> Bit(c) \in bits
      /\ bits \subseteq 0..Size - 1
      /\ \A n \in 0..Size - 1 : \E c \in Coords : Bit(c) = n
  BY BitsAre
<1> HIDE DEF bits, stats
<1>3. ASSUME NEW n, NEW t PROVE n \in B(t) <=> \E c \in Coords : of[c] = t /\ n = Bit(c) /\ n \in bits
  BY <1>2 DEF OnLevel, ToldTo
<1>4. ASSUME NEW n \in bits PROVE \E c \in Coords : n = Bit(c)
  BY <1>2
<1>5. \A c \in Coords :
        /\ of[c] \in {"open", "closed", "unknown"} /\ (Bit(c) \in ov.known <=> of[c] # "unknown")
        /\ (Bit(c) \in ov.data <=> of[c] = "open")
  BY DEF InPlace
<1>6. \A c \in Coords, d \in Coords : Bit(c) = Bit(d) => c = d BY BitIs
<1> HIDE DEF B
<1>7. bits \cap ov.known \cap ov.data = B("open")
  <2> SUFFICES ASSUME NEW n PROVE n \in bits \cap ov.known \cap ov.data <=> n \in B("open")
    OBVIOUS
  <2> QED BY <1>3, <1>4, <1>5, <1>6
<1>8. (bits \cap ov.known) \ ov.data = B("closed")
  <2> SUFFICES ASSUME NEW n PROVE n \in (bits \cap ov.known) \ ov.data <=> n \in B("closed")
    OBVIOUS
  <2> QED BY <1>3, <1>4, <1>5, <1>6
<1>9. bits \ ov.known = B("unknown")
  <2> SUFFICES ASSUME NEW n PROVE n \in bits \ ov.known <=> n \in B("unknown")
    OBVIOUS
  <2> QED BY <1>3, <1>4, <1>5, <1>6
<1>10. ASSUME NEW t PROVE Cardinality(B(t)) = Cardinality(OnLevel(of, t, z))
  <2>1. OnLevel(of, t, z) \in SUBSET Coords BY DEF OnLevel, ToldTo
  <2>2. Cardinality(B(t)) = Cardinality(OnLevel(of, t, z)) BY <2>1, BitsCount DEF B
  <2> QED BY <2>2
<1>11. CASE s = "open" BY <1>1, <1>7, <1>10, <1>11 DEF stats
<1>12. CASE s = "closed" BY <1>1, <1>8, <1>10, <1>12 DEF stats
<1>13. CASE s = "unknown" BY <1>1, <1>9, <1>10, <1>13 DEF stats
<1> QED BY <1>11, <1>12, <1>13

\* The statistics of a range are those of its levels, from the top down.
LEMMA LevelsAre ==
  ASSUME DimensionsAssumption, NEW ov, NEW of, InPlace(ov, of), NEW lo \in -1..Depth, NEW hi \in -1..Depth,
         NEW i \in DOMAIN StatsForZRange(ov, lo, hi), NEW s \in {"open", "closed", "unknown"}
  PROVE  StatsForZRange(ov, lo, hi)[i][s] = Cardinality(OnLevel(of, s, Min({hi, Depth - 1}) - i + 1))
<1> DEFINE a == IF lo < 0 THEN 0 ELSE lo
           b == IF hi >= Depth THEN Depth - 1 ELSE hi
           stats == StatsForZRange(ov, lo, hi)
           z == b - i + 1
<1>1. Depth \in Nat BY DEF DimensionsAssumption
<1>2. ~(lo > hi \/ a > b)
  <2> SUFFICES ASSUME lo > hi \/ a > b PROVE FALSE
    OBVIOUS
  <2>1. stats = <<>> BY DEF StatsForZRange
  <2>2. DOMAIN stats = {} BY <2>1
  <2> QED BY <2>2
<1>3. stats = [j \in 1..b - a + 1 |-> StatsForZ(ov, b - j + 1)] BY <1>2 DEF StatsForZRange
<1>4. i \in 1..b - a + 1 /\ stats[i] = StatsForZ(ov, z) BY <1>3
<1>5. z \in 0..Depth - 1 BY <1>1, <1>2, <1>4
<1>6. Min({hi, Depth - 1}) = b
  <2> DEFINE S == {hi, Depth - 1}
  <2>1. b \in S /\ \A x \in S : x \in Int /\ b =< x BY <1>1
  <2> HIDE DEF S, b
  <2>2. Min(S) \in S /\ \A y \in S : Min(S) <= y BY <2>1, LeastIs
  <2>3. Min(S) <= b /\ b <= Min(S) /\ b \in Int /\ Min(S) \in Int BY <2>1, <2>2
  <2>4. Min(S) = b BY <2>3
  <2> QED BY <2>4 DEF S
<1> HIDE DEF b, stats
<1>7. stats[i][s] = Cardinality(OnLevel(of, s, z)) BY <1>4, <1>5, LevelIs
<1> QED BY <1>6, <1>7 DEF stats

\* However it is asked, the overlay tells what it was told.
LEMMA TilesAreTold ==
  ASSUME DimensionsAssumption, topo # Nothing => Shows(topo, told) PROVE TilesAgree
<1> SUFFICES ASSUME topo # Nothing PROVE TilesAgree
  BY DEF TilesAgree
<1>1. InPlace(topo, told) BY DEF Shows
<1>2. \A c \in Coords : GetTileState(topo, c) = told[c] /\ (IsOpen(topo, c) <=> told[c] = "open")
  BY <1>1, TileIs
<1>3. \A s \in {"open", "closed", "unknown"} :
        Counts(topo)[s] = Cardinality({c \in Coords : told[c] = s})
  <2> SUFFICES ASSUME NEW s \in {"open", "closed", "unknown"}
               PROVE  Counts(topo)[s] = Cardinality({c \in Coords : told[c] = s})
    OBVIOUS
  <2>1. Counts(topo)[s] = Cardinality(ToldTo(told, s)) BY CountsAre
  <2> QED BY <2>1 DEF ToldTo
<1>4. ASSUME NEW lo \in -1..Depth, NEW hi \in -1..Depth,
             NEW i \in DOMAIN StatsForZRange(topo, lo, hi), NEW s \in {"open", "closed", "unknown"}
      PROVE  StatsForZRange(topo, lo, hi)[i][s] =
               Cardinality({c \in {d \in Coords : told[d] = s} : c[3] = Min({hi, Depth - 1}) - i + 1})
  <2>1. StatsForZRange(topo, lo, hi)[i][s] = Cardinality(OnLevel(told, s, Min({hi, Depth - 1}) - i + 1))
    BY <1>1, LevelsAre
  <2> QED BY <2>1 DEF OnLevel, ToldTo
<1>5. ASSUME NEW a \in Coords, NEW b \in Coords
      PROVE  GetOpenTileCount(topo, a, b) =
               Cardinality({c \in Coords : told[c] = "open"} \cap Box(a, b))
  <2> DEFINE S == {c \in Coords : IsOpen(topo, c) /\ \A i \in 1..3 : c[i] \in a[i]..b[i]}
             T == {c \in Coords : told[c] = "open"} \cap Box(a, b)
  <2>1. ASSUME NEW c \in Coords PROVE (\A i \in 1..3 : c[i] \in a[i]..b[i]) <=> c \in Box(a, b)
    <3>1. c = <<c[1], c[2], c[3]>> BY DEF Coords
    <3>2. (\A i \in 1..3 : c[i] \in a[i]..b[i]) <=> c[1] \in a[1]..b[1] /\ c[2] \in a[2]..b[2] /\ c[3] \in a[3]..b[3]
      <4>1. 1..3 = {1, 2, 3} OBVIOUS
      <4> QED BY <4>1
    <3> QED BY <3>1, <3>2, InBox
  <2>2. S = T
    <3>1. \A c : c \in S <=> c \in Coords /\ told[c] = "open" /\ c \in Box(a, b) BY <1>2, <2>1
    <3> QED BY <3>1
  <2>3. GetOpenTileCount(topo, a, b) = Cardinality(S) BY DEF GetOpenTileCount
  <2> QED BY <2>2, <2>3
<1>6. \A a, b \in {c \in Coords : c[2] = 0} :
        GetOpenTileCount(topo, a, b) =
          Cardinality({c \in Coords : told[c] = "open"} \cap Box(a, b))
  BY <1>5
<1> QED BY <1>2, <1>3, <1>4, <1>6 DEF TilesAgree

----------------------------------------------------------------------------
(* Compressed copies of the map overlay.                                   *)

\* The digits of a byte are numbers.
LEMMA DigitsAre == ASSUME BytesAssumption PROVE Digit \in Nat \ {0} /\ Byte \in Nat \ {0}
<1> DEFINE P == Nat \ {0}
           g == [x \in (1..ByteBits) \X P |-> 2 * x[2]]
           Is(f) == f = [k \in 0..ByteBits |-> IF k = 0 THEN 1 ELSE 2 * f[k - 1]]
<1>1. ByteBits \in Nat /\ ByteBits \in 0..ByteBits /\ ByteBits - 1 \in 0..ByteBits BY DEF BytesAssumption
<1>2. Steps(g, 0, ByteBits, P) /\ 1 \in P
  <2>1. \A x \in (1..ByteBits) \X P : 2 * x[2] \in P OBVIOUS
  <2> QED BY <2>1 DEF Steps
<1>3. PICK f : Recurs(f, 1, g, 0, ByteBits, P) BY <1>1, <1>2, Recursion
<1>4. \A k \in 0..ByteBits : f[k] = IF k = 0 THEN 1 ELSE 2 * f[k - 1]
  <2> SUFFICES ASSUME NEW k \in 0..ByteBits, k # 0 PROVE f[k] = 2 * f[k - 1]
    BY <1>3 DEF Recurs
  <2>1. k \in 1..ByteBits /\ k - 1 \in 0..ByteBits BY <1>1
  <2>2. f[k - 1] \in P BY <1>3, <2>1 DEF Recurs
  <2>3. <<k, f[k - 1]>> \in (1..ByteBits) \X P BY <2>1, <2>2
  <2>4. g[<<k, f[k - 1]>>] = 2 * f[k - 1] BY <2>3
  <2> HIDE DEF g
  <2> QED BY <1>3, <2>4 DEF Recurs
<1>5. f = [k \in 0..ByteBits |-> f[k]] BY <1>3 DEF Recurs
<1>6. Is(f) BY <1>4, <1>5
<1>7. Is(Power)
  <2>1. Power = CHOOSE h : Is(h) BY DEF Power
  <2> HIDE DEF Is
  <2> QED BY <1>6, <2>1
<1>8. \A k \in 0..ByteBits : Power[k] = IF k = 0 THEN 1 ELSE 2 * Power[k - 1] BY <1>7
<1> DEFINE S == {k \in Nat : k \in 0..ByteBits => Power[k] \in P}
<1>9. 0..ByteBits \subseteq S
  <2>1. 0 \in S BY <1>8
  <2>2. ASSUME NEW k \in 0 + 1..ByteBits, k - 1 \in S PROVE k \in S
    <3>1. k - 1 \in 0..ByteBits /\ k \in 0..ByteBits /\ k # 0 BY <1>1
    <3>2. Power[k - 1] \in P /\ Power[k] = 2 * Power[k - 1] BY <1>8, <2>2, <3>1
    <3>3. 2 * Power[k - 1] \in P BY <3>2
    <3> QED BY <3>1, <3>2, <3>3
  <2> HIDE DEF S
  <2> QED BY <1>1, <2>1, <2>2, Upward
<1> QED BY <1>1, <1>9 DEF Digit, Byte

\* The quotient and the rest are those of \div and %.
LEMMA Divided ==
  ASSUME NEW n \in Nat \ {0}, NEW q \in Nat, NEW r \in 0..n - 1
  PROVE  Compound(n, q, r) \in Nat /\ Compound(n, q, r) \div n = q /\ Compound(n, q, r) % n = r
<1> DEFINE x == Compound(n, q, r)
<1>1. x \in Nat BY Grows DEF Compound
<1> HIDE DEF x
<1>2. x \div n \in Nat /\ x % n \in 0..n - 1 BY <1>1
<1>3. x = n * (x \div n) + (x % n) BY <1>1
<1>4. Compound(n, q, r) = Compound(n, x \div n, x % n)
  <2>1. n * (x \div n) = (x \div n) * n BY <1>2
  <2> QED BY <1>3, <2>1 DEF x, Compound
<1>5. q = x \div n /\ r = x % n BY <1>2, <1>4, Quotient
<1> QED BY <1>1, <1>5 DEF x

\* Every number is made of them.
LEMMA DividedAll ==
  ASSUME NEW n \in Nat \ {0}, NEW x \in Nat
  PROVE  x \div n \in Nat /\ x % n \in 0..n - 1 /\ x = Compound(n, x \div n, x % n)
<1>1. PICK q \in Nat, r \in 0..n - 1 : x = Compound(n, q, r) BY Division
<1> QED BY <1>1, Divided

\* w is in s behind the position at.
Covers(s, at, w) == at + Len(w) <= Len(s) /\ \A j \in 1..Len(w) : s[at + j] = w[j]
\* What is read where the number n was written, itself unless it has a fourth digit.
Reads(n, v) ==
  /\ writeVarint(n) \in Seq(Nat) /\ v \in 0..n
  /\ \A S : \A s \in Seq(S), at \in Nat :
       Covers(s, at, writeVarint(n)) => readVarint(s, at) = <<v, at + Len(writeVarint(n))>>
  /\ n < Digit * Digit * Digit => v = n

\* A digit stays what it is, with its flag or without.
LEMMA DigitIs ==
  ASSUME NEW D \in Nat \ {0}, NEW r \in 0..D - 1 PROVE r % D = r /\ (r + D) % D = r
<1>1. Compound(D, 0, r) = r /\ Compound(D, 1, r) = r + D BY DEF Compound
<1>2. Compound(D, 0, r) % D = r /\ Compound(D, 1, r) % D = r BY Divided
<1> QED BY <1>1, <1>2

\* A number is written in one to three digits, and read again.
LEMMA VarintIs == ASSUME BytesAssumption, NEW n \in Nat PROVE \E v : Reads(n, v)
<1> DEFINE D == Digit
           w == writeVarint(n)
<1>1. D \in Nat \ {0} BY DigitsAre
<1>2. \A S : \A s \in Seq(S) : Len(s) \in Nat BY LenProperties
<1>3. CASE n < D
  <2>1. w = <<n>> BY <1>3 DEF writeVarint
  <2>2. w \in Seq(Nat) /\ Len(w) = 1 /\ w[1] = n BY <2>1
  <2>3. ASSUME NEW S, NEW s \in Seq(S), NEW at \in Nat, Covers(s, at, w) PROVE readVarint(s, at) = <<n, at + 1>>
    <3>1. at + 1 <= Len(s) /\ s[at + 1] = n BY <2>2, <2>3 DEF Covers
    <3>2. ~(s[at + 1] >= D) /\ ~(Len(s) < at + 1) BY <1>1, <1>2, <1>3, <3>1
    <3> HIDE DEF w
    <3> QED BY <3>1, <3>2 DEF readVarint
  <2> HIDE DEF w
  <2>4. Reads(n, n) BY <2>2, <2>3 DEF Reads, w
  <2> QED BY <2>4
<1>4. CASE ~(n < D) /\ n < D * D
  <2> DEFINE q == n \div D
             r == n % D
  <2>1. q \in Nat /\ r \in 0..D - 1 /\ n = Compound(D, q, r) BY <1>1, DividedAll
  <2> HIDE DEF q, r
  <2>2. q < D BY <1>1, <1>4, <2>1, SmallerQuotient
  <2>3. q \in 0..D - 1 BY <1>1, <2>1, <2>2
  <2>4. q % D = q /\ (q + D) % D = q BY <1>1, <2>3, DigitIs
  <2>5. w = <<q + D, r>> BY <1>4, <2>4 DEF writeVarint, q, r
  <2>6. q + D \in Nat /\ r \in Nat BY <1>1, <2>1
  <2>7. w \in Seq(Nat) /\ Len(w) = 2 /\ w[1] = q + D /\ w[2] = r BY <2>5, <2>6
  <2>8. ASSUME NEW S, NEW s \in Seq(S), NEW at \in Nat, Covers(s, at, w) PROVE readVarint(s, at) = <<n, at + 2>>
    <3>1. at + 2 <= Len(s) /\ s[at + 1] = q + D /\ s[at + 2] = r BY <2>7, <2>8 DEF Covers
    <3>2. Len(s) >= at + 1 /\ s[at + 1] >= D BY <1>1, <1>2, <2>1, <3>1
    <3>3. ~(s[at + 2] >= D) /\ ~(Len(s) < at + 2) BY <1>1, <1>2, <2>1, <3>1
    <3>4. (s[at + 1] % D) * D + s[at + 2] = n BY <2>1, <2>4, <3>1 DEF Compound
    <3> HIDE DEF w
    <3> QED BY <3>2, <3>3, <3>4 DEF readVarint
  <2> HIDE DEF w
  <2>9. Reads(n, n) BY <2>7, <2>8 DEF Reads, w
  <2> QED BY <2>9
<1>5. CASE ~(n < D) /\ ~(n < D * D)
  <2> DEFINE q == n \div D
             r == n % D
             b == q % D
             p == n \div (D * D)
             a == p % D
             t == p \div D
  <2>1. D * D \in Nat \ {0}
    <3>1. D * D \in Nat /\ 1 * D <= D * D BY <1>1, Grows
    <3> QED BY <1>1, <3>1
  <2>2. q \in Nat /\ r \in 0..D - 1 /\ n = Compound(D, q, r) BY <1>1, DividedAll
  <2>3. p = q \div D
    <3> DEFINE e == q \div D
               m == b * D
    <3>1. e \in Nat /\ b \in 0..D - 1 /\ q = Compound(D, e, b) BY <1>1, <2>2, DividedAll
    <3> HIDE DEF q, r, b, e
    <3>2. m \in Nat /\ (b + 1) * D <= D * D /\ (b + 1) * D = m + D
      <4>1. b + 1 \in Nat /\ b + 1 <= D /\ b \in Nat BY <1>1, <3>1
      <4>2. (b + 1) * D <= D * D BY <1>1, <4>1, Grows
      <4>3. b * D \in Nat BY <1>1, <4>1
      <4>4. (b + 1) * D = b * D + D BY <1>1, <4>1
      <4> QED BY <4>2, <4>3, <4>4
    <3>3. n = e * (D * D) + (m + r)
      <4>1. n = (e * D + b) * D + r BY <2>2, <3>1 DEF Compound
      <4>2. (e * D + b) * D = e * (D * D) + b * D BY <1>1, <3>1
      <4>3. e * (D * D) \in Nat BY <1>1, <2>1, <3>1
      <4> HIDE DEF D
      <4> QED BY <2>2, <3>2, <4>1, <4>2, <4>3
    <3>4. m + r \in 0..D * D - 1
      <4> DEFINE dd == D * D
      <4>1. m \in Nat /\ m + D <= dd /\ dd \in Nat BY <2>1, <3>2
      <4> HIDE DEF dd, m, D
      <4>2. m + r \in 0..dd - 1 BY <1>1, <2>2, <4>1
      <4> QED BY <4>2 DEF dd
    <3>5. n = Compound(D * D, e, m + r) BY <3>3 DEF Compound
    <3>6. n \div (D * D) = e BY <2>1, <3>1, <3>4, <3>5, Divided
    <3> QED BY <3>6 DEF e
  <2>4. b \in 0..D - 1 /\ q = Compound(D, p, b) BY <1>1, <2>2, <2>3, DividedAll
  <2>5. p \in Nat BY <2>1, DividedAll
  <2>6. a \in 0..D - 1 /\ t \in Nat /\ p = Compound(D, t, a) BY <1>1, <2>5, DividedAll
  <2>7. w = <<a + D, b + D, r>> BY <1>5 DEF writeVarint
  <2> DEFINE v == a * (D * D) + b * D + r
  <2> HIDE DEF q, r, b, p, a, t
  <2>8. n = p * (D * D) + (b * D + r)
    <3>1. n = (p * D + b) * D + r BY <2>2, <2>4 DEF Compound
    <3>2. (p * D + b) * D = p * (D * D) + b * D BY <1>1, <2>4, <2>5
    <3>3. p * (D * D) \in Nat /\ b * D \in Nat BY <1>1, <2>1, <2>4, <2>5
    <3> HIDE DEF D
    <3> QED BY <2>2, <3>1, <3>2, <3>3
  <2>9. a \in Nat /\ a <= p
    <3>1. t * D \in Nat BY <1>1, <2>6
    <3> QED BY <2>6, <3>1 DEF Compound
  <2>10. v \in 0..n
    <3> DEFINE x == a * (D * D)
               y == p * (D * D)
               z == b * D
    <3>1. x \in Nat /\ y \in Nat /\ x <= y BY <2>1, <2>5, <2>9, Grows
    <3>2. z \in Nat BY <1>1, <2>4
    <3>3. n = y + (z + r) /\ v = x + z + r BY <2>8
    <3> HIDE DEF x, y, z
    <3> QED BY <2>2, <3>1, <3>2, <3>3
  <2>11. ASSUME n < D * D * D PROVE v = n
    <3>1. D * D * D = D * (D * D) BY <1>1
    <3>2. b * D + r \in Nat
      <4>1. b * D \in Nat BY <1>1, <2>4
      <4> QED BY <2>2, <4>1
    <3>3. Compound(D * D, p, b * D + r) < D * (D * D) BY <2>8, <2>11, <3>1 DEF Compound
    <3>4. p < D BY <1>1, <2>1, <2>5, <3>2, <3>3, SmallerQuotient
    <3>5. a = p
      <4>1. p \in 0..D - 1 BY <1>1, <2>5, <3>4
      <4>2. p % D = p BY <1>1, <4>1, DigitIs
      <4> QED BY <4>2 DEF a
    <3>6. p * (D * D) \in Nat /\ b * D \in Nat BY <1>1, <2>1, <2>4, <2>5
    <3>7. v = p * (D * D) + b * D + r BY <3>5
    <3> HIDE DEF D, v
    <3> QED BY <2>2, <2>8, <3>6, <3>7
  <2>12. a + D \in Nat /\ b + D \in Nat /\ r \in Nat BY <1>1, <2>2, <2>4, <2>6
  <2>13. w \in Seq(Nat) /\ Len(w) = 3 /\ w[1] = a + D /\ w[2] = b + D /\ w[3] = r BY <2>7, <2>12
  <2>14. (a + D) % D = a /\ (b + D) % D = b BY <1>1, <2>4, <2>6, DigitIs
  <2>15. ASSUME NEW S, NEW s \in Seq(S), NEW at \in Nat, Covers(s, at, w) PROVE readVarint(s, at) = <<v, at + 3>>
    <3>1. at + 3 <= Len(s) /\ s[at + 1] = a + D /\ s[at + 2] = b + D /\ s[at + 3] = r
      BY <2>13, <2>15 DEF Covers
    <3>2. Len(s) >= at + 1 /\ s[at + 1] >= D /\ Len(s) >= at + 2 /\ s[at + 2] >= D
      BY <1>1, <1>2, <2>4, <2>6, <3>1
    <3>3. ~(Len(s) < at + 3) BY <1>2, <3>1
    <3>4. (s[at + 1] % D) * (D * D) + (s[at + 2] % D) * D + s[at + 3] = v BY <2>14, <3>1
    <3> HIDE DEF w, v
    <3> QED BY <3>2, <3>3, <3>4 DEF readVarint
  <2> HIDE DEF w, v
  <2>16. Reads(n, v) BY <2>10, <2>11, <2>13, <2>15 DEF Reads, w
  <2> QED BY <2>16
<1> QED BY <1>3, <1>4, <1>5

\* The reader goes from a to b over a run of n, of which it makes v.
Takes(s, V, a, b) ==
  \E n \in Nat, x \in V : \E v \in 0..n :
    /\ Reads(n, v) /\ Covers(s, a.at, Emit(n, x))
    /\ b = [at |-> a.at + Len(Emit(n, x)), out |-> a.out \o [i \in 1..v |-> x]]
Positions(V) == [at : Nat, out : Seq(V)]
\* s is a stream of runs which make o.
Readings(s, V, o, m, f) ==
  /\ f[0] = [at |-> 0, out |-> <<>>] /\ f[m] = [at |-> Len(s), out |-> o]
  /\ \A k \in 1..m : Takes(s, V, f[k - 1], f[k])
Written(s, V, o) == \E m \in Nat : \E f \in [0..m -> Positions(V)] : Readings(s, V, o, m, f)

\* e is w and x behind it.
EndsWith(e, w, x, V) ==
  /\ w \in Seq(Nat) /\ Len(w) \in Nat /\ e \in Seq(V) /\ Len(e) = Len(w) + 1 /\ e[Len(w) + 1] = x
  /\ \A j \in 1..Len(w) : e[j] = w[j]

\* A run is written with its value behind its length.
LEMMA EmitIs ==
  ASSUME BytesAssumption, NEW V, Nat \subseteq V, NEW n \in Nat, NEW x \in V
  PROVE  EndsWith(Emit(n, x), writeVarint(n), x, V)
<1> DEFINE w == writeVarint(n)
<1>1. w \in Seq(Nat) BY VarintIs DEF Reads
<1> HIDE DEF w
<1>2. w \in Seq(V) /\ Len(w) \in Nat BY <1>1, SeqMonotonic, LenProperties
<1>3. /\ Append(w, x) \in Seq(V) /\ Len(Append(w, x)) = Len(w) + 1 /\ Append(w, x)[Len(w) + 1] = x
      /\ \A j \in 1..Len(w) : Append(w, x)[j] = w[j]
  BY <1>2, AppendProperties
<1> QED BY <1>1, <1>2, <1>3 DEF Emit, w, EndsWith

\* Copies of a value are a sequence of it.
LEMMA CopiesAre == ASSUME NEW V, NEW x \in V, NEW v \in Nat
  PROVE [i \in 1..v |-> x] \in Seq(V) /\ Len([i \in 1..v |-> x]) = v
<1> DEFINE c == [i \in 1..v |-> x]
<1>1. c \in [1..v -> V] /\ DOMAIN c = 1..v OBVIOUS
<1>2. c \in Seq(V) BY <1>1, SeqDef
<1>3. Len(c) \in Nat /\ DOMAIN c = 1..Len(c) BY <1>2, LenProperties
<1> HIDE DEF c
<1>4. Len(c) = v BY <1>1, <1>3
<1> QED BY <1>2, <1>4 DEF c

\* The reader does take the run.
LEMMA TakesIs ==
  ASSUME BytesAssumption, NEW V, Nat \subseteq V, NEW s \in Seq(V), NEW a \in Positions(V), NEW b, Takes(s, V, a, b)
  PROVE  b \in Positions(V) /\ ReadRun(s, a) = b /\ a.at < b.at /\ b.at <= Len(s)
<1>1. PICK n \in Nat, x \in V : \E v \in 0..n :
        /\ Reads(n, v) /\ Covers(s, a.at, Emit(n, x))
        /\ b = [at |-> a.at + Len(Emit(n, x)), out |-> a.out \o [i \in 1..v |-> x]]
  BY DEF Takes
<1>0. PICK v \in 0..n :
        /\ Reads(n, v) /\ Covers(s, a.at, Emit(n, x))
        /\ b = [at |-> a.at + Len(Emit(n, x)), out |-> a.out \o [i \in 1..v |-> x]]
  BY <1>1
<1> DEFINE w == writeVarint(n)
           e == Emit(n, x)
           c == [i \in 1..v |-> x]
<1>2. EndsWith(e, w, x, V) BY EmitIs
<1>3. v \in Nat BY <1>0 DEF Reads
<1>4. c \in Seq(V) BY <1>3, CopiesAre
<1> USE DEF EndsWith
<1>5. a.at \in Nat /\ a.out \in Seq(V) /\ Len(s) \in Nat BY LenProperties DEF Positions
<1> HIDE DEF w, e
<1>6. b.at = a.at + Len(w) + 1 /\ b.out = a.out \o c /\ b = [at |-> a.at + Len(w) + 1, out |-> a.out \o c]
  <2> HIDE DEF c
  <2>1. b = [at |-> a.at + Len(e), out |-> a.out \o c] BY <1>0 DEF c, e
  <2> DEFINE l == Len(w)
             p == a.at
  <2>2. p + Len(e) = p + l + 1
    <3>1. l \in Nat /\ p \in Nat /\ Len(e) = l + 1 BY <1>2, <1>5
    <3> HIDE DEF l, p
    <3> QED BY <3>1
  <2> QED BY <2>1, <2>2
<1>7. a.out \o c \in Seq(V)
  <2> HIDE DEF c
  <2> QED BY <1>4, <1>5, ConcatProperties
<1>8. Covers(s, a.at, e) BY <1>0 DEF e
<1>9. Reads(n, v) BY <1>0
<1>10. Covers(s, a.at, w) /\ a.at + Len(w) + 1 <= Len(s) /\ s[a.at + Len(w) + 1] = x
  <2>1. \A j \in 1..Len(w) : j \in 1..Len(e) BY <1>2
  <2> DEFINE l == Len(w)
             p == a.at
  <2>0. l \in Nat /\ p \in Nat /\ Len(e) = l + 1 BY <1>2, <1>5
  <2>2. l + 1 \in 1..Len(e) /\ p + (l + 1) = p + l + 1
    <3> HIDE DEF l, p
    <3> QED BY <2>0
  <2>3. a.at + Len(e) <= Len(s) /\ \A j \in 1..Len(e) : s[a.at + j] = e[j] BY <1>8 DEF Covers
  <2>4. Len(e) = Len(w) + 1 BY <1>2
  <2>5. a.at + Len(w) <= Len(s) /\ a.at + Len(w) + 1 <= Len(s) BY <1>2, <1>5, <2>3
  <2>6. \A j \in 1..Len(w) : s[a.at + j] = w[j] BY <1>2, <2>1, <2>3
  <2>7. s[a.at + (Len(w) + 1)] = e[Len(w) + 1] BY <2>2, <2>3
  <2> QED BY <1>2, <2>2, <2>5, <2>6, <2>7 DEF Covers
<1>11. readVarint(s, a.at) = <<v, a.at + Len(w)>> BY <1>5, <1>9, <1>10 DEF Reads, w
<1>12. a.at # Len(s) /\ a.at + Len(w) # Len(s) BY <1>2, <1>5, <1>10
<1>13. ReadRun(s, a) = [at |-> a.at + Len(w) + 1, out |-> a.out \o c]
  <2>1. <<v, a.at + Len(w)>> # <<>> OBVIOUS
  <2>2. c = [i \in 1..v |-> s[a.at + Len(w) + 1]] BY <1>10
  <2> HIDE DEF c
  <2> QED BY <1>11, <1>12, <2>1, <2>2 DEF ReadRun
<1> HIDE DEF c
<1> QED BY <1>2, <1>5, <1>6, <1>7, <1>10, <1>13 DEF Positions

\* What a stream makes is what decoding it gives.
LEMMA DecodedIs ==
  ASSUME BytesAssumption, NEW V, Nat \subseteq V, NEW s \in Seq(V), NEW o, Written(s, V, o)
  PROVE  Decoded(s) = o
<1>0. PICK m \in Nat : \E f \in [0..m -> Positions(V)] : Readings(s, V, o, m, f) BY DEF Written
<1>1. PICK f \in [0..m -> Positions(V)] : Readings(s, V, o, m, f) BY <1>0
<1> USE DEF Readings
<1> DEFINE L == Len(s)
           b0 == [at |-> 0, out |-> <<>>]
           Is(h) == h = [k \in 0..L |-> IF k = 0 THEN b0 ELSE ReadRun(s, h[k - 1])]
<1>2. L \in Nat BY LenProperties
<1>3. \A k \in 1..m : /\ k - 1 \in 0..m /\ k \in 0..m
                      /\ ReadRun(s, f[k - 1]) = f[k] /\ f[k - 1].at < f[k].at /\ f[k].at <= L
  <2> TAKE k \in 1..m
  <2>1. k - 1 \in 0..m /\ k \in 0..m BY <1>1
  <2>2. f[k - 1] \in Positions(V) /\ Takes(s, V, f[k - 1], f[k]) BY <1>1, <2>1
  <2> QED BY <2>1, <2>2, TakesIs
<1>4. \A k \in 0..m : f[k].at \in Nat BY <1>1 DEF Positions
<1>5. \A k \in 0..m : f[k].at >= k
  <2> DEFINE S == {k \in Nat : k \in 0..m => f[k].at >= k}
  <2>1. 0 \in S BY <1>1
  <2>2. ASSUME NEW k \in 0 + 1..m, k - 1 \in S PROVE k \in S
    <3>1. k \in 1..m /\ k \in Nat BY <1>1
    <3>2. k - 1 \in 0..m /\ k \in 0..m BY <1>3, <3>1
    <3>3. f[k - 1].at >= k - 1 BY <2>2, <3>2
    <3>4. f[k - 1].at < f[k].at BY <1>3, <3>1
    <3>5. f[k].at >= k BY <1>4, <3>1, <3>2, <3>3, <3>4
    <3> QED BY <3>1, <3>5
  <2> HIDE DEF S
  <2>3. 0..m \subseteq S BY <2>1, <2>2, Upward
  <2> QED BY <2>3 DEF S
<1>6. m <= L
  <2>1. m \in 0..m BY <1>1
  <2>2. f[m].at >= m /\ f[m].at = L BY <1>1, <1>5, <2>1
  <2> QED BY <2>2
<1> DEFINE g == [k \in 0..L |-> IF k <= m THEN f[k] ELSE f[m]]
<1>7. g[0] = b0 /\ \A k \in 1..L : k - 1 \in 0..L /\ g[k] = ReadRun(s, g[k - 1])
  <2>1. 0 \in 0..L /\ 0 <= m BY <1>1, <1>2
  <2>2. ASSUME NEW k \in 1..L PROVE g[k] = ReadRun(s, g[k - 1])
    <3>1. k - 1 \in 0..L /\ k \in 0..L /\ m \in 0..m BY <1>1, <1>2
    <3>2. CASE k <= m
      <4>1. k \in 1..m /\ k - 1 <= m BY <1>1, <3>2
      <4>2. g[k] = f[k] /\ g[k - 1] = f[k - 1] BY <3>1, <3>2, <4>1
      <4> QED BY <1>3, <4>1, <4>2
    <3>3. CASE ~(k <= m)
      <4>1. g[k] = f[m] BY <3>1, <3>3
      <4>2. g[k - 1] = f[m]
        <5>1. k - 1 <= m => k - 1 = m BY <1>1, <3>3
        <5> QED BY <3>1, <5>1
      <4>3. ReadRun(s, f[m]) = f[m]
        <5>1. f[m].at = Len(s) BY <1>1
        <5> QED BY <5>1 DEF ReadRun
      <4> QED BY <4>1, <4>2, <4>3
    <3> QED BY <3>2, <3>3
  <2>3. \A k \in 1..L : k - 1 \in 0..L BY <1>2
  <2>4. g[0] = b0 BY <1>1, <2>1
  <2> QED BY <2>2, <2>3, <2>4
<1>8. \E h : Is(h)
  <2>1. g = [k \in 0..L |-> g[k]] OBVIOUS
  <2> HIDE DEF g, b0
  <2>2. \A k \in 0..L : k # 0 => k \in 1..L BY <1>2
  <2>3. \A k \in 0..L : g[k] = IF k = 0 THEN b0 ELSE ReadRun(s, g[k - 1]) BY <1>7, <2>2
  <2>4. Is(g) BY <2>1, <2>3
  <2> QED BY <2>4
<1> DEFINE h == CHOOSE h : Is(h)
<1>9. Is(h)
  <2> HIDE DEF Is
  <2> QED BY <1>8
<1>10. Decoded(s) = h[L].out BY DEF Decoded
<1> HIDE DEF h, b0
<1>11. \A k \in 0..L : h[k] = IF k = 0 THEN b0 ELSE ReadRun(s, h[k - 1]) BY <1>9
<1> DEFINE S == {k \in Nat : k \in 0..L => h[k] = g[k]}
<1>12. L \in S
  <2> HIDE DEF g
  <2>1. 0 \in S BY <1>2, <1>7, <1>11
  <2>2. ASSUME NEW k \in 0 + 1..L, k - 1 \in S PROVE k \in S
    <3>1. k \in 1..L /\ k \in Nat /\ k \in 0..L /\ k # 0 /\ k - 1 \in 0..L BY <1>2
    <3>2. h[k - 1] = g[k - 1] BY <2>2, <3>1
    <3>3. h[k] = ReadRun(s, h[k - 1]) BY <1>11, <3>1
    <3>4. h[k] = g[k] BY <1>7, <3>1, <3>2, <3>3
    <3> QED BY <3>1, <3>4
  <2> HIDE DEF S
  <2>3. 0..L \subseteq S BY <1>2, <2>1, <2>2, Upward
  <2> QED BY <1>2, <2>3
<1>13. g[L] = f[m]
  <2>1. L \in 0..L /\ (L <= m => L = m) BY <1>1, <1>2, <1>6
  <2> QED BY <2>1
<1>14. h[L] = f[m] BY <1>2, <1>12, <1>13
<1> QED BY <1>1, <1>10, <1>14

\* The empty stream makes nothing.
LEMMA WrittenNone == ASSUME NEW V PROVE Written(<<>>, V, <<>>)
<1> DEFINE z == [at |-> 0, out |-> <<>>]
           f == [k \in 0..0 |-> z]
<1>1. z \in Positions(V) BY EmptySeq DEF Positions
<1>2. Len(<<>>) = 0 OBVIOUS
<1>3. f \in [0..0 -> Positions(V)] /\ f[0] = z BY <1>1
<1>4. 1..0 = {} OBVIOUS
<1> HIDE DEF f
<1> QED BY <1>2, <1>3, <1>4 DEF Written, Readings

\* One more run in the stream is one more in what it makes.
LEMMA WrittenMore ==
  ASSUME BytesAssumption, NEW V, Nat \subseteq V, NEW s \in Seq(V), NEW o, Written(s, V, o),
         NEW n \in Nat, NEW x \in V, NEW v, Reads(n, v)
  PROVE  Written(s \o Emit(n, x), V, o \o [i \in 1..v |-> x])
<1>0. PICK m \in Nat : \E f \in [0..m -> Positions(V)] : Readings(s, V, o, m, f) BY DEF Written
<1>1. PICK f \in [0..m -> Positions(V)] : Readings(s, V, o, m, f) BY <1>0
<1> USE DEF Readings
<1> DEFINE e == Emit(n, x)
           t == s \o e
           c == [i \in 1..v |-> x]
           last == [at |-> Len(t), out |-> o \o c]
           g == [k \in 0..m + 1 |-> IF k <= m THEN f[k] ELSE last]
<1>2. e \in Seq(V) /\ Len(e) \in Nat /\ Len(s) \in Nat
  <2>1. e \in Seq(V) BY EmitIs DEF EndsWith
  <2> HIDE DEF e
  <2> QED BY <2>1, LenProperties
<1>3. c \in Seq(V)
  <2>1. v \in Nat BY DEF Reads
  <2> QED BY <2>1, CopiesAre
<1>4. o \in Seq(V)
  <2>1. f[m] \in Positions(V) /\ f[m].out = o BY <1>1
  <2> QED BY <2>1 DEF Positions
<1> HIDE DEF e, c
<1>5. /\ t \in Seq(V) /\ Len(t) = Len(s) + Len(e)
      /\ \A i \in 1..Len(s) + Len(e) : t[i] = IF i <= Len(s) THEN s[i] ELSE e[i - Len(s)]
  BY <1>2, ConcatProperties
<1>6. o \o c \in Seq(V) BY <1>3, <1>4, ConcatProperties
<1>7. last \in Positions(V) BY <1>2, <1>5, <1>6 DEF Positions
<1>8. \A k \in 0..m + 1 : k <= m => k \in 0..m OBVIOUS
<1> HIDE DEF t
<1>9. g \in [0..m + 1 -> Positions(V)] BY <1>1, <1>7, <1>8
<1>10. g[0] = [at |-> 0, out |-> <<>>] /\ g[m + 1] = last /\ \A k \in 0..m : g[k] = f[k]
  <2>1. 0 \in 0..m + 1 /\ 0 <= m /\ m + 1 \in 0..m + 1 /\ ~(m + 1 <= m) /\ m + 1 \in Nat BY <1>1
  <2>2. \A k \in 0..m : k \in 0..m + 1 /\ k <= m BY <1>1
  <2> QED BY <1>1, <2>1, <2>2
<1>11. ASSUME NEW k \in 1..m PROVE Takes(t, V, f[k - 1], f[k])
  <2>1. PICK p \in Nat, y \in V : \E u \in 0..p :
        /\ Reads(p, u) /\ Covers(s, f[k - 1].at, Emit(p, y))
        /\ f[k] = [at |-> f[k - 1].at + Len(Emit(p, y)), out |-> f[k - 1].out \o [i \in 1..u |-> y]]
    BY <1>1, <1>11 DEF Takes
  <2>0. PICK u \in 0..p :
        /\ Reads(p, u) /\ Covers(s, f[k - 1].at, Emit(p, y))
        /\ f[k] = [at |-> f[k - 1].at + Len(Emit(p, y)), out |-> f[k - 1].out \o [i \in 1..u |-> y]]
    BY <2>1
  <2> DEFINE w == Emit(p, y)
             at == f[k - 1].at
  <2>2. k - 1 \in 0..m BY <1>11
  <2>3. at \in Nat BY <1>1, <2>2 DEF Positions
  <2>4. w \in Seq(V) /\ Len(w) \in Nat
    <3>1. w \in Seq(V) BY EmitIs DEF EndsWith
    <3> HIDE DEF w
    <3> QED BY <3>1, LenProperties
  <2>5. Covers(s, at, w) BY <2>0
  <2> HIDE DEF w, at
  <2>6. Covers(t, at, w)
    <3>1. at + Len(w) <= Len(t) BY <1>2, <1>5, <2>3, <2>4, <2>5 DEF Covers
    <3>2. ASSUME NEW j \in 1..Len(w) PROVE t[at + j] = w[j]
      <4>1. at + j \in 1..Len(s) BY <1>2, <2>3, <2>4, <2>5 DEF Covers
      <4>2. at + j \in 1..Len(s) + Len(e) /\ at + j <= Len(s) BY <1>2, <4>1
      <4>3. t[at + j] = s[at + j] BY <1>5, <4>2
      <4> QED BY <2>5, <4>3 DEF Covers
    <3> QED BY <3>1, <3>2 DEF Covers
  <2>7. Covers(t, f[k - 1].at, Emit(p, y)) BY <2>6 DEF w, at
  <2> QED BY <2>0, <2>7 DEF Takes
<1>12. Takes(t, V, f[m], last)
  <2>1. Covers(t, Len(s), e)
    <3>1. \A j \in 1..Len(e) : Len(s) + j \in 1..Len(s) + Len(e) /\ ~(Len(s) + j <= Len(s)) /\ Len(s) + j - Len(s) = j
      BY <1>2
    <3> QED BY <1>2, <1>5, <3>1 DEF Covers
  <2>2. f[m].at = Len(s) /\ f[m].out = o BY <1>1
  <2>3. last = [at |-> f[m].at + Len(Emit(n, x)), out |-> f[m].out \o [i \in 1..v |-> x]]
    BY <1>5, <2>2 DEF e, c
  <2>4. v \in 0..n BY DEF Reads
  <2> HIDE DEF last
  <2> QED BY <2>1, <2>2, <2>3, <2>4 DEF Takes, e
<1>13. ASSUME NEW k \in 1..m + 1 PROVE Takes(t, V, g[k - 1], g[k])
  <2> HIDE DEF g, last
  <2>1. CASE k = m + 1
    <3>1. k - 1 = m /\ m \in 0..m BY <1>1, <2>1
    <3> QED BY <1>10, <1>12, <2>1, <3>1
  <2>2. CASE k # m + 1
    <3>1. k \in 1..m /\ k - 1 \in 0..m /\ k \in 0..m BY <1>1, <2>2
    <3> QED BY <1>10, <1>11, <3>1
  <2> QED BY <2>1, <2>2
<1> HIDE DEF g
<1>14. m + 1 \in Nat /\ g[m + 1] = [at |-> Len(t), out |-> o \o c] BY <1>10
<1>15. Written(t, V, o \o c) BY <1>9, <1>10, <1>13, <1>14 DEF Written, Readings
<1> QED BY <1>15 DEF t, e, c

\* Many equal bytes in a row.
HasLong(b) == \E i \in 0..Len(b) - Digit * Digit * Digit : \A j \in 1..Digit * Digit * Digit : b[i + j] = b[i + 1]
\* o is the first k bytes of b, or less than that.
Fits(o, b, k) ==
  /\ Len(o) <= k /\ (~HasLong(b) => Len(o) = k)
  /\ Len(o) = k => \A j \in 1..k : o[j] = b[j]
Runs(V) == [out : Seq(V), byte : V, n : Nat]
\* The writer has come to the i-th byte.
RunIs(e, b, i) == e.n \in 1..i /\ \A j \in i - e.n + 1..i : b[j] = e.byte
Precedes(s, b, k, V) == \E o \in Seq(V) : Written(s, V, o) /\ Fits(o, b, k)
Writes(e, b, i, p, V) == e \in Runs(V) /\ RunIs(e, b, i) /\ Precedes(p \o e.out, b, i - e.n, V)

\* Three sequences are one, joined in either order.
Joins(a, b, c) == (a \o b) \o c = a \o (b \o c)
LEMMA JoinsAlike == ASSUME NEW V, NEW a \in Seq(V), NEW b \in Seq(V), NEW c \in Seq(V) PROVE Joins(a, b, c)
BY ConcatAssociative DEF Joins

\* The run under way adds its bytes.
LEMMA EmitFits ==
  ASSUME BytesAssumption, NEW V, Nat \subseteq V, NEW b \in Seq(V), NEW p \in Seq(V),
         NEW i \in 1..Len(b), NEW e, Writes(e, b, i, p, V)
  PROVE  /\ e.out \o Emit(e.n, e.byte) \in Seq(V)
         /\ \E o \in Seq(V) : Written(p \o (e.out \o Emit(e.n, e.byte)), V, o) /\ Fits(o, b, i)
<1> DEFINE n == e.n
           x == e.byte
           w == Emit(n, x)
           D3 == Digit * Digit * Digit
<1>1. n \in Nat /\ n \in 1..i /\ x \in V /\ e.out \in Seq(V) /\ \A j \in i - n + 1..i : b[j] = x
  BY DEF Writes, Runs, RunIs
<1>2. PICK o \in Seq(V) : Written(p \o e.out, V, o) /\ Fits(o, b, i - n) BY DEF Writes, Precedes
<1> HIDE DEF n, x
<1>3. PICK v : Reads(n, v) BY <1>1, VarintIs
<1>4. v \in 0..n /\ (n < D3 => v = n) BY <1>3 DEF Reads
<1>5. w \in Seq(V) BY <1>1, EmitIs DEF EndsWith
<1> DEFINE c == [k \in 1..v |-> x]
<1>6. c \in Seq(V) /\ Len(c) = v /\ \A k \in 1..v : c[k] = x
  <2>1. v \in Nat BY <1>1, <1>4
  <2> QED BY <1>1, <2>1, CopiesAre
<1> HIDE DEF w, c
<1>7. p \o e.out \in Seq(V) /\ e.out \o w \in Seq(V) BY <1>1, <1>5, ConcatProperties
<1> DEFINE r == e.out
           s == p \o r
<1>8. s \o w = p \o (r \o w)
  <2>1. r \in Seq(V) BY <1>1
  <2>2. p \in Seq(V) /\ w \in Seq(V) BY <1>5
  <2> HIDE DEF r
  <2>3. Joins(p, r, w) BY <2>1, <2>2, JoinsAlike
  <2> QED BY <2>3 DEF Joins
<1>9. Written(p \o (e.out \o w), V, o \o c)
  <2>1. s \in Seq(V) /\ Written(s, V, o) BY <1>2, <1>7
  <2> HIDE DEF s
  <2>2. Written(s \o Emit(n, x), V, o \o [k \in 1..v |-> x]) BY <1>1, <1>3, <2>1, WrittenMore
  <2> QED BY <1>8, <2>2 DEF w, c
<1>10. /\ o \o c \in Seq(V) /\ Len(o \o c) = Len(o) + v
       /\ \A j \in 1..Len(o) + v : (o \o c)[j] = IF j <= Len(o) THEN o[j] ELSE c[j - Len(o)]
  BY <1>6, ConcatProperties
<1>11. Len(o) \in Nat /\ Len(b) \in Nat /\ v \in Nat /\ i \in Nat /\ i - n \in Nat
  <2>1. Len(o) \in Nat /\ Len(b) \in Nat BY LenProperties
  <2> QED BY <1>1, <1>4, <2>1
<1> DEFINE l == Len(o)
<1>12. l <= i - n /\ (~HasLong(b) => l = i - n) /\ (l = i - n => \A j \in 1..i - n : o[j] = b[j])
  BY <1>2 DEF Fits
<1>13. l + v <= i /\ (l + v = i => l = i - n /\ v = n)
  <2>1. l \in Nat BY <1>11
  <2> HIDE DEF l
  <2> QED BY <1>1, <1>4, <1>11, <1>12, <2>1
<1>14. ASSUME l + v = i PROVE \A j \in 1..i : (o \o c)[j] = b[j]
  <2> TAKE j \in 1..i
  <2>1. l = i - n /\ v = n /\ l \in Nat BY <1>11, <1>13, <1>14
  <2>2. j \in 1..l + v /\ j \in Nat BY <1>14
  <2>3. CASE j <= l
    <3>1. (o \o c)[j] = o[j] BY <1>10, <2>2, <2>3
    <3> HIDE DEF l
    <3>2. j \in 1..i - n BY <2>1, <2>2, <2>3
    <3> QED BY <1>12, <2>1, <3>1, <3>2
  <2>4. CASE ~(j <= l)
    <3>1. (o \o c)[j] = c[j - l] BY <1>10, <2>2, <2>4
    <3> HIDE DEF l
    <3>2. j - l \in 1..v /\ j \in i - n + 1..i BY <1>1, <1>11, <2>1, <2>2, <2>4
    <3> QED BY <1>1, <1>6, <3>1, <3>2
  <2> QED BY <2>3, <2>4
<1>15. ASSUME ~HasLong(b) PROVE l + v = i
  <2>1. D3 \in Nat /\ D3 > 0
    <3>1. Digit \in Nat \ {0} BY DigitsAre
    <3>2. Digit * Digit \in Nat /\ 1 * Digit <= Digit * Digit BY <3>1, Grows
    <3>3. 1 * Digit <= (Digit * Digit) * Digit /\ (Digit * Digit) * Digit \in Nat BY <3>1, <3>2, Grows
    <3> QED BY <3>1, <3>3
  <2> HIDE DEF D3
  <2>2. n < D3
    <3> SUFFICES ASSUME ~(n < D3) PROVE FALSE
      OBVIOUS
    <3>1. i - n \in 0..Len(b) - D3 BY <1>1, <1>11, <2>1
    <3>2. \A j \in 1..D3 : (i - n) + j \in i - n + 1..i BY <1>1, <1>11, <2>1
    <3>3. \A j \in 1..D3 : b[(i - n) + j] = x BY <1>1, <3>2
    <3>4. 1 \in 1..D3 BY <2>1
    <3>5. \A j \in 1..D3 : b[(i - n) + j] = b[(i - n) + 1] BY <3>3, <3>4
    <3> QED BY <1>15, <3>1, <3>5 DEF HasLong, D3
  <2>3. v = n /\ l = i - n /\ l \in Nat BY <1>4, <1>11, <1>12, <1>15, <2>2
  <2> HIDE DEF l
  <2> QED BY <1>1, <1>11, <2>3
<1>16. Fits(o \o c, b, i) BY <1>10, <1>13, <1>14, <1>15 DEF Fits
<1> QED BY <1>7, <1>9, <1>10, <1>16 DEF w, n, x

\* The writer goes on by one byte.
LEMMA AddKeeps ==
  ASSUME BytesAssumption, NEW V, Nat \subseteq V, NEW b \in Seq(V), NEW p \in Seq(V),
         NEW i \in 1..Len(b), i + 1 <= Len(b), NEW e, Writes(e, b, i, p, V)
  PROVE  Writes(AddByte(e, b[i + 1]), b, i + 1, p, V)
<1> DEFINE n == e.n
           x == e.byte
           y == b[i + 1]
<1>1. e \in Runs(V) /\ n \in Nat /\ n \in 1..i /\ x \in V /\ e.out \in Seq(V) /\ \A j \in i - n + 1..i : b[j] = x
  BY DEF Writes, Runs, RunIs
<1>2. Len(b) \in Nat /\ i \in Nat /\ i + 1 \in 1..Len(b) BY LenProperties
<1>3. y \in V BY <1>2, ElementOfSeq
<1>0. PICK f : f = AddByte(e, b[i + 1]) OBVIOUS
<1>4. CASE x = y /\ n < RunLimit
  <2>1. f = [e EXCEPT !.n = @ + 1] BY <1>0, <1>4 DEF AddByte
  <2>2. f \in Runs(V) /\ f.n = n + 1 /\ f.byte = x /\ f.out = e.out
    <3>1. e \in [out : Seq(V), byte : V, n : Nat] BY <1>1 DEF Runs
    <3>2. e.n + 1 \in Nat BY <1>1
    <3> HIDE DEF x, n
    <3>3. f \in [out : Seq(V), byte : V, n : Nat] BY <2>1, <3>1, <3>2
    <3>4. f.n = e.n + 1 BY <2>1, <3>1
    <3>5. f.byte = e.byte /\ f.out = e.out BY <2>1, <3>1
    <3> QED BY <3>3, <3>4, <3>5 DEF Runs, n, x
  <2> HIDE DEF y
  <2>3. f.n \in 1..i + 1 /\ (i + 1) - f.n = i - n
    <3>1. n \in 1..i /\ i \in Nat /\ f.n = n + 1 BY <1>1, <1>2, <2>2
    <3> HIDE DEF n
    <3>2. n + 1 \in 1..i + 1 /\ (i + 1) - (n + 1) = i - n BY <3>1
    <3> QED BY <3>1, <3>2
  <2>4. \A j \in (i + 1) - f.n + 1..i + 1 : b[j] = f.byte
    <3>1. \A j \in i - n + 1..i + 1 : j = i + 1 \/ j \in i - n + 1..i BY <1>1, <1>2
    <3>2. b[i + 1] = x BY <1>4 DEF y
    <3>3. ((i + 1) - f.n) + 1 = i - n + 1 BY <2>3
    <3> HIDE DEF n, x
    <3> QED BY <1>1, <2>2, <3>1, <3>2, <3>3
  <2>5. Precedes(p \o e.out, b, i - n, V) BY DEF Writes
  <2> HIDE DEF n, x
  <2>6. p \o f.out = p \o e.out /\ (i + 1) - f.n = i - n BY <2>2, <2>3
  <2>7. Precedes(p \o f.out, b, (i + 1) - f.n, V) BY <2>5, <2>6
  <2>8. RunIs(f, b, i + 1) BY <2>3, <2>4 DEF RunIs
  <2>9. Writes(f, b, i + 1, p, V) BY <2>2, <2>7, <2>8 DEF Writes
  <2> QED BY <1>0, <2>9
<1>5. CASE ~(x = y /\ n < RunLimit)
  <2>1. f = [out |-> e.out \o Emit(n, x), byte |-> y, n |-> 1] BY <1>0, <1>5 DEF AddByte
  <2>2. /\ e.out \o Emit(n, x) \in Seq(V)
        /\ \E o \in Seq(V) : Written(p \o (e.out \o Emit(n, x)), V, o) /\ Fits(o, b, i)
    BY EmitFits
  <2>3. f \in Runs(V) /\ f.n = 1 /\ f.byte = y /\ f.out = e.out \o Emit(n, x)
    <3> HIDE DEF n, x, y
    <3> QED BY <1>3, <2>1, <2>2 DEF Runs
  <2>4. f.n \in 1..i + 1 /\ (i + 1) - f.n = i /\ ((i + 1) - f.n) + 1 = i + 1 BY <1>2, <2>3
  <2>5. \A j \in (i + 1) - f.n + 1..i + 1 : b[j] = f.byte
    <3>1. \A j \in i + 1..i + 1 : j = i + 1 BY <1>2
    <3> QED BY <2>3, <2>4, <3>1
  <2> HIDE DEF n, x, y
  <2>6. Precedes(p \o f.out, b, (i + 1) - f.n, V)
    <3>1. Precedes(p \o (e.out \o Emit(n, x)), b, i, V) BY <2>2 DEF Precedes
    <3> QED BY <2>3, <2>4, <3>1
  <2>7. RunIs(f, b, i + 1) BY <2>4, <2>5 DEF RunIs
  <2>8. Writes(f, b, i + 1, p, V) BY <2>3, <2>6, <2>7 DEF Writes
  <2> QED BY <1>0, <2>8
<1> QED BY <1>4, <1>5

\* What is written of b behind p is read as b, or as less than b.
LEMMA CompressIs ==
  ASSUME BytesAssumption, NEW V, Nat \subseteq V, NEW b \in Seq(V), NEW p \in Seq(V), Written(p, V, <<>>)
  PROVE  /\ rleCompress(b) \in Seq(V)
         /\ \E o \in Seq(V) : Written(p \o rleCompress(b), V, o) /\ Fits(o, b, Len(b))
<1>1. Len(b) \in Nat BY LenProperties
<1>2. CASE b = <<>>
  <2>1. rleCompress(b) = <<>> BY <1>2 DEF rleCompress
  <2>2. <<>> \in Seq(V) /\ p \o <<>> = p BY EmptySeq, ConcatEmptySeq
  <2>3. Len(b) = 0 BY <1>2
  <2>4. Fits(<<>>, b, Len(b)) BY <2>3 DEF Fits
  <2> QED BY <2>1, <2>2, <2>4
<1>3. CASE b # <<>>
  <2> DEFINE L == Len(b)
             b0 == [out |-> <<>>, byte |-> b[1], n |-> 1]
             g == [y \in (2..L) \X Runs(V) |-> AddByte(y[2], b[y[1]])]
             Is(h) == h = [i \in 1..L |-> IF i = 1 THEN b0 ELSE AddByte(h[i - 1], b[i])]
             h == CHOOSE h : Is(h)
  <2>1. L \in Nat /\ L >= 1 /\ 1 \in 1..L BY <1>1, <1>3, EmptySeq
  <2>2. \A i \in 1..L : b[i] \in V BY ElementOfSeq
  <2>3. b0 \in Runs(V) BY <2>1, <2>2, EmptySeq DEF Runs
  <2>4. \A r \in Runs(V), x \in V : AddByte(r, x) \in Runs(V)
    <3> TAKE r \in Runs(V), x \in V
    <3>1. r.out \in Seq(V) /\ r.byte \in V /\ r.n \in Nat BY DEF Runs
    <3>2. Emit(r.n, r.byte) \in Seq(V) BY <3>1, EmitIs DEF EndsWith
    <3>3. r.out \o Emit(r.n, r.byte) \in Seq(V) BY <3>1, <3>2, ConcatProperties
    <3>4. [r EXCEPT !.n = @ + 1] \in Runs(V) BY <3>1 DEF Runs
    <3> QED BY <3>3, <3>4 DEF AddByte, Runs
  <2>5. Steps(g, 1, L, Runs(V))
    <3>1. \A y \in (2..L) \X Runs(V) : AddByte(y[2], b[y[1]]) \in Runs(V)
      <4> TAKE y \in (2..L) \X Runs(V)
      <4>1. y[1] \in 1..L /\ y[2] \in Runs(V) BY <2>1
      <4> QED BY <2>2, <2>4, <4>1
    <3>2. 1 + 1 = 2 OBVIOUS
    <3> QED BY <3>1, <3>2 DEF Steps
  <2> HIDE DEF b0
  <2>6. PICK f : Recurs(f, b0, g, 1, L, Runs(V))
    <3> HIDE DEF g, L
    <3> QED BY <2>1, <2>3, <2>5, Recursion
  <2>7. \A i \in 1..L : f[i] = IF i = 1 THEN b0 ELSE AddByte(f[i - 1], b[i])
    <3> SUFFICES ASSUME NEW i \in 1..L, i # 1 PROVE f[i] = AddByte(f[i - 1], b[i])
      BY <2>6 DEF Recurs
    <3>1. i \in 2..L /\ i - 1 \in 1..L BY <2>1
    <3>2. f[i - 1] \in Runs(V) BY <2>6, <3>1 DEF Recurs
    <3>3. <<i, f[i - 1]>> \in (2..L) \X Runs(V) BY <3>1, <3>2
    <3>4. g[<<i, f[i - 1]>>] = AddByte(f[i - 1], b[i]) BY <3>3
    <3> HIDE DEF g
    <3> QED BY <2>6, <3>4 DEF Recurs
  <2>8. f = [i \in 1..L |-> f[i]] BY <2>6 DEF Recurs
  <2>9. Is(f) BY <2>7, <2>8
  <2>10. Is(h)
    <3> HIDE DEF Is
    <3> QED BY <2>9
  <2>11. rleCompress(b) = h[L].out \o Emit(h[L].n, h[L].byte) BY <1>3 DEF rleCompress, b0
  <2> HIDE DEF h
  <2>12. \A i \in 1..L : h[i] = IF i = 1 THEN b0 ELSE AddByte(h[i - 1], b[i]) BY <2>10
  <2> DEFINE S == {i \in Nat : i \in 1..L => Writes(h[i], b, i, p, V)}
  <2>13. 1 \in S
    <3>1. h[1] = b0 BY <2>1, <2>12
    <3>2. b0.out = <<>> /\ b0.n = 1 /\ b0.byte = b[1] BY DEF b0
    <3>3. \A j \in 1 - 1 + 1..1 : b[j] = b[1]
      <4>1. \A j \in 1 - 1 + 1..1 : j = 1 OBVIOUS
      <4> QED BY <4>1
    <3>4. Written(p \o <<>>, V, <<>>) /\ <<>> \in Seq(V) BY EmptySeq, ConcatEmptySeq
    <3>5. Fits(<<>>, b, 1 - 1) BY DEF Fits
    <3>6. 1 - b0.n = 1 - 1 /\ b0.n \in 1..1 BY <3>2
    <3>7. \A j \in 1 - b0.n + 1..1 : b[j] = b0.byte BY <3>2, <3>3
    <3>8. Precedes(p \o b0.out, b, 1 - b0.n, V)
      <4>1. Precedes(p \o <<>>, b, 1 - 1, V) BY <3>4, <3>5 DEF Precedes
      <4> QED BY <3>2, <3>6, <4>1
    <3>9. RunIs(b0, b, 1) BY <3>6, <3>7 DEF RunIs
    <3>10. Writes(b0, b, 1, p, V) BY <2>3, <3>8, <3>9 DEF Writes
    <3> QED BY <2>1, <3>1, <3>10
  <2>14. ASSUME NEW i \in 1 + 1..L, i - 1 \in S PROVE i \in S
    <3>1. i - 1 \in 1..L /\ i \in 1..L /\ i # 1 /\ i \in Nat /\ (i - 1) + 1 = i BY <2>1
    <3>2. Writes(h[i - 1], b, i - 1, p, V) BY <2>14, <3>1
    <3>3. Writes(AddByte(h[i - 1], b[i]), b, i, p, V)
      <4> DEFINE k == i - 1
      <4>1. k \in 1..Len(b) /\ k + 1 <= Len(b) /\ k + 1 = i BY <2>1, <3>1
      <4>2. Writes(h[k], b, k, p, V) BY <3>2
      <4> HIDE DEF k
      <4>3. Writes(AddByte(h[k], b[k + 1]), b, k + 1, p, V) BY <4>1, <4>2, AddKeeps
      <4> QED BY <4>1, <4>3 DEF k
    <3>4. h[i] = AddByte(h[i - 1], b[i]) BY <2>12, <3>1
    <3> QED BY <3>1, <3>3, <3>4
  <2> HIDE DEF S
  <2>15. 1..L \subseteq S BY <2>1, <2>13, <2>14, Upward
  <2>16. L \in S /\ L \in 1..L BY <2>1, <2>15
  <2>17. Writes(h[L], b, L, p, V) BY <2>16 DEF S
  <2>18. /\ h[L].out \o Emit(h[L].n, h[L].byte) \in Seq(V)
         /\ \E o \in Seq(V) : Written(p \o (h[L].out \o Emit(h[L].n, h[L].byte)), V, o) /\ Fits(o, b, L)
    BY <2>16, <2>17, EmitFits
  <2> QED BY <2>11, <2>18
<1> QED BY <1>2, <1>3

\* Every level begins a byte, and has a number of one byte.
LevelsFit == (Width * Height) % ByteBits = 0 /\ Depth <= Byte

\* The bytes of the overlay, and the values in a stream.
ByteCount == (Size + ByteBits - 1) \div ByteBits
Values(ov) == Nat \cup {Bytes(ov)[i] : i \in 1..ByteCount}

\* The bytes of an overlay are a sequence.
LEMMA BytesAre ==
  ASSUME DimensionsAssumption, BytesAssumption, NEW ov
  PROVE  Bytes(ov) \in Seq(Values(ov)) /\ Len(Bytes(ov)) = ByteCount /\ ByteCount \in Nat /\ Nat \subseteq Values(ov)
<1> DEFINE N == ByteCount
           V == Values(ov)
           b == Bytes(ov)
<1>1. N \in Nat
  <2>1. Size \in Nat /\ ByteBits \in Nat \ {0} BY BitIs DEF BytesAssumption
  <2>2. Size + ByteBits - 1 \in Nat BY <2>1
  <2> QED BY <2>1, <2>2, DividedAll DEF ByteCount
<1>2. DOMAIN b = 1..N /\ b = [i \in 1..N |-> b[i]] BY DEF Bytes, ByteCount
<1>3. Nat \subseteq V /\ \A i \in 1..N : b[i] \in V BY DEF Values
<1> HIDE DEF b, V, N
<1>4. b \in [1..N -> V] BY <1>2, <1>3
<1>5. b \in Seq(V) BY <1>1, <1>4, SeqDef
<1>6. Len(b) = N
  <2>1. Len(b) \in Nat /\ DOMAIN b = 1..Len(b) BY <1>5, LenProperties
  <2> QED BY <1>1, <1>2, <2>1
<1> QED BY <1>1, <1>3, <1>5, <1>6 DEF b, V, N

\* A sequence that fits to the end is the whole.
LEMMA WholeIs ==
  ASSUME NEW V, NEW b \in Seq(V), NEW o \in Seq(V), Fits(o, b, Len(b)), Len(o) = Len(b)
  PROVE  o = b
BY SeqEqual DEF Fits

\* A copy of the whole map is the map, or refused because of a long run.
LEMMA FullCopyIs ==
  ASSUME DimensionsAssumption, BytesAssumption, NEW ov
  PROVE  \/ Decompress(ov, Compress(ov, "full", 0, 0)) = Bytes(ov)
         \/ Decompress(ov, Compress(ov, "full", 0, 0)) = <<"error">> /\ HasLong(Bytes(ov))
<1> DEFINE V == Values(ov)
           b == Bytes(ov)
           s == rleCompress(b)
<1>1. b \in Seq(V) /\ Nat \subseteq V BY BytesAre
<1>2. Compress(ov, "full", 0, 0) = s BY DEF Compress
<1> HIDE DEF V, b, s
<1>3. <<>> \in Seq(V) /\ Written(<<>>, V, <<>>) BY EmptySeq, WrittenNone
<1>4. s \in Seq(V) /\ \E o \in Seq(V) : Written(<<>> \o s, V, o) /\ Fits(o, b, Len(b))
  BY <1>1, <1>3, CompressIs DEF s
<1>5. <<>> \o s = s BY <1>4, ConcatEmptySeq
<1>6. PICK o \in Seq(V) : Written(s, V, o) /\ Fits(o, b, Len(b)) BY <1>4, <1>5
<1>7. Decoded(s) = o BY <1>1, <1>4, <1>6, DecodedIs
<1>8. CASE Len(o) = Len(b)
  <2>1. o = b BY <1>1, <1>6, <1>8, WholeIs
  <2>2. Decompress(ov, s) = o BY <1>7, <1>8 DEF Decompress, b
  <2> QED BY <1>2, <2>1, <2>2 DEF b
<1>9. CASE Len(o) # Len(b)
  <2>1. HasLong(b) BY <1>6, <1>9 DEF Fits
  <2>2. Decompress(ov, s) = <<"error">> BY <1>7, <1>9 DEF Decompress, b
  <2> QED BY <1>2, <2>1, <2>2 DEF b
<1> QED BY <1>8, <1>9

\* The levels around a centre follow each other.
Follow(levels, lo) ==
  /\ levels \in Seq(Nat) /\ lo \in Nat /\ Len(levels) \in Nat /\ lo + Len(levels) <= Depth
  /\ \A i \in 1..Len(levels) : levels[i] = lo + i - 1

\* Those around a centre do.
LEMMA LevelsFollow ==
  ASSUME DimensionsAssumption, NEW centre \in 0..Depth - 1, NEW radius \in 0..Depth - 1
  PROVE  \E lo : Follow(ActiveLevels(centre, radius), lo)
<1> DEFINE lo == Max({centre - radius, 0})
           hi == Min({centre + radius, Depth - 1})
           n == hi - lo + 1
           levels == [i \in 1..n |-> lo + i - 1]
<1>1. Depth \in Nat /\ centre \in Nat /\ radius \in Nat /\ centre <= Depth - 1 BY DEF DimensionsAssumption
<1>2. lo \in Nat /\ lo <= centre
  <2> DEFINE S == {centre - radius, 0}
             m == IF centre - radius < 0 THEN 0 ELSE centre - radius
  <2>1. m \in S /\ (\A x \in S : x \in Int /\ m >= x) /\ m <= centre /\ m \in Nat BY <1>1
  <2> HIDE DEF S, m
  <2>2. Max(S) \in S /\ \A y \in S : Max(S) >= y BY <2>1, LargestOf
  <2>3. m >= Max(S) /\ Max(S) >= m /\ Max(S) \in Int /\ m \in Int BY <2>1, <2>2
  <2>4. Max(S) = m BY <2>3
  <2> QED BY <2>1, <2>4 DEF S
<1>3. hi \in Nat /\ centre <= hi /\ hi <= Depth - 1
  <2> DEFINE S == {centre + radius, Depth - 1}
             m == IF centre + radius < Depth - 1 THEN centre + radius ELSE Depth - 1
  <2>1. m \in S /\ (\A x \in S : x \in Int /\ m =< x) /\ centre <= m /\ m <= Depth - 1 /\ m \in Nat BY <1>1
  <2> HIDE DEF S, m
  <2>2. Min(S) \in S /\ \A y \in S : Min(S) <= y BY <2>1, LeastIs
  <2>3. m <= Min(S) /\ Min(S) <= m /\ Min(S) \in Int /\ m \in Int BY <2>1, <2>2
  <2>4. Min(S) = m BY <2>3
  <2> QED BY <2>1, <2>4 DEF S
<1>4. ActiveLevels(centre, radius) = levels BY DEF ActiveLevels
<1> HIDE DEF lo, hi
<1>5. n \in Nat /\ lo + n <= Depth BY <1>1, <1>2, <1>3
<1> HIDE DEF n
<1>6. levels \in [1..n -> Nat] /\ DOMAIN levels = 1..n /\ \A i \in 1..n : levels[i] = lo + i - 1
  BY <1>2, <1>5
<1> HIDE DEF levels
<1>7. levels \in Seq(Nat) BY <1>5, <1>6, SeqDef
<1>8. Len(levels) = n
  <2>1. Len(levels) \in Nat /\ DOMAIN levels = 1..Len(levels) BY <1>7, LenProperties
  <2> QED BY <1>5, <1>6, <2>1
<1>9. Follow(levels, lo) BY <1>2, <1>5, <1>6, <1>7, <1>8 DEF Follow
<1> QED BY <1>4, <1>9

\* Read as runs, the list of levels makes nothing.
LEMMA ListIs ==
  ASSUME DimensionsAssumption, BytesAssumption, LevelsFit, NEW V, Nat \subseteq V, NEW levels, NEW lo, Follow(levels, lo)
  PROVE  LevelList(levels) \in Seq(V) /\ Written(LevelList(levels), V, <<>>)
<1> DEFINE L == Len(levels)
           T(k) == [j \in 1..2 * k |-> IF j % 2 = 1 THEN 0 ELSE levels[j \div 2]]
<1>1. /\ L \in Nat /\ lo \in Nat /\ lo + L <= Depth /\ Depth <= Byte /\ Byte \in Nat \ {0} /\ Depth \in Nat
      /\ \A i \in 1..L : levels[i] = lo + i - 1
  BY DigitsAre DEF Follow, LevelsFit, DimensionsAssumption
<1> HIDE DEF L
<1>2. \A i \in 1..L : levels[i] \in Nat /\ levels[i] \div Byte = 0 /\ levels[i] % Byte = levels[i]
  <2> TAKE i \in 1..L
  <2>1. levels[i] \in 0..Byte - 1 /\ levels[i] \in Nat BY <1>1
  <2> DEFINE l == levels[i]
  <2>2. l \in 0..Byte - 1 BY <2>1
  <2> HIDE DEF l
  <2>3. Compound(Byte, 0, l) = l BY <1>1, <2>2 DEF Compound
  <2>4. l \div Byte = 0 /\ l % Byte = l
    <3>1. Byte \in Nat \ {0} /\ 0 \in Nat BY <1>1
    <3>2. Compound(Byte, 0, l) \div Byte = 0 /\ Compound(Byte, 0, l) % Byte = l BY <2>2, <3>1, Divided
    <3> QED BY <2>3, <3>2
  <2> QED BY <2>1, <2>4 DEF l
<1>3. LevelList(levels) = T(L)
  <2>1. ASSUME NEW j \in 1..2 * L
        PROVE  (IF j % 2 = 1 THEN levels[(j + 1) \div 2] \div Byte ELSE levels[j \div 2] % Byte)
               = IF j % 2 = 1 THEN 0 ELSE levels[j \div 2]
    <3>1. j \in Nat /\ j >= 1 /\ j <= 2 * L BY <1>1
    <3>2. j % 2 = 1 => (j + 1) \div 2 \in 1..L BY <1>1, <3>1
    <3>3. j % 2 # 1 => j \div 2 \in 1..L BY <1>1, <3>1
    <3> QED BY <1>2, <3>2, <3>3
  <2> QED BY <2>1 DEF LevelList, L
<1> DEFINE S == {k \in Nat : k \in 0..L => T(k) \in Seq(V) /\ Written(T(k), V, <<>>)}
<1>4. 0 \in S
  <2>1. 1..2 * 0 = {} OBVIOUS
  <2>2. T(0) = <<>> BY <2>1
  <2> HIDE DEF T
  <2> QED BY <2>2, EmptySeq, WrittenNone
<1>5. ASSUME NEW k \in 0 + 1..L, k - 1 \in S PROVE k \in S
  <2> DEFINE m == k - 1
             x == levels[k]
             a == T(m)
             e == Emit(0, x)
             t == a \o e
  <2>1. k \in 1..L /\ k \in Nat /\ m \in Nat /\ m \in 0..L /\ k = m + 1 /\ 2 * k = 2 * m + 2 BY <1>1
  <2>2. x \in V /\ x \in Nat BY <1>2, <2>1
  <2>3. a \in Seq(V) /\ Written(a, V, <<>>) BY <1>5, <2>1
  <2>4. EndsWith(e, <<0>>, x, V)
    <3>1. writeVarint(0) = <<0>> BY DigitsAre DEF writeVarint
    <3>2. 0 \in Nat OBVIOUS
    <3> HIDE DEF x
    <3> QED BY <2>2, <3>1, <3>2, EmitIs
  <2>5. Len(a) = 2 * m /\ \A j \in 1..2 * m : a[j] = IF j % 2 = 1 THEN 0 ELSE levels[j \div 2]
    <3>1. DOMAIN a = 1..2 * m OBVIOUS
    <3>2. \A j \in 1..2 * m : a[j] = IF j % 2 = 1 THEN 0 ELSE levels[j \div 2] OBVIOUS
    <3> HIDE DEF a
    <3>3. Len(a) \in Nat /\ DOMAIN a = 1..Len(a) BY <2>3, LenProperties
    <3>4. 2 * m \in Nat BY <2>1
    <3> HIDE DEF m
    <3>5. Len(a) = 2 * m BY <3>1, <3>3, <3>4
    <3> QED BY <3>2, <3>5
  <2> HIDE DEF a, x, T
  <2>6. e \in Seq(V) /\ Len(e) = 2 /\ e[1] = 0 /\ e[2] = x
    <3>1. Len(<<0>>) = 1 /\ <<0>>[1] = 0 OBVIOUS
    <3>2. 1 \in 1..Len(<<0>>) BY <3>1
    <3> HIDE DEF e
    <3> QED BY <2>4, <3>1, <3>2 DEF EndsWith
  <2> HIDE DEF e, m
  <2>7. /\ t \in Seq(V) /\ Len(t) = 2 * k
        /\ \A j \in 1..2 * k : t[j] = IF j <= 2 * m THEN a[j] ELSE e[j - 2 * m]
    <3>1. /\ a \o e \in Seq(V) /\ Len(a \o e) = Len(a) + Len(e)
          /\ \A j \in 1..Len(a) + Len(e) : (a \o e)[j] = IF j <= Len(a) THEN a[j] ELSE e[j - Len(a)]
      BY <2>3, <2>6, ConcatProperties
    <3>2. Len(a) = 2 * m /\ Len(e) = 2 /\ 2 * k = 2 * m + 2 BY <2>1, <2>5, <2>6
    <3> HIDE DEF t
    <3>3. t \in Seq(V) /\ Len(t) = Len(a) + Len(e) BY <3>1 DEF t
    <3>4. \A j \in 1..Len(a) + Len(e) : t[j] = IF j <= Len(a) THEN a[j] ELSE e[j - Len(a)] BY <3>1 DEF t
    <3> QED BY <3>2, <3>3, <3>4
  <2> HIDE DEF t
  <2>8. \A j \in 1..2 * k : t[j] = IF j % 2 = 1 THEN 0 ELSE levels[j \div 2]
    <3> TAKE j \in 1..2 * k
    <3>1. CASE j <= 2 * m
      <4>1. j \in 1..2 * m BY <2>1, <3>1
      <4> QED BY <2>5, <2>7, <3>1, <4>1
    <3>2. CASE j = 2 * m + 1
      <4>1. ~(j <= 2 * m) /\ j - 2 * m = 1 /\ j % 2 = 1 BY <2>1, <3>2
      <4> QED BY <2>6, <2>7, <4>1
    <3>3. CASE j = 2 * m + 2
      <4>1. ~(j <= 2 * m) /\ j - 2 * m = 2 /\ ~(j % 2 = 1) /\ j \div 2 = k BY <2>1, <3>3
      <4> QED BY <2>6, <2>7, <4>1 DEF x
    <3> QED BY <2>1, <3>1, <3>2, <3>3
  <2>9. t = T(k)
    <3>1. DOMAIN t = 1..2 * k BY <2>7, LenProperties
    <3>2. t = [j \in 1..2 * k |-> t[j]]
      <4>1. t \in [1..2 * k -> V] BY <2>7, LenProperties
      <4> QED BY <4>1
    <3> QED BY <2>8, <3>2 DEF T
  <2>10. Written(t, V, <<>>)
    <3>1. PICK v : Reads(0, v) BY VarintIs
    <3>2. v = 0 BY <3>1 DEF Reads
    <3>3. Written(a \o Emit(0, x), V, <<>> \o [i \in 1..v |-> x])
      <4> DEFINE o == <<>>
      <4>1. Written(a, V, o) /\ a \in Seq(V) /\ 0 \in Nat /\ x \in V BY <2>2, <2>3
      <4> HIDE DEF o
      <4>2. Written(a \o Emit(0, x), V, o \o [i \in 1..v |-> x]) BY <3>1, <4>1, WrittenMore
      <4> QED BY <4>2 DEF o
    <3>4. [i \in 1..v |-> x] = <<>>
      <4>1. 1..v = {} BY <3>2
      <4> QED BY <4>1
    <3>5. <<>> \o <<>> = <<>> OBVIOUS
    <3> QED BY <3>3, <3>4, <3>5 DEF t, e
  <2> QED BY <2>1, <2>7, <2>9, <2>10
<1> HIDE DEF S, T
<1>6. 0..L \subseteq S BY <1>1, <1>4, <1>5, Upward
<1>7. L \in S BY <1>1, <1>6
<1> QED BY <1>1, <1>3, <1>7 DEF S

\* When levels begin a byte, the overlay has the bytes of its levels.
LEMMA LevelBytes ==
  ASSUME DimensionsAssumption, BytesAssumption, LevelsFit
  PROVE  PerLevel \in Nat /\ ByteCount = Depth * PerLevel
<1> DEFINE B == ByteBits
           A == Width * Height
           q == A \div B
<1>1. B \in Nat \ {0} /\ A \in Nat /\ Depth \in Nat BY DEF BytesAssumption, DimensionsAssumption
<1>2. A % B = 0 BY DEF LevelsFit
<1>3. Size = A * Depth BY DEF Size
<1> HIDE DEF A, B
<1>4. q \in Nat /\ A = Compound(B, q, 0) BY <1>1, <1>2, DividedAll
<1> HIDE DEF q
<1>5. q * B \in Nat /\ A = q * B BY <1>1, <1>4 DEF Compound
<1>6. B - 1 \in 0..B - 1 BY <1>1
<1>7. PerLevel = q
  <2>1. A + B - 1 = Compound(B, q, B - 1) BY <1>1, <1>5 DEF Compound
  <2>2. Compound(B, q, B - 1) \div B = q BY <1>1, <1>4, <1>6, Divided
  <2> QED BY <2>1, <2>2 DEF PerLevel, A, B
<1>8. ByteCount = q * Depth
  <2>1. q * Depth \in Nat BY <1>1, <1>4
  <2>2. Size = (q * Depth) * B
    <3>1. (q * B) * Depth = (q * Depth) * B BY <1>1, <1>4
    <3> QED BY <1>3, <1>5, <3>1
  <2> DEFINE d == q * Depth
  <2>3. Size + B - 1 = Compound(B, d, B - 1)
    <3>1. d * B \in Nat BY <1>1, <2>1
    <3> HIDE DEF d
    <3> QED BY <1>1, <2>2, <3>1 DEF Compound, d
  <2>4. Compound(B, d, B - 1) \div B = d BY <1>1, <1>6, <2>1, Divided
  <2> QED BY <2>3, <2>4 DEF ByteCount, B
<1>9. q * Depth = Depth * q BY <1>1, <1>4
<1> QED BY <1>4, <1>7, <1>8, <1>9

\* Levels that follow each other are a part of the bytes, all of them if it is as long.
LEMMA ExtractIs ==
  ASSUME DimensionsAssumption, BytesAssumption, LevelsFit, NEW V, NEW b \in Seq(V), Len(b) = ByteCount,
         NEW levels, NEW lo, Follow(levels, lo)
  PROVE  LET x == extractZLevels(b, levels)
         IN x \in Seq(V) /\ Len(x) <= Len(b) /\ (Len(x) = Len(b) => x = b)
<1> DEFINE P == PerLevel
           L == Len(levels)
           n == L * P
           k == lo * P
           x == extractZLevels(b, levels)
<1>1. P \in Nat /\ Len(b) = Depth * P BY LevelBytes
<1>2. /\ L \in Nat /\ lo \in Nat /\ lo + L <= Depth /\ Depth \in Nat
      /\ \A i \in 1..L : levels[i] = lo + i - 1
  BY DEF Follow, DimensionsAssumption
<1> HIDE DEF P, L
<1>3. n \in Nat /\ k \in Nat BY <1>1, <1>2
<1>4. k + n <= Len(b) /\ Len(b) \in Nat
  <2>1. (lo + L) * P <= Depth * P BY <1>1, <1>2, Grows
  <2>2. (lo + L) * P = k + n BY <1>1, <1>2
  <2>3. Len(b) \in Nat BY LenProperties
  <2> QED BY <1>1, <2>1, <2>2, <2>3
<1>5. ASSUME NEW i \in 1..n
      PROVE  b[levels[(i - 1) \div P + 1] * P + ((i - 1) % P) + 1] = b[k + i]
  <2> DEFINE j == i - 1
             q == j \div P
             r == j % P
  <2>1. j \in Nat /\ j < n BY <1>3, <1>5
  <2>2. P # 0
    <3>1. P = 0 => n = 0 BY <1>2
    <3> HIDE DEF n, j
    <3> QED BY <1>3, <2>1, <3>1
  <2> HIDE DEF j
  <2>3. q \in Nat /\ r \in 0..P - 1 /\ j = Compound(P, q, r) BY <1>1, <2>1, <2>2, DividedAll
  <2> HIDE DEF q, r
  <2>4. q < L
    <3>1. Compound(P, q, r) < L * P /\ r \in Nat BY <1>1, <2>1, <2>3
    <3> QED BY <1>1, <1>2, <2>3, <3>1, SmallerQuotient
  <2>5. levels[q + 1] = lo + q
    <3>1. q + 1 \in 1..L /\ lo + (q + 1) - 1 = lo + q BY <1>2, <2>3, <2>4
    <3> QED BY <1>2, <3>1
  <2>6. (lo + q) * P + r + 1 = k + i
    <3>1. (lo + q) * P = k + q * P /\ q * P \in Nat BY <1>1, <1>2, <2>3
    <3>2. i - 1 = q * P + r BY <2>3 DEF Compound, j
    <3> DEFINE m == q * P
    <3>3. (lo + q) * P = k + m /\ m \in Nat /\ i - 1 = m + r BY <3>1, <3>2
    <3> HIDE DEF k, m
    <3> QED BY <1>1, <1>3, <1>5, <2>3, <3>3
  <2>7. levels[q + 1] * P + r + 1 = k + i BY <2>5, <2>6
  <2> QED BY <2>7 DEF q, r, j
<1>6. x = [i \in 1..n |-> b[k + i]]
  <2>1. x = [i \in 1..n |-> b[levels[(i - 1) \div P + 1] * P + ((i - 1) % P) + 1]]
    BY DEF extractZLevels, P, L
  <2> HIDE DEF x, n, k
  <2> QED BY <1>5, <2>1
<1> HIDE DEF x, n, k
<1>7. \A i \in 1..n : b[k + i] \in V
  <2> TAKE i \in 1..n
  <2>1. k + i \in 1..Len(b) BY <1>3, <1>4
  <2> QED BY <2>1, ElementOfSeq
<1>8. x \in [1..n -> V] /\ DOMAIN x = 1..n BY <1>6, <1>7
<1>9. x \in Seq(V) BY <1>3, <1>8, SeqDef
<1>10. Len(x) = n
  <2>1. Len(x) \in Nat /\ DOMAIN x = 1..Len(x) BY <1>9, LenProperties
  <2> QED BY <1>3, <1>8, <2>1
<1>11. ASSUME n = Len(b) PROVE x = b
  <2>1. k = 0 BY <1>3, <1>4, <1>11
  <2>2. \A i \in 1..n : x[i] = b[k + i] /\ k + i = i BY <1>3, <1>6, <2>1
  <2>3. \A i \in 1..Len(x) : x[i] = b[i] BY <1>10, <2>2
  <2> QED BY <1>9, <1>10, <1>11, <2>3, SeqEqual
<1>12. n <= Len(b) BY <1>3, <1>4
<1> QED BY <1>9, <1>10, <1>11, <1>12 DEF x

\* A copy of some levels is the map or refused.
LEMMA LevelCopyIs ==
  ASSUME DimensionsAssumption, BytesAssumption, LevelsFit, NEW ov,
         NEW centre \in 0..Depth - 1, NEW radius \in 0..Depth - 1
  PROVE  Decompress(ov, Compress(ov, "active_z_levels", centre, radius)) \in {Bytes(ov), <<"error">>}
<1> DEFINE V == Values(ov)
           b == Bytes(ov)
           levels == ActiveLevels(centre, radius)
           p == LevelList(levels)
           x == extractZLevels(b, levels)
           s == p \o rleCompress(x)
<1>1. b \in Seq(V) /\ Nat \subseteq V /\ Len(b) = ByteCount BY BytesAre
<1>2. Compress(ov, "active_z_levels", centre, radius) = s BY DEF Compress
<1>3. PICK lo : Follow(levels, lo) BY LevelsFollow
<1> HIDE DEF V, b, levels
<1>4. p \in Seq(V) /\ Written(p, V, <<>>) BY <1>1, <1>3, ListIs
<1>5. x \in Seq(V) /\ Len(x) <= Len(b) /\ (Len(x) = Len(b) => x = b) BY <1>1, <1>3, ExtractIs
<1> HIDE DEF p, x
<1>6. rleCompress(x) \in Seq(V) /\ \E o \in Seq(V) : Written(p \o rleCompress(x), V, o) /\ Fits(o, x, Len(x))
  BY <1>1, <1>4, <1>5, CompressIs
<1>7. PICK o \in Seq(V) : Written(s, V, o) /\ Fits(o, x, Len(x)) BY <1>6
<1>8. s \in Seq(V) BY <1>4, <1>6, ConcatProperties
<1> HIDE DEF s
<1>9. Decoded(s) = o BY <1>1, <1>7, <1>8, DecodedIs
<1>10. CASE Len(o) = Len(b)
  <2>1. Len(o) <= Len(x) /\ Len(x) \in Nat /\ Len(b) \in Nat BY <1>1, <1>5, <1>7, LenProperties DEF Fits
  <2>2. Len(o) = Len(x) /\ Len(x) = Len(b) BY <1>5, <1>10, <2>1
  <2>3. o = x BY <1>5, <1>7, <2>2, WholeIs
  <2>4. Decompress(ov, s) = o BY <1>9, <1>10 DEF Decompress, b
  <2> QED BY <1>2, <1>5, <2>2, <2>3, <2>4 DEF b
<1>11. CASE Len(o) # Len(b)
  <2>1. Decompress(ov, s) = <<"error">> BY <1>9, <1>11 DEF Decompress, b
  <2> QED BY <1>2, <2>1
<1> QED BY <1>10, <1>11

----------------------------------------------------------------------------
\* At every moment all ways of asking for tiles give what the overlay was last told
\* of them: one by one, counted, by level and by box; and a compressed copy of the
\* whole map is the map, unless a run is too long for its digits (Topology,
\* overlay.go, query.go and compression.go).
THEOREM MapTiles == TopoSpec => [](TilesAgree /\ FullCopyAgrees)
<1>1. IInv => TilesAgree BY MapAssumption, TilesAreTold DEF IInv, OverlaysShow
<1>2. FullCopyAgrees
  <2>1. \/ Decompress(topo, Compress(topo, "full", 0, 0)) = Bytes(topo)
        \/ Decompress(topo, Compress(topo, "full", 0, 0)) = <<"error">> /\ HasLong(Bytes(topo))
    BY MapAssumption, FullCopyIs
  <2> QED BY <2>1 DEF FullCopyAgrees, HasLong
<1> QED BY <1>1, <1>2, MapInvariant, PTL

\* On a map of whole blocks, of 16 by 16 tiles in the game, with levels whose numbers
\* fit a byte, the copies of some levels agree too (compression.go).
THEOREM MapLookups == ASSUME LevelsFit PROVE TopoSpec => []LookupsAgree
<1>1. LevelCopiesAgree BY MapAssumption, LevelCopyIs DEF LevelCopiesAgree
<1>2. TilesAgree /\ FullCopyAgrees => LookupsAgree BY <1>1 DEF LookupsAgree, CopiesAgree
<1> QED BY <1>2, MapTiles, PTL
==================================================================================
