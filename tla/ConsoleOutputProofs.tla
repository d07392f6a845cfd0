------------------------ MODULE ConsoleOutputProofs ------------------------
(***************************************************************************)
(* The terminal's cursor stays where the line editor takes it to be, for   *)
(* every length of the line, of the text and of the steps back: see        *)
(* ConsoleOutput.  The decimal conversion and the fold over characters are *)
(* recursive functions; that they are what their definitions say is proved *)
(* first, by looking at the smallest number for which they are not.        *)
(***************************************************************************)
EXTENDS ConsoleOutput, WellFoundedInduction, TLAPS

(* A set of natural numbers has a smallest element. *)
LEMMA Smallest ==
  ASSUME NEW T, T \subseteq Nat, T # {}
  PROVE  \E m \in T : \A k \in T : m <= k
<1> DEFINE R == OpToRel(<, Nat)
<1>1. IsWellFoundedOn(R, Nat)
  BY NatLessThanWellFounded
<1>2. \A k, m \in Nat : k < m => <<k, m>> \in R
  BY DEF OpToRel
<1> HIDE DEF R
<1>3. PICK m \in T : \A k \in T : <<k, m>> \notin R
  BY <1>1, WFMin
<1>4. ASSUME NEW k \in T
      PROVE  m <= k
  <2>1. k \in Nat /\ m \in Nat
    OBVIOUS
  <2>2. ~(k < m)
    BY <1>2, <1>3, <2>1
  <2> QED
    BY <2>1, <2>2
<1> QED
  BY <1>4

-----------------------------------------------------------------------------
(* The fold over characters *)

(* The screen after the characters have been read. *)
Shown(s, q) == FoldLeft(Display, s, q)

(* What the recursive function of the fold makes of a set of indices.      *)
Folded(it, S, s, q) ==
  IF S = {} THEN s ELSE Display(it[S \ {Max(S)}], q[Max(S)])

Iter(s, q, N) == CHOOSE it : it = [S \in SUBSET N |-> Folded(it, S, s, q)]

LEMMA FoldDefinition ==
  ASSUME NEW s, NEW q
  PROVE  Shown(s, q) = Iter(s, q, DOMAIN q)[DOMAIN q]
  BY DEF Shown, FoldLeft, MapThenFoldSet, Iter, Folded

LEMMA MaxOfRange ==
  ASSUME NEW m \in Nat \ {0}, NEW S \in SUBSET (1..m), m \in S
  PROVE  Max(S) = m
<1>1. \A x \in S : (\A y \in S : x >= y) <=> x = m
  OBVIOUS
<1> QED
  BY <1>1 DEF Max

(* Such a function exists. *)
LEMMA FoldExists ==
  ASSUME NEW s, NEW q, NEW L \in Nat
  PROVE  \E it : it = [S \in SUBSET (1..L) |-> Folded(it, S, s, q)]
<1> DEFINE Fine(m) == \E it : it = [S \in SUBSET (1..m) |-> Folded(it, S, s, q)]
           T == {m \in Nat : ~Fine(m)}
<1>1. Fine(0)
  <2> DEFINE it == [S \in SUBSET (1..0) |-> s]
  <2>1. 1..0 = {}
    OBVIOUS
  <2>2. it = [S \in SUBSET (1..0) |-> Folded(it, S, s, q)]
    BY <2>1 DEF Folded
  <2> QED
    BY <2>2
<1>2. ASSUME NEW m \in Nat \ {0}, Fine(m - 1)
      PROVE  Fine(m)
  <2>1. PICK it : it = [S \in SUBSET (1 .. (m - 1)) |-> Folded(it, S, s, q)]
    BY <1>2
  <2> DEFINE new == [S \in SUBSET (1..m) |->
                       IF m \in S THEN Display(it[S \ {m}], q[m]) ELSE it[S]]
  <2>2. ASSUME NEW S \in SUBSET (1..m)
        PROVE  new[S] = Folded(new, S, s, q)
    <3>1. CASE m \in S
      <4>1. Max(S) = m /\ S # {}
        BY <3>1, MaxOfRange
      <4>2. S \ {m} \in SUBSET (1..m) /\ m \notin S \ {m}
        OBVIOUS
      <4>3. new[S \ {m}] = it[S \ {m}]
        BY <4>2
      <4>4. new[S] = Display(it[S \ {m}], q[m])
        BY <3>1
      <4> HIDE DEF new
      <4> QED
        BY <4>1, <4>3, <4>4 DEF Folded
    <3>2. CASE m \notin S
      <4>1. S \in SUBSET (1 .. (m - 1))
        BY <3>2
      <4>2. new[S] = it[S]
        BY <3>2
      <4>3. it[S] = Folded(it, S, s, q)
        BY <2>1, <4>1
      <4>4. S \ {Max(S)} \in SUBSET (1..m) /\ m \notin S \ {Max(S)}
        BY <3>2
      <4>5. new[S \ {Max(S)}] = it[S \ {Max(S)}]
        BY <4>4
      <4> HIDE DEF new
      <4> QED
        BY <4>2, <4>3, <4>5 DEF Folded
    <3> QED
      BY <3>1, <3>2
  <2>3. new = [S \in SUBSET (1..m) |-> new[S]]
    OBVIOUS
  <2> HIDE DEF new
  <2>4. new = [S \in SUBSET (1..m) |-> Folded(new, S, s, q)]
    BY <2>2, <2>3
  <2> QED
    BY <2>4
<1> HIDE DEF Fine
<1>3. ASSUME T # {} PROVE FALSE
  <2>1. PICK m \in T : \A k \in T : m <= k
    BY <1>3, Smallest
  <2>2. m # 0
    BY <1>1
  <2>3. m - 1 \in Nat /\ m - 1 \notin T
    BY <2>1, <2>2
  <2> QED
    BY <1>2, <2>2, <2>3
<1> QED
  BY <1>3 DEF Fine

(* Screens that follow one another, one for every character.               *)
Screens(g, s, q, L) ==
  /\ DOMAIN q = 1..L
  /\ g[0] = s
  /\ \A i \in 1..L : g[i] = Display(g[i - 1], q[i])

(* Characters are read from the first to the last: such screens end in     *)
(* what the fold returns.                                                  *)
LEMMA ReadInOrder ==
  ASSUME NEW s, NEW q, NEW L \in Nat, NEW g, Screens(g, s, q, L)
  PROVE  Shown(s, q) = g[L]
<1> USE DEF Screens
<1> DEFINE it == Iter(s, q, 1..L)
           T == {i \in 0..L : it[1..i] # g[i]}
<1>1. it = [S \in SUBSET (1..L) |-> Folded(it, S, s, q)]
  BY FoldExists DEF Iter
<1>2. Shown(s, q) = it[1..L]
  BY FoldDefinition
<1> HIDE DEF it
<1>3. it[1..0] = g[0]
  <2>1. 1..0 = {} /\ {} \in SUBSET (1..L)
    OBVIOUS
  <2> QED
    BY <1>1, <2>1 DEF Folded
<1>4. ASSUME NEW i \in 1..L, it[1 .. (i - 1)] = g[i - 1]
      PROVE  it[1..i] = g[i]
  <2>1. 1..i \in SUBSET (1..L) /\ i \in 1..i /\ i \in Nat \ {0}
    <3>1. i \in Nat /\ 1 <= i /\ i <= L
      OBVIOUS
    <3>2. 1..i \subseteq 1..L
      BY <3>1
    <3> QED
      BY <3>1, <3>2
  <2>2. Max(1..i) = i
    BY MaxOfRange
  <2>3. (1..i) \ {i} = 1 .. (i - 1)
    OBVIOUS
  <2>4. it[1..i] = Folded(it, 1..i, s, q)
    BY <1>1, <2>1
  <2> QED
    BY <1>4, <2>1, <2>2, <2>3, <2>4 DEF Folded
<1>5. ASSUME T # {} PROVE FALSE
  <2>0. T \subseteq Nat
    OBVIOUS
  <2>1. PICK i \in T : \A k \in T : i <= k
    BY <1>5, <2>0, Smallest
  <2>2. i # 0
    BY <1>3
  <2>3. i \in 1..L /\ i - 1 \in 0..L /\ i - 1 \notin T
    BY <2>1, <2>2
  <2> QED
    BY <1>4, <2>3
<1> QED
  BY <1>2, <1>5

-----------------------------------------------------------------------------
(* The decimal conversion *)

(* What its recursive function makes of a number. *)
Digits(f, u) ==
  IF u < 10 THEN <<Numeral[u + 1]>>
            ELSE Append(f[u \div 10], Numeral[(u % 10) + 1])

LEMMA DivMod ==
  ASSUME NEW x \in Nat, NEW d \in Nat \ {0}
  PROVE  /\ x = d * (x \div d) + (x % d)
         /\ x % d \in 0 .. (d - 1) /\ x \div d \in Nat
  BY SMT

LEMMA Tenth ==
  ASSUME NEW u \in Nat
  PROVE  /\ u \div 10 \in 0..u /\ u % 10 \in 0..9
         /\ u = 10 * (u \div 10) + (u % 10)
         /\ u >= 10 => u \div 10 < u /\ u \div 10 > 0
<1>1. u \div 10 \in Nat /\ u % 10 \in 0..9 /\ u = 10 * (u \div 10) + (u % 10)
  BY DivMod
<1> QED
  BY <1>1

(* It exists up to every number, *)
LEMMA PartExists ==
  ASSUME NEW m \in Nat
  PROVE  \E f : f = [u \in 0..m |-> Digits(f, u)]
<1> DEFINE Fine(k) == \E f : f = [u \in 0..k |-> Digits(f, u)]
           T == {k \in Nat : ~Fine(k)}
<1>1. Fine(0)
  <2> DEFINE f == [u \in 0..0 |-> <<Numeral[u + 1]>>]
  <2>1. f = [u \in 0..0 |-> Digits(f, u)]
    BY DEF Digits
  <2> QED
    BY <2>1
<1>2. ASSUME NEW k \in Nat \ {0}, Fine(k - 1)
      PROVE  Fine(k)
  <2>1. PICK f : f = [u \in 0 .. (k - 1) |-> Digits(f, u)]
    BY <1>2
  <2> DEFINE new == [u \in 0..k |-> IF u = k THEN Digits(f, k) ELSE f[u]]
  <2>2. ASSUME NEW u \in 0..k
        PROVE  new[u] = Digits(new, u)
    <3>1. u >= 10 => u \div 10 \in 0 .. (k - 1) /\ u \div 10 \in 0..k
      BY Tenth
    <3>2. u >= 10 => new[u \div 10] = f[u \div 10]
      BY <3>1
    <3>3. Digits(new, u) = Digits(f, u)
      <4> HIDE DEF new
      <4> QED
        BY <3>2 DEF Digits
    <3>4. new[u] = Digits(f, u)
      <4>1. u # k => u \in 0 .. (k - 1)
        OBVIOUS
      <4> QED
        BY <2>1, <4>1
    <3> QED
      BY <3>3, <3>4
  <2>3. new = [u \in 0..k |-> new[u]]
    OBVIOUS
  <2> HIDE DEF new
  <2>4. new = [u \in 0..k |-> Digits(new, u)]
    BY <2>2, <2>3
  <2> QED
    BY <2>4
<1> HIDE DEF Fine
<1>3. ASSUME T # {} PROVE FALSE
  <2>1. PICK k \in T : \A j \in T : k <= j
    BY <1>3, Smallest
  <2>2. k # 0
    BY <1>1
  <2>3. k - 1 \in Nat /\ k - 1 \notin T
    BY <2>1, <2>2
  <2> QED
    BY <1>2, <2>2, <2>3
<1> QED
  BY <1>3 DEF Fine

(* and two such functions agree where both have a value. *)
LEMMA PartsAgree ==
  ASSUME NEW m \in Nat, NEW f, f = [u \in 0..m |-> Digits(f, u)],
         NEW k \in Nat, NEW g, g = [u \in 0..k |-> Digits(g, u)],
         NEW u \in Nat, u <= m, u <= k
  PROVE  f[u] = g[u]
<1> DEFINE T == {v \in 0..u : f[v] # g[v]}
<1>1. ASSUME T # {} PROVE FALSE
  <2>1. T \subseteq Nat
    OBVIOUS
  <2>2. PICK v \in T : \A w \in T : v <= w
    BY <1>1, <2>1, Smallest
  <2>3. v \in Nat /\ v <= m /\ v <= k /\ v <= u
    OBVIOUS
  <2>4. v >= 10 => f[v \div 10] = g[v \div 10]
    <3>1. v >= 10 => v \div 10 \in 0..u /\ v \div 10 < v
      BY <2>3, Tenth
    <3> QED
      BY <2>2, <2>3, <3>1
  <2>5. f[v] = Digits(f, v) /\ g[v] = Digits(g, v)
    <3>1. v \in 0..m /\ v \in 0..k
      BY <2>3
    <3> QED
      BY <3>1
  <2>6. Digits(f, v) = Digits(g, v)
    BY <2>3, <2>4 DEF Digits
  <2> QED
    BY <2>2, <2>5, <2>6
<1> QED
  BY <1>1

(* The conversion is what its definition says. *)
LEMMA DecimalEquation ==
  ASSUME NEW u \in Nat
  PROVE  Decimal[u] = Digits(Decimal, u)
<1> DEFINE Part(m) == CHOOSE f : f = [v \in 0..m |-> Digits(f, v)]
           all == [v \in Nat |-> Part(v)[v]]
<1>1. \A m \in Nat : Part(m) = [v \in 0..m |-> Digits(Part(m), v)]
  BY PartExists
<1> HIDE DEF Part
<1>2. ASSUME NEW v \in Nat
      PROVE  all[v] = Digits(all, v)
  <2>1. all[v] = Digits(Part(v), v)
    <3>1. v \in 0..v
      OBVIOUS
    <3> QED
      BY <1>1, <3>1
  <2>2. v >= 10 => all[v \div 10] = Part(v)[v \div 10]
    <3>1. v \div 10 \in Nat /\ v \div 10 <= v
      BY Tenth
    <3>2. all[v \div 10] = Part(v \div 10)[v \div 10]
      BY <3>1
    <3> HIDE DEF all
    <3> DEFINE w == v \div 10
               p == Part(w)
               r == Part(v)
    <3>3. /\ p = [x \in 0..w |-> Digits(p, x)]
          /\ r = [x \in 0..v |-> Digits(r, x)]
          /\ w \in Nat /\ w <= w /\ w <= v
      BY <1>1, <3>1
    <3> HIDE DEF w, p, r
    <3>4. p[w] = r[w]
      BY <3>3, PartsAgree
    <3> QED
      BY <3>2, <3>4 DEF w, p, r
  <2> HIDE DEF all
  <2> QED
    BY <2>1, <2>2 DEF Digits
<1>3. all = [v \in Nat |-> all[v]]
  OBVIOUS
<1> HIDE DEF all
<1>4. all = [v \in Nat |-> Digits(all, v)]
  BY <1>2, <1>3
<1>5. Decimal = CHOOSE f : f = [v \in Nat |-> Digits(f, v)]
  BY DEF Decimal, Digits
<1>6. Decimal = [v \in Nat |-> Digits(Decimal, v)]
  <2>1. \E f : f = [v \in Nat |-> Digits(f, v)]
    BY <1>4
  <2> DEFINE some == CHOOSE f : f = [v \in Nat |-> Digits(f, v)]
  <2>2. some = [v \in Nat |-> Digits(some, v)]
    BY <2>1
  <2> HIDE DEF some
  <2>3. Decimal = some
    BY <1>5 DEF some
  <2> QED
    BY <2>2, <2>3
<1> QED
  BY <1>6

Digit == {Numeral[i] : i \in 1..10}

(* It is a sequence of at least one digit. *)
LEMMA DecimalType ==
  ASSUME NEW u \in Nat
  PROVE  Decimal[u] \in Seq(Digit) /\ Len(Decimal[u]) \in Nat \ {0}
<1> DEFINE Fine(v) == Decimal[v] \in Seq(Digit) /\ Len(Decimal[v]) \in Nat \ {0}
           T == {v \in Nat : ~Fine(v)}
<1>1. ASSUME NEW v \in Nat, v >= 10 => Fine(v \div 10)
      PROVE  Fine(v)
  <2>1. Decimal[v] = Digits(Decimal, v)
    BY DecimalEquation
  <2>2. v % 10 \in 0..9
    BY Tenth
  <2>3. \A d \in 0..9 : Numeral[d + 1] \in Digit
    BY DEF Digit
  <2>4. CASE v < 10
    <3>1. Decimal[v] = <<Numeral[v + 1]>> /\ v \in 0..9
      BY <2>1, <2>4 DEF Digits
    <3> QED
      BY <2>3, <3>1
  <2>5. CASE v >= 10
    <3>1. Decimal[v] = Append(Decimal[v \div 10], Numeral[(v % 10) + 1])
      BY <2>1, <2>5 DEF Digits
    <3>2. Numeral[(v % 10) + 1] \in Digit
      BY <2>2, <2>3
    <3> QED
      BY <1>1, <2>5, <3>1, <3>2
  <2> QED
    BY <2>4, <2>5
<1> HIDE DEF Fine
<1>2. ASSUME T # {} PROVE FALSE
  <2>1. PICK v \in T : \A k \in T : v <= k
    BY <1>2, Smallest
  <2>2. v >= 10 => v \div 10 \in Nat /\ v \div 10 < v
    BY Tenth
  <2> QED
    BY <1>1, <2>1, <2>2
<1> QED
  BY <1>2 DEF Fine

LEMMA DecimalStep ==
  ASSUME NEW u \in Nat
  PROVE  /\ u < 10 => Decimal[u] = <<Numeral[u + 1]>> /\ Len(Decimal[u]) = 1
         /\ u >= 10 =>
              /\ Decimal[u] = Append(Decimal[u \div 10], Numeral[(u % 10) + 1])
              /\ Len(Decimal[u]) = Len(Decimal[u \div 10]) + 1
<1>1. Decimal[u] = Digits(Decimal, u)
  BY DecimalEquation
<1>2. u \div 10 \in Nat
  BY Tenth
<1>3. Decimal[u \div 10] \in Seq(Digit)
  BY <1>2, DecimalType
<1> QED
  BY <1>1, <1>3 DEF Digits

(* A smaller number has no more digits. *)
LEMMA NoMoreDigits ==
  ASSUME NEW u \in Nat, NEW v \in Nat, u <= v
  PROVE  Len(Decimal[u]) <= Len(Decimal[v])
<1> DEFINE T == {w \in Nat : \E x \in Nat :
                              x <= w /\ ~(Len(Decimal[x]) <= Len(Decimal[w]))}
<1>1. ASSUME T # {} PROVE FALSE
  <2>1. PICK w \in T : \A k \in T : w <= k
    BY <1>1, Smallest
  <2>2. PICK x \in Nat : x <= w /\ ~(Len(Decimal[x]) <= Len(Decimal[w]))
    OBVIOUS
  <2>3. /\ Len(Decimal[x]) \in Nat \ {0} /\ Len(Decimal[w]) \in Nat \ {0}
        /\ w \div 10 \in Nat /\ Len(Decimal[w \div 10]) \in Nat \ {0}
        /\ x \div 10 \in Nat /\ Len(Decimal[x \div 10]) \in Nat \ {0}
    <3>1. w \in Nat /\ w \div 10 \in Nat /\ x \div 10 \in Nat
      BY Tenth
    <3> QED
      BY <3>1, DecimalType
  <2>4. CASE x < 10
    <3>1. Len(Decimal[x]) = 1
      BY <2>4, DecimalStep
    <3> QED
      BY <2>2, <2>3, <3>1
  <2>5. CASE x >= 10
    <3>1. w >= 10 /\ w \div 10 < w /\ x \div 10 <= w \div 10
      <4>1. /\ x = 10 * (x \div 10) + (x % 10) /\ x % 10 \in 0..9
            /\ w = 10 * (w \div 10) + (w % 10) /\ w % 10 \in 0..9
        BY Tenth
      <4> QED
        BY <2>2, <2>3, <2>5, <4>1
    <3>2. Len(Decimal[x \div 10]) <= Len(Decimal[w \div 10])
      <4>1. w \div 10 \notin T
        BY <2>1, <2>3, <3>1
      <4> QED
        BY <2>3, <3>1, <4>1
    <3>3. /\ Len(Decimal[x]) = Len(Decimal[x \div 10]) + 1
          /\ Len(Decimal[w]) = Len(Decimal[w \div 10]) + 1
      BY <2>5, <3>1, DecimalStep
    <3> QED
      BY <2>2, <2>3, <3>2, <3>3
  <2> QED
    BY <2>2, <2>4, <2>5
<1> QED
  BY <1>1

(* Three digits are enough below a thousand. *)
LEMMA ThreeDigits ==
  ASSUME NEW u \in Nat, u < 1000
  PROVE  Len(Decimal[u]) <= 3
<1>1. Len(Decimal[9]) = 1
  BY DecimalStep
<1>2. ASSUME NEW x \in Nat, NEW w \in Nat, x >= 10, x \div 10 = w
      PROVE  Len(Decimal[x]) = Len(Decimal[w]) + 1
  <2>1. Len(Decimal[x]) = Len(Decimal[x \div 10]) + 1
    BY <1>2, DecimalStep
  <2> QED
    BY <1>2, <2>1
<1>3. Len(Decimal[999]) = 3
  <2>1. 999 \div 10 = 99 /\ 99 \div 10 = 9
    OBVIOUS
  <2>2. Len(Decimal[99]) = Len(Decimal[9]) + 1
    BY <1>2, <2>1
  <2>3. Len(Decimal[999]) = Len(Decimal[99]) + 1
    BY <1>2, <2>1
  <2> QED
    BY <1>1, <2>2, <2>3
<1>4. u <= 999
  OBVIOUS
<1>5. Len(Decimal[u]) <= Len(Decimal[999])
  BY <1>4, NoMoreDigits
<1> QED
  BY <1>3, <1>5

(* Who reads the digits one by one, and multiplies by ten in between, ends *)
(* with the number: value[i] is what the first i digits mean.              *)
Means(value, u) ==
  /\ value[0] = 0 /\ value[Len(Decimal[u])] = u
  /\ \A i \in 1 .. Len(Decimal[u]) : \E d \in 0..9 :
       Decimal[u][i] = Numeral[d + 1] /\ value[i] = 10 * value[i - 1] + d

LEMMA DigitsMean ==
  ASSUME NEW u \in Nat
  PROVE  \E value \in [0 .. Len(Decimal[u]) -> Nat] : Means(value, u)
<1> DEFINE Fine(v) == \E value \in [0 .. Len(Decimal[v]) -> Nat] : Means(value, v)
           T == {v \in Nat : ~Fine(v)}
<1>1. ASSUME NEW v \in Nat, v < 10
      PROVE  Fine(v)
  <2> DEFINE value == [i \in 0..1 |-> IF i = 0 THEN 0 ELSE v]
  <2>1. Decimal[v] = <<Numeral[v + 1]>> /\ Len(Decimal[v]) = 1
    BY <1>1, DecimalStep
  <2>2. value \in [0 .. Len(Decimal[v]) -> Nat] /\ Means(value, v)
    BY <1>1, <2>1 DEF Means
  <2> QED
    BY <2>2
<1>2. ASSUME NEW v \in Nat, v >= 10, Fine(v \div 10)
      PROVE  Fine(v)
  <2> DEFINE w == v \div 10
             d == v % 10
             L == Len(Decimal[w])
  <2>1. w \in Nat /\ d \in 0..9 /\ v = 10 * w + d
    BY Tenth
  <2>2. Decimal[w] \in Seq(Digit) /\ L \in Nat \ {0}
    BY <2>1, DecimalType
  <2>3. Decimal[v] = Append(Decimal[w], Numeral[d + 1]) /\ Len(Decimal[v]) = L + 1
    BY <1>2, DecimalStep
  <2>4. PICK old \in [0..L -> Nat] : Means(old, w)
    BY <1>2
  <2> DEFINE value == [i \in 0 .. (L + 1) |-> IF i = L + 1 THEN v ELSE old[i]]
  <2>5. value \in [0 .. (L + 1) -> Nat]
    BY <2>2
  <2>6. value[0] = 0 /\ value[L + 1] = v
    BY <2>2, <2>4 DEF Means
  <2>7. ASSUME NEW i \in 1 .. (L + 1)
        PROVE  \E e \in 0..9 : /\ Decimal[v][i] = Numeral[e + 1]
                               /\ value[i] = 10 * value[i - 1] + e
    <3>1. CASE i = L + 1
      <4>1. Decimal[v][i] = Numeral[d + 1]
        BY <2>2, <2>3, <3>1
      <4>2. value[i] = v /\ value[i - 1] = w
        BY <2>2, <2>4, <3>1 DEF Means
      <4> QED
        BY <2>1, <4>1, <4>2
    <3>2. CASE i \in 1..L
      <4>1. Decimal[v][i] = Decimal[w][i]
        BY <2>2, <2>3, <3>2
      <4>2. value[i] = old[i] /\ value[i - 1] = old[i - 1]
        BY <2>2, <3>2
      <4> QED
        BY <2>4, <3>2, <4>1, <4>2 DEF Means
    <3> QED
      BY <2>2, <3>1, <3>2
  <2> HIDE DEF value
  <2>8. Means(value, v)
    BY <2>3, <2>6, <2>7 DEF Means
  <2> QED
    BY <2>3, <2>5, <2>8
<1> HIDE DEF Fine
<1>3. ASSUME T # {} PROVE FALSE
  <2>1. PICK v \in T : \A k \in T : v <= k
    BY <1>3, Smallest
  <2>2. v >= 10 => v \div 10 \in Nat /\ v \div 10 < v
    BY Tenth
  <2> QED
    BY <1>1, <1>2, <2>1, <2>2
<1> QED
  BY <1>3 DEF Fine

-----------------------------------------------------------------------------
(* The terminal *)

Screen(column, shown, reading, number) ==
  [column |-> column, shown |-> shown, reading |-> reading, number |-> number]

(* It reads text, with the cursor at a column. *)
Idle(column, shown) == Screen(column, shown, "text", 0)

LEMMA ReadsText ==
  ASSUME NEW c \in Nat, NEW h \in Nat, NEW w \in Nat
  PROVE  /\ Display(Idle(c, h), Times("x", w)) = Idle(c + w, Larger(h, c + w))
         /\ c > 0 => Display(Idle(c, h), Times("BS", 1)) = Idle(c - 1, h)
         /\ Display(Idle(c, h), Times("ESC", 1)) = Screen(c, h, "ESC", 0)
<1> DEFINE s == Idle(c, h)
<1>1. s = [column |-> c, shown |-> h, reading |-> "text", number |-> 0]
  BY DEF Idle, Screen
<1>2. \A r : Display(s, r) = ReadText(s, r)
  BY DEF Display, Idle, Screen
<1> HIDE DEF s
<1>3. ReadText(s, Times("x", w)) = Idle(c + w, Larger(h, c + w))
  BY <1>1 DEF ReadText, Times, Idle, Screen
<1>4. ASSUME c > 0
      PROVE  ReadText(s, Times("BS", 1)) = Idle(c - 1, h)
  <2>1. Larger(c - 1, 0) = c - 1
    BY <1>4 DEF Larger
  <2> QED
    BY <1>1, <2>1 DEF ReadText, Times, Idle, Screen
<1>5. ReadText(s, Times("ESC", 1)) = Screen(c, h, "ESC", 0)
  BY <1>1 DEF ReadText, Times, Screen
<1> QED
  BY <1>2, <1>3, <1>4, <1>5 DEF s

LEMMA NumeralValue ==
  ASSUME NEW d \in 0..9
  PROVE  /\ Numeral[d + 1] \in ToSet(Numeral) /\ ValueOf(Numeral[d + 1]) = d
         /\ Numeral[d + 1] \notin {"NUL", "D", "K"}
<1>1. DOMAIN Numeral = 1..10
  BY DEF Numeral
<1>2. \A i, j \in 1..10 : Numeral[i] = Numeral[j] => i = j
  BY DEF Numeral
<1>3. Numeral[d + 1] \notin {"NUL", "D", "K"}
  BY DEF Numeral
<1>4. Numeral[d + 1] \in ToSet(Numeral)
  BY <1>1 DEF ToSet
<1>5. ValueOf(Numeral[d + 1]) = d
  BY <1>1, <1>2 DEF ValueOf
<1> QED
  BY <1>3, <1>4, <1>5

LEMMA ReadsDigit ==
  ASSUME NEW c \in Nat, NEW h \in Nat, NEW m \in Nat, NEW d \in 0..9
  PROVE  Display(Screen(c, h, "command", m), Times(Numeral[d + 1], 1))
           = Screen(c, h, "command", 10 * m + d)
<1> DEFINE s == Screen(c, h, "command", m)
           e == Numeral[d + 1]
<1>1. s = [column |-> c, shown |-> h, reading |-> "command", number |-> m]
  BY DEF Screen
<1>2. \A r : Display(s, r) = ReadCommand(s, r)
  BY DEF Display, Screen
<1>3. e \in ToSet(Numeral) /\ ValueOf(e) = d /\ e \notin {"NUL", "D", "K"}
  BY NumeralValue
<1> HIDE DEF s, e
<1>4. ReadCommand(s, Times(e, 1)) = [s EXCEPT !.number = 10 * s.number + d]
  BY <1>3 DEF ReadCommand, Times
<1>5. [s EXCEPT !.number = 10 * s.number + d] = Screen(c, h, "command", 10 * m + d)
  BY <1>1 DEF Screen
<1> QED
  BY <1>2, <1>4, <1>5 DEF s, e

LEMMA ReadsCommand ==
  ASSUME NEW c \in Nat, NEW h \in Nat, NEW m \in Nat
  PROVE  /\ Display(Screen(c, h, "ESC", m), Times("[", 1))
              = Screen(c, h, "command", m)
         /\ m <= c => Display(Screen(c, h, "command", m), Times("D", 1))
                        = Idle(c - m, h)
         /\ m = 0 => Display(Screen(c, h, "command", m), Times("K", 1))
                       = Idle(c, c)
<1> DEFINE s == Screen(c, h, "command", m)
<1>1. s = [column |-> c, shown |-> h, reading |-> "command", number |-> m]
  BY DEF Screen
<1>2. \A r : Display(s, r) = ReadCommand(s, r)
  BY DEF Display, Screen
<1>3. Display(Screen(c, h, "ESC", m), Times("[", 1)) = s
  BY DEF Display, Times, Screen
<1>4. "D" \notin ToSet(Numeral) /\ "K" \notin ToSet(Numeral)
  <2>1. DOMAIN Numeral = 1..10
    BY DEF Numeral
  <2>2. \A i \in 1..10 : Numeral[i] # "D" /\ Numeral[i] # "K"
    BY DEF Numeral
  <2> QED
    BY <2>1, <2>2 DEF ToSet
<1> HIDE DEF s
<1>5. ASSUME m <= c
      PROVE  ReadCommand(s, Times("D", 1)) = Idle(c - m, h)
  <2>1. Larger(c - m, 0) = c - m
    BY <1>5 DEF Larger
  <2> QED
    BY <1>4, <1>1, <2>1 DEF ReadCommand, Times, Idle, Screen
<1>6. ASSUME m = 0
      PROVE  ReadCommand(s, Times("K", 1)) = Idle(c, c)
  BY <1>4, <1>1, <1>6 DEF ReadCommand, Times, Idle, Screen
<1> QED
  BY <1>2, <1>3, <1>5, <1>6 DEF s

LEMMA SendShows ==
  ASSUME NEW chars, Send(chars)
  PROVE  screen' = Shown(screen, chars)
  BY DEF Send, Shown

LEMMA OnceEach ==
  ASSUME NEW chars
  PROVE  /\ DOMAIN Once(chars) = DOMAIN chars
         /\ \A i \in DOMAIN chars : Once(chars)[i] = Times(chars[i], 1)
  BY DEF Once

(* Text moves the cursor, *)
LEMMA TextShown ==
  ASSUME NEW c \in Nat, NEW h \in Nat, NEW w \in Nat
  PROVE  Shown(Idle(c, h), <<Times("x", w)>>) = Idle(c + w, Larger(h, c + w))
<1> DEFINE q == <<Times("x", w)>>
           g == [i \in 0..1 |-> IF i = 0 THEN Idle(c, h)
                                ELSE Display(Idle(c, h), Times("x", w))]
<1>1. DOMAIN q = 1..1 /\ g[0] = Idle(c, h)
      /\ \A i \in 1..1 : g[i] = Display(g[i - 1], q[i])
  OBVIOUS
<1>2. g[1] = Display(Idle(c, h), Times("x", w))
  OBVIOUS
<1> DEFINE s == Idle(c, h)
           L == 1
<1>3. L \in Nat /\ Screens(g, s, q, L)
  BY <1>1 DEF Screens
<1> HIDE DEF q, g, s, L
<1>4. Shown(s, q) = g[L]
  BY <1>3, ReadInOrder
<1> QED
  BY <1>2, <1>4, ReadsText DEF q, s, L

(* backspaces move it back, *)
LEMMA BackspacesShown ==
  ASSUME NEW c \in Nat, NEW h \in Nat, NEW pos \in 1..4, pos <= c
  PROVE  Shown(Idle(c, h), Once(SubSeq(Backspaces, 1, pos))) = Idle(c - pos, h)
<1> DEFINE chars == SubSeq(Backspaces, 1, pos)
           q == Once(chars)
           g == [i \in 0..pos |-> Idle(c - i, h)]
<1>1. DOMAIN chars = 1..pos /\ \A i \in 1..pos : chars[i] = "BS"
  BY DEF Backspaces
<1>2. DOMAIN q = 1..pos /\ \A i \in 1..pos : q[i] = Times("BS", 1)
  BY <1>1, OnceEach
<1>3. g[0] = Idle(c, h) /\ g[pos] = Idle(c - pos, h)
  OBVIOUS
<1> HIDE DEF q
<1>4. ASSUME NEW i \in 1..pos
      PROVE  g[i] = Display(g[i - 1], q[i])
  <2>1. c - (i - 1) \in Nat /\ c - (i - 1) > 0 /\ (c - (i - 1)) - 1 = c - i
    OBVIOUS
  <2>2. g[i - 1] = Idle(c - (i - 1), h) /\ g[i] = Idle(c - i, h)
    OBVIOUS
  <2>3. Display(Idle(c - (i - 1), h), Times("BS", 1)) = Idle(c - i, h)
    BY <2>1, ReadsText
  <2> QED
    BY <1>2, <2>2, <2>3
<1> HIDE DEF g
<1>5. Screens(g, Idle(c, h), q, pos)
  BY <1>2, <1>3, <1>4 DEF Screens
<1>6. Shown(Idle(c, h), q) = g[pos]
  BY <1>5, ReadInOrder
<1> QED
  BY <1>3, <1>6 DEF q

(* the command to erase cuts what is shown, *)
LEMMA EraseShown ==
  ASSUME NEW c \in Nat, NEW h \in Nat
  PROVE  Shown(Idle(c, h), Once(<<"ESC", "[", "K">>)) = Idle(c, c)
<1> DEFINE chars == <<"ESC", "[", "K">>
           q == Once(chars)
           g == [i \in 0..3 |-> IF i = 0 THEN Idle(c, h)
                                ELSE IF i = 1 THEN Screen(c, h, "ESC", 0)
                                ELSE IF i = 2 THEN Screen(c, h, "command", 0)
                                ELSE Idle(c, c)]
<1>1. DOMAIN q = 1..3 /\ q[1] = Times("ESC", 1) /\ q[2] = Times("[", 1)
      /\ q[3] = Times("K", 1)
  BY OnceEach
<1>2. g[0] = Idle(c, h) /\ g[1] = Screen(c, h, "ESC", 0)
      /\ g[2] = Screen(c, h, "command", 0) /\ g[3] = Idle(c, c)
  OBVIOUS
<1> HIDE DEF q, g
<1>3. \A i \in 1..3 : g[i] = Display(g[i - 1], q[i])
  <2>1. Display(Idle(c, h), Times("ESC", 1)) = Screen(c, h, "ESC", 0)
    BY ReadsText
  <2>2. Display(Screen(c, h, "ESC", 0), Times("[", 1))
          = Screen(c, h, "command", 0)
    BY ReadsCommand
  <2>3. Display(Screen(c, h, "command", 0), Times("K", 1)) = Idle(c, c)
    BY ReadsCommand
  <2>4. g[1] = Display(g[0], q[1]) /\ g[2] = Display(g[1], q[2])
        /\ g[3] = Display(g[2], q[3])
    BY <1>1, <1>2, <2>1, <2>2, <2>3
  <2> QED
    BY <2>4
<1> DEFINE s == Idle(c, h)
           L == 3
<1>4. L \in Nat /\ Screens(g, s, q, L)
  BY <1>1, <1>2, <1>3 DEF Screens
<1> HIDE DEF s, L
<1>5. Shown(s, q) = g[L]
  BY <1>4, ReadInOrder
<1> QED
  BY <1>2, <1>5 DEF q, s, L

(* and the command to step back moves the cursor by the number in it.      *)
IsStepBack(chars, pos) ==
  LET k == Len(Decimal[pos])
  IN /\ DOMAIN chars = 1 .. (k + 3)
     /\ chars[1] = "ESC" /\ chars[2] = "["
     /\ \A i \in 1..k : chars[i + 2] = Decimal[pos][i]
     /\ chars[k + 3] = "D"

LEMMA CommandShown ==
  ASSUME NEW c \in Nat, NEW h \in Nat, NEW pos \in Nat, pos <= c,
         NEW chars, IsStepBack(chars, pos)
  PROVE  Shown(Idle(c, h), Once(chars)) = Idle(c - pos, h)
<1> DEFINE k == Len(Decimal[pos])
<1>0. /\ k \in Nat /\ k = Len(Decimal[pos])
      /\ DOMAIN chars = 1 .. (k + 3) /\ chars[1] = "ESC" /\ chars[2] = "["
      /\ \A i \in 1..k : chars[i + 2] = Decimal[pos][i]
      /\ chars[k + 3] = "D"
  BY DecimalType DEF IsStepBack
<1> HIDE DEF k
<1>1. PICK value \in [0..k -> Nat] : Means(value, pos)
  BY <1>0, DigitsMean
<1> DEFINE q == Once(chars)
           g == [i \in 0 .. (k + 3) |->
                   IF i = 0 THEN Idle(c, h)
                   ELSE IF i = 1 THEN Screen(c, h, "ESC", 0)
                   ELSE IF i <= k + 2 THEN Screen(c, h, "command", value[i - 2])
                   ELSE Idle(c - pos, h)]
<1>2. DOMAIN q = 1 .. (k + 3)
      /\ \A i \in 1 .. (k + 3) : q[i] = Times(chars[i], 1)
  BY <1>0, OnceEach
<1>3. value[0] = 0 /\ value[k] = pos
  BY <1>0, <1>1 DEF Means
<1>4. /\ g[0] = Idle(c, h) /\ g[1] = Screen(c, h, "ESC", 0)
      /\ \A i \in 2 .. (k + 2) : g[i] = Screen(c, h, "command", value[i - 2])
      /\ g[k + 3] = Idle(c - pos, h)
  BY <1>0
<1> HIDE DEF q, g
<1>5. ASSUME NEW i \in 1 .. (k + 3)
      PROVE  g[i] = Display(g[i - 1], q[i])
  <2>1. CASE i = 1
    <3>1. q[1] = Times("ESC", 1)
      BY <1>0, <1>2
    <3>2. Display(Idle(c, h), Times("ESC", 1)) = Screen(c, h, "ESC", 0)
      BY ReadsText
    <3> QED
      BY <1>0, <1>4, <2>1, <3>1, <3>2
  <2>2. CASE i = 2
    <3>1. g[2] = Screen(c, h, "command", 0) /\ g[1] = Screen(c, h, "ESC", 0)
      BY <1>0, <1>3, <1>4
    <3>2. q[2] = Times("[", 1)
      BY <1>0, <1>2
    <3>3. Display(Screen(c, h, "ESC", 0), Times("[", 1))
            = Screen(c, h, "command", 0)
      BY ReadsCommand
    <3> QED
      BY <2>2, <3>1, <3>2, <3>3
  <2>3. CASE i \in 3 .. (k + 2)
    <3> DEFINE j == i - 2
    <3>1. j \in 1..k /\ j \in 0..k /\ j - 1 \in 0..k /\ i = j + 2
      BY <1>0, <2>3
    <3>2. g[i] = Screen(c, h, "command", value[j])
          /\ g[i - 1] = Screen(c, h, "command", value[j - 1])
      <4>1. (i - 1) - 2 = j - 1 /\ i - 1 \in 2 .. (k + 2) /\ i \in 2 .. (k + 2)
        BY <1>0, <2>3
      <4> QED
        BY <1>0, <1>4, <4>1
    <3>3. PICK d \in 0..9 : /\ Decimal[pos][j] = Numeral[d + 1]
                            /\ value[j] = 10 * value[j - 1] + d
      BY <1>0, <1>1, <3>1 DEF Means
    <3>4. q[i] = Times(Numeral[d + 1], 1)
      BY <1>0, <1>2, <3>1, <3>3
    <3>5. value[j - 1] \in Nat
      BY <1>0, <3>1
    <3> HIDE DEF j
    <3>6. \A m \in Nat :
            Display(Screen(c, h, "command", m), Times(Numeral[d + 1], 1))
              = Screen(c, h, "command", 10 * m + d)
      BY ReadsDigit
    <3> QED
      BY <3>2, <3>3, <3>4, <3>5, <3>6
  <2>4. CASE i = k + 3
    <3>1. g[i] = Idle(c - pos, h) /\ g[i - 1] = Screen(c, h, "command", pos)
      <4>1. (i - 1) - 2 = k /\ i - 1 \in 2 .. (k + 2)
        BY <1>0, <2>4
      <4> QED
        BY <1>0, <1>3, <1>4, <2>4, <4>1
    <3>2. q[i] = Times("D", 1)
      BY <1>0, <1>2, <2>4
    <3>3. Display(Screen(c, h, "command", pos), Times("D", 1))
            = Idle(c - pos, h)
      BY ReadsCommand
    <3> QED
      BY <3>1, <3>2, <3>3
  <2> QED
    BY <1>0, <2>1, <2>2, <2>3, <2>4
<1> DEFINE s == Idle(c, h)
           L == k + 3
<1>6. L \in Nat /\ Screens(g, s, q, L)
  BY <1>0, <1>2, <1>4, <1>5 DEF Screens
<1> HIDE DEF s, L
<1>7. Shown(s, q) = g[L]
  BY <1>6, ReadInOrder
<1> QED
  BY <1>0, <1>4, <1>7 DEF q, s, L

-----------------------------------------------------------------------------
(* The invariant *)

(* A step back whose command is being made: the terminal has not seen it.  *)
Pending ==
  at = "replace" => \E pos \in Distances :
    /\ screen.column = cursor + pos /\ screen.shown = length
    /\ n = 2 + Len(Decimal[pos])
    /\ DOMAIN command = 0 .. (CommandSize - 1)
    /\ n <= 5 =>
         /\ command[0] = "ESC" /\ command[1] = "["
         /\ \A i \in 1 .. Len(Decimal[pos]) : command[i + 1] = Decimal[pos][i]
         /\ command[n] = "NUL"

(* Between two strings the terminal is never in the middle of a command.   *)
NotMidCommand == screen = Idle(screen.column, screen.shown)

IInv == TypeOK /\ ScreenInStep /\ NotMidCommand /\ Pending

(* What the invariant says of a state in which no command is being made.   *)
LEMMA AtEditor ==
  ASSUME IInv, at = "editor"
  PROVE  /\ cursor \in 0..MaxLine /\ length \in cursor..MaxLine
         /\ cursor \in Nat /\ length \in Nat
         /\ screen = Idle(cursor, length)
         /\ command = <<>> /\ n \in 0 .. (2 + Len(Decimal[MaxLine]))
  BY MaxLineAssumption DEF IInv, TypeOK, ScreenInStep, NotMidCommand

LEMMA BackAtEditor ==
  ASSUME cursor' \in 0..MaxLine, length' \in cursor'..MaxLine,
         screen' = Idle(cursor', length'), at' = "editor",
         command' = <<>>, n' \in 0 .. (2 + Len(Decimal[MaxLine]))
  PROVE  IInv'
<1>1. /\ screen'.column = cursor' /\ screen'.shown = length'
      /\ screen'.reading = "text" /\ screen'.number = 0
  BY DEF Idle, Screen
<1> QED
  BY <1>1 DEF IInv, TypeOK, ScreenInStep, NotMidCommand, Pending

LEMMA InitIInv ==
  ASSUME Init
  PROVE  IInv
<1>1. 2 + Len(Decimal[MaxLine]) \in Nat
  BY DecimalType, MaxLineAssumption
<1>2. screen = Idle(0, 0)
  BY DEF Init, Idle, Screen
<1>3. /\ screen.column = 0 /\ screen.shown = 0
      /\ screen.reading = "text" /\ screen.number = 0
  BY DEF Init
<1> QED
  BY <1>1, <1>2, <1>3, MaxLineAssumption
     DEF Init, IInv, TypeOK, ScreenInStep, NotMidCommand, Pending

LEMMA PrintTextIInv ==
  ASSUME IInv, PrintText
  PROVE  IInv'
<1>1. at = "editor" /\ screen = Idle(cursor, length)
  BY AtEditor DEF PrintText
<1>2. PICK w \in Lengths :
        /\ cursor + w <= MaxLine /\ cursor' = cursor + w
        /\ length' = Larger(length, cursor + w)
        /\ Send(<<Times("x", w)>>)
  BY DEF PrintText
<1>3. w \in Nat /\ cursor \in Nat /\ length \in Nat /\ length <= MaxLine
  BY <1>1, AtEditor, LengthsAssumption, MaxLineAssumption
<1>4. screen' = Shown(screen, <<Times("x", w)>>)
  BY <1>2, SendShows
<1>5. screen' = Idle(cursor', length')
  BY <1>1, <1>2, <1>3, <1>4, TextShown
<1>6. cursor' \in 0..MaxLine /\ length' \in cursor'..MaxLine
  BY <1>2, <1>3, MaxLineAssumption DEF Larger
<1>7. at' = "editor" /\ command' = <<>>
      /\ n' \in 0 .. (2 + Len(Decimal[MaxLine]))
  BY <1>1, AtEditor DEF PrintText, local
<1> QED
  BY <1>5, <1>6, <1>7, BackAtEditor

LEMMA EraseLineIInv ==
  ASSUME IInv, EraseLine
  PROVE  IInv'
<1>1. at = "editor" /\ screen = Idle(cursor, length)
  BY AtEditor DEF EraseLine
<1>2. cursor \in 0..MaxLine /\ cursor \in Nat /\ length \in Nat
  BY <1>1, AtEditor
<1>3. screen' = Shown(screen, Once(<<"ESC", "[", "K">>))
  BY SendShows DEF EraseLine, EraseCommand
<1>4. screen' = Idle(cursor', length')
  BY <1>1, <1>2, <1>3, EraseShown DEF EraseLine
<1>5. cursor' \in 0..MaxLine /\ length' \in cursor'..MaxLine
  BY <1>2, MaxLineAssumption DEF EraseLine
<1>6. at' = "editor" /\ command' = <<>>
      /\ n' \in 0 .. (2 + Len(Decimal[MaxLine]))
  BY <1>1, AtEditor DEF EraseLine, local
<1> QED
  BY <1>4, <1>5, <1>6, BackAtEditor

LEMMA StepBackShortIInv ==
  ASSUME IInv, StepBackShort
  PROVE  IInv'
<1>1. at = "editor" /\ screen = Idle(cursor, length)
  BY AtEditor DEF StepBackShort
<1>2. PICK pos \in Distances :
        /\ pos <= cursor /\ IsShort(pos)
        /\ cursor' = cursor - pos
        /\ Send(Once(SubSeq(Backspaces, 1, pos)))
  BY DEF StepBackShort
<1>3. /\ pos \in 1..4 /\ cursor \in Nat /\ length \in Nat
      /\ cursor <= MaxLine /\ cursor <= length /\ length <= MaxLine
  BY <1>1, <1>2, AtEditor, DistancesAssumption, MaxLineAssumption DEF IsShort
<1>4. screen' = Shown(screen, Once(SubSeq(Backspaces, 1, pos)))
  BY <1>2, SendShows
<1>5. screen' = Idle(cursor', length')
  BY <1>1, <1>2, <1>3, <1>4, BackspacesShown DEF StepBackShort
<1>6. cursor' \in 0..MaxLine /\ length' \in cursor'..MaxLine
  BY <1>2, <1>3, MaxLineAssumption DEF StepBackShort
<1>7. at' = "editor" /\ command' = <<>>
      /\ n' \in 0 .. (2 + Len(Decimal[MaxLine]))
  BY <1>1, AtEditor DEF StepBackShort, local
<1> QED
  BY <1>5, <1>6, <1>7, BackAtEditor

(* The text of the command, without its last character.                    *)
LEMMA CommandText ==
  ASSUME NEW pos \in Nat
  PROVE  LET text == <<"ESC", "[">> \o Decimal[pos]
         IN /\ Len(text) = 2 + Len(Decimal[pos])
            /\ text[1] = "ESC" /\ text[2] = "["
            /\ \A i \in 1 .. Len(Decimal[pos]) : text[i + 2] = Decimal[pos][i]
<1> DEFINE d == Decimal[pos]
           S == Digit \cup {"ESC", "["}
<1>1. d \in Seq(S) /\ Len(d) \in Nat
  BY DecimalType
<1>2. <<"ESC", "[">> \in Seq(S) /\ Len(<<"ESC", "[">>) = 2
  OBVIOUS
<1> HIDE DEF d, S
<1>3. /\ Len(<<"ESC", "[">> \o d) = 2 + Len(d)
      /\ \A i \in 1 .. (2 + Len(d)) :
           (<<"ESC", "[">> \o d)[i] = IF i <= 2 THEN <<"ESC", "[">>[i] ELSE d[i - 2]
  BY <1>1, <1>2
<1> QED
  BY <1>1, <1>3 DEF d

LEMMA StepBackFormatIInv ==
  ASSUME IInv, StepBackFormat
  PROVE  IInv'
<1>1. at = "editor" /\ screen = Idle(cursor, length)
  BY AtEditor DEF StepBackFormat
<1>2. PICK pos \in Distances :
        /\ pos <= cursor /\ cursor' = cursor - pos
        /\ Snprintf(<<"ESC", "[">> \o Decimal[pos])
  BY DEF StepBackFormat
<1>3. /\ pos \in Nat \ {0} /\ cursor \in Nat /\ length \in Nat /\ MaxLine \in Nat
      /\ cursor <= MaxLine /\ cursor <= length /\ length <= MaxLine
  BY <1>1, AtEditor, DistancesAssumption, MaxLineAssumption
<1>4. UNCHANGED <<length, screen>> /\ at' = "replace"
  BY DEF StepBackFormat
<1>5. screen.column = cursor /\ screen.shown = length
  BY <1>1, <1>3 DEF Idle, Screen
<1> DEFINE text == <<"ESC", "[">> \o Decimal[pos]
           k == Len(Decimal[pos])
<1>6. /\ Len(text) = 2 + k /\ k \in Nat \ {0}
      /\ text[1] = "ESC" /\ text[2] = "["
      /\ \A i \in 1..k : text[i + 2] = Decimal[pos][i]
  BY <1>3, CommandText, DecimalType
<1>7. n' \in 0 .. (2 + Len(Decimal[MaxLine])) /\ n' = 2 + k
  <2>1. k <= Len(Decimal[MaxLine]) /\ Len(Decimal[MaxLine]) \in Nat
    BY <1>2, <1>3, NoMoreDigits, DecimalType
  <2> QED
    BY <1>2, <1>6, <2>1 DEF Snprintf
<1> HIDE DEF text
<1>8. /\ DOMAIN command' = 0 .. (CommandSize - 1)
      /\ n' <= 5 =>
           /\ command'[0] = "ESC" /\ command'[1] = "["
           /\ \A i \in 1..k : command'[i + 1] = Decimal[pos][i]
           /\ command'[n'] = "NUL"
  <2>1. Snprintf(text)
    BY <1>2 DEF text
  <2>2. DOMAIN command' = 0..5
    BY <2>1 DEF Snprintf, CommandSize
  <2>3. ASSUME n' <= 5
        PROVE  \A i \in 0..5 : command'[i] = IF i < 2 + k THEN text[i + 1]
                                             ELSE IF i = 2 + k THEN "NUL" ELSE "junk"
    <3>1. Len(text) < 6
      BY <1>6, <1>7, <2>3
    <3> HIDE DEF k
    <3> QED
      BY <1>6, <2>1, <3>1 DEF Snprintf, CommandSize
  <2>4. ASSUME n' <= 5
        PROVE  /\ command'[0] = "ESC" /\ command'[1] = "["
               /\ \A i \in 1..k : command'[i + 1] = Decimal[pos][i]
               /\ command'[n'] = "NUL"
    <3> HIDE DEF k
    <3> QED
      BY <1>6, <1>7, <2>3, <2>4
  <2> QED
    BY <2>2, <2>4 DEF CommandSize
<1>9. TypeOK'
  BY <1>1, <1>2, <1>3, <1>4, <1>5, <1>7 DEF IInv, TypeOK
<1>10. Pending'
  <2>1. screen'.column = cursor' + pos /\ screen'.shown = length'
    BY <1>2, <1>3, <1>4, <1>5
  <2> QED
    BY <1>7, <1>8, <2>1 DEF Pending
<1> QED
  BY <1>4, <1>9, <1>10 DEF IInv, ScreenInStep, NotMidCommand
(* The command is complete, and the terminal steps back by the number that *)
(* the editor asked for.                                                   *)
LEMMA StepBackSendIInv ==
  ASSUME IInv, StepBackSend
  PROVE  IInv'
<1>1. at = "replace" /\ UNCHANGED <<cursor, length>> /\ command' = <<>> /\ n' = 0
  BY DEF StepBackSend
<1>2. PICK pos \in Distances :
        /\ screen.column = cursor + pos /\ screen.shown = length
        /\ n = 2 + Len(Decimal[pos])
        /\ DOMAIN command = 0 .. (CommandSize - 1)
        /\ n <= 5 =>
             /\ command[0] = "ESC" /\ command[1] = "["
             /\ \A i \in 1 .. Len(Decimal[pos]) : command[i + 1] = Decimal[pos][i]
             /\ command[n] = "NUL"
  BY <1>1 DEF IInv, Pending
<1>3. /\ pos \in Nat \ {0} /\ cursor \in 0..MaxLine /\ length \in cursor..MaxLine
      /\ cursor \in Nat /\ length \in Nat /\ MaxLine \in Nat
      /\ screen = Idle(cursor + pos, length)
  BY <1>2, DistancesAssumption, MaxLineAssumption DEF IInv, TypeOK, NotMidCommand
<1>4. 0 \in 0 .. (2 + Len(Decimal[MaxLine]))
  BY <1>3, DecimalType
<1> DEFINE k == Len(Decimal[pos])
<1>5. k \in Nat \ {0} /\ n = 2 + k
  BY <1>2, <1>3, DecimalType
<1>6. CASE n \in DOMAIN command /\ at' = "editor"
  <2> DEFINE all == [i \in 1..6 |-> IF i = n + 1 THEN "D" ELSE command[i - 1]]
             chars == SubSeq(all, 1, n + 1)
  <2>1. n <= 5
    BY <1>2, <1>6 DEF CommandSize
  <2>2. Send(Once(chars))
    BY <1>1, <1>6 DEF StepBackSend, SendThrough, CommandSize
  <2>3. DOMAIN chars = 1 .. (k + 3) /\ \A i \in 1 .. (k + 3) : chars[i] = all[i]
    <3> DEFINE S == {all[i] : i \in 1..6}
    <3>1. all \in Seq(S) /\ Len(all) = 6
      OBVIOUS
    <3>2. n + 1 \in 1..6 /\ n + 1 = k + 3
      BY <1>5, <2>1
    <3> HIDE DEF all, S, k
    <3> QED
      BY <3>1, <3>2
  <2>4. /\ all[1] = "ESC" /\ all[2] = "["
        /\ \A i \in 1..k : all[i + 2] = Decimal[pos][i]
        /\ all[k + 3] = "D"
    <3>1. k + 3 \in 1..6 /\ n + 1 = k + 3
      BY <1>5, <2>1
    <3>2. /\ command[0] = "ESC" /\ command[1] = "["
          /\ \A i \in 1..k : command[i + 1] = Decimal[pos][i]
      BY <1>2, <2>1
    <3> HIDE DEF k
    <3> QED
      BY <1>5, <3>1, <3>2
  <2> HIDE DEF all, chars
  <2>5. /\ chars[1] = "ESC" /\ chars[2] = "["
        /\ \A i \in 1..k : chars[i + 2] = Decimal[pos][i]
        /\ chars[k + 3] = "D"
    <3> HIDE DEF k
    <3> QED
      BY <1>5, <2>3, <2>4
  <2>6. Shown(Idle(cursor + pos, length), Once(chars))
          = Idle((cursor + pos) - pos, length)
    <3> DEFINE c == cursor + pos
    <3>1. c \in Nat /\ pos <= c /\ pos \in Nat /\ length \in Nat
      BY <1>3
    <3>2. IsStepBack(chars, pos)
      BY <2>3, <2>5 DEF IsStepBack
    <3> HIDE DEF c
    <3>3. Shown(Idle(c, length), Once(chars)) = Idle(c - pos, length)
      BY <3>1, <3>2, CommandShown
    <3> QED
      BY <3>3 DEF c
  <2>7. screen' = Idle(cursor', length')
    <3>1. (cursor + pos) - pos = cursor
      BY <1>3
    <3>2. screen' = Shown(screen, Once(chars))
      BY <2>2, SendShows
    <3> QED
      BY <1>1, <1>3, <2>6, <3>1, <3>2
  <2> QED
    BY <1>1, <1>3, <1>4, <1>6, <2>7, BackAtEditor
<1>7. CASE at' = "wild" /\ UNCHANGED screen
  BY <1>1, <1>4, <1>7 DEF IInv, TypeOK, ScreenInStep, NotMidCommand, Pending
<1> QED
  BY <1>1, <1>6, <1>7 DEF StepBackSend

LEMMA NextIInv ==
  ASSUME IInv, [Next]_vars
  PROVE  IInv'
<1>1. CASE PrintText
  BY <1>1, PrintTextIInv
<1>2. CASE EraseLine
  BY <1>2, EraseLineIInv
<1>3. CASE StepBackShort
  BY <1>3, StepBackShortIInv
<1>4. CASE StepBackFormat
  BY <1>4, StepBackFormatIInv
<1>5. CASE StepBackSend
  BY <1>5, StepBackSendIInv
<1>6. CASE UNCHANGED vars
  BY <1>6 DEF IInv, TypeOK, ScreenInStep, NotMidCommand, Pending, vars
<1> QED
  BY <1>1, <1>2, <1>3, <1>4, <1>5, <1>6 DEF Next, Stopped

(* A command that is being made has room for its D, if it has up to three  *)
(* digits.                                                                 *)
LEMMA RoomForThree ==
  ASSUME IInv
  PROVE  ThreeDigitsFit
<1> SUFFICES ASSUME n <= 5, at = "replace"
             PROVE  n \in DOMAIN command /\ command[n] = "NUL"
  BY DEF ThreeDigitsFit, ReplacesNull
<1>1. PICK pos \in Distances :
        /\ n = 2 + Len(Decimal[pos])
        /\ DOMAIN command = 0 .. (CommandSize - 1)
        /\ n <= 5 => command[n] = "NUL"
  BY DEF IInv, Pending
<1>2. n \in 0..5
  BY <1>1, DecimalType, DistancesAssumption
<1> QED
  BY <1>1, <1>2 DEF CommandSize

-----------------------------------------------------------------------------
(* Theorems *)

(* The invariant: between two strings the terminal reads text, and a step  *)
(* back of which the command is being made is one it has not yet seen      *)
(* (mphalport.c:131-149).                                                  *)
THEOREM TerminalInvariant == Spec => []IInv
<1>1. Init => IInv
  BY InitIInv
<1>2. IInv /\ [Next]_vars => IInv'
  BY NextIInv
<1> QED
  BY <1>1, <1>2, PTL DEF Spec

(* The type invariant: positions stay within the line, and snprintf never  *)
(* returns more than the longest line has digits (mphalport.c:134-149).    *)
THEOREM TerminalTyped == Spec => []TypeOK
<1>1. IInv => TypeOK
  BY DEF IInv
<1> QED
  BY <1>1, TerminalInvariant, PTL

(* Whatever the editor prints, erases and steps over, in whatever order,   *)
(* the terminal's cursor and what it shows are what the editor takes them  *)
(* to be, and the terminal reads text: every command that was sent was     *)
(* complete (mphalport.c:131-149).                                         *)
THEOREM TerminalInStep == Spec => []ScreenInStep
<1>1. IInv => ScreenInStep
  BY DEF IInv
<1> QED
  BY <1>1, TerminalInvariant, PTL

(* The D of a command of up to three digits replaces the NUL that snprintf *)
(* put there, inside of vt100_command (mphalport.c:138-141).               *)
THEOREM ShortCommandsFit == Spec => []ThreeDigitsFit
<1>1. IInv => ThreeDigitsFit
  BY RoomForThree
<1> QED
  BY <1>1, TerminalInvariant, PTL

(* What fits, as the editor sees it: as long as no step back is of a       *)
(* thousand characters or more, the D always replaces the NUL ("replace    *)
(* null char", mphalport.c:140) and no store leaves the array.             *)
THEOREM ShortStepsFit ==
  ASSUME \A pos \in Distances : pos < 1000
  PROVE  Spec => [](ReplacesNull /\ at # "wild")
<1> DEFINE J == IInv /\ at # "wild"
<1>1. IInv => ReplacesNull /\ (at = "replace" => n \in DOMAIN command)
  <2> SUFFICES ASSUME IInv, at = "replace"
               PROVE  n \in DOMAIN command /\ command[n] = "NUL"
    BY DEF ReplacesNull
  <2>1. PICK pos \in Distances : n = 2 + Len(Decimal[pos])
    BY DEF IInv, Pending
  <2>2. n <= Len(<<"ESC", "[">>) + 3
    <3>1. pos \in Nat /\ pos < 1000
      BY DistancesAssumption
    <3>2. Len(Decimal[pos]) <= 3 /\ Len(Decimal[pos]) \in Nat
      BY <3>1, ThreeDigits, DecimalType
    <3> QED
      BY <2>1, <3>2
  <2> QED
    BY <2>2, RoomForThree DEF ThreeDigitsFit, ReplacesNull
<1>2. Init => at # "wild"
  BY DEF Init
<1>3. IInv /\ at # "wild" /\ [Next]_vars => (at # "wild")'
  BY <1>1 DEF Next, PrintText, EraseLine, StepBackShort, StepBackFormat,
     StepBackSend, Stopped, vars
<1> QED
  BY <1>1, <1>2, <1>3, TerminalInvariant, PTL DEF Spec
=============================================================================
