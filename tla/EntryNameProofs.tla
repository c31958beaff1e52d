-------------------------- MODULE EntryNameProofs ---------------------------
(***************************************************************************)
(* Proofs about EntryName: parse_int_bytes computes what a name denotes,   *)
(* for names and integers of any size.  The provers have no rule of        *)
(* induction they could apply, but the natural numbers are well founded,   *)
(* which is a statement about sets; induction is done by looking at the    *)
(* least counterexample.                                                   *)
(***************************************************************************)
EXTENDS EntryName, WellFoundedInduction, TLAPS

USE ZenonT(30)

LEMMA LeastNatural ==
  ASSUME NEW T, T \subseteq Nat, T # {}
  PROVE  \E n \in T : \A m \in T : n <= m
<1> DEFINE R == OpToRel(<, Nat)
<1>1. \A m, n \in Nat : m < n => <<m, n>> \in R
  BY SMTT(30) DEF OpToRel
<1>2. IsWellFoundedOn(R, Nat)
  BY NatLessThanWellFounded
<1> HIDE DEF R
<1>3. PICK n \in T : \A m \in T : <<m, n>> \notin R
  BY <1>2, WFMin
<1>4. n \in Nat /\ \A m \in T : m \in Nat /\ ~(m < n)
  BY <1>1, <1>3
<1> QED BY SMTT(30), <1>4

(* A set that contains a number if it contains all the smaller ones.       *)
LEMMA StrongInduction ==
  ASSUME NEW n \in Nat, NEW P,
         \A i \in 0..n : (\A j \in 0..(i - 1) : j \in P) => i \in P
  PROVE  \A i \in 0..n : i \in P
<1> DEFINE T == {i \in 0..n : i \notin P}
<1> SUFFICES ASSUME T # {} PROVE FALSE
  BY SMTT(30)
<1>1. T \subseteq Nat
  BY SMTT(30)
<1>2. PICK i \in T : \A j \in T : i <= j
  BY <1>1, LeastNatural
<1>3. \A j \in 0..(i - 1) : j \in P
  BY SMTT(30), <1>2
<1> QED BY SMTT(30), <1>2, <1>3

(* A set that contains 0 and, with a number, the next one.                 *)
LEMMA Induction ==
  ASSUME NEW n \in Nat, NEW P, 0 \in P,
         \A i \in 1..n : i - 1 \in P => i \in P
  PROVE  \A i \in 0..n : i \in P
<1>1. ASSUME NEW i \in 0..n, \A j \in 0..(i - 1) : j \in P PROVE i \in P
  BY SMTT(30), <1>1
<1> QED BY <1>1, StrongInduction

(* Primitive recursion from c by the steps h defines a function.           *)
LEMMA PrimitiveRecursion ==
  ASSUME NEW n \in Nat, NEW c \in Nat, NEW h \in [1..n -> [Nat -> Nat]]
  PROVE  \E g \in [0..n -> Nat] :
           g[0] = c /\ \A i \in 1..n : g[i] = h[i][g[i - 1]]
<1> DEFINE Rec(g, m) == /\ g[0] = c
                        /\ \A i \in 1..m : g[i] = h[i][g[i - 1]]
           P == {m \in 0..n : \E g \in [0..m -> Nat] : Rec(g, m)}
<1>1. 0 \in P
  <2>1. [i \in 0..0 |-> c] \in [0..0 -> Nat] /\ Rec([i \in 0..0 |-> c], 0)
    BY SMTT(30)
  <2>2. 0 \in 0..n
    BY SMTT(30)
  <2> HIDE DEF Rec
  <2> QED BY <2>1, <2>2
<1>2. ASSUME NEW m \in 1..n, m - 1 \in P PROVE m \in P
  <2>1. PICK g \in [0..(m - 1) -> Nat] : Rec(g, m - 1)
    BY <1>2
  <2> DEFINE x == h[m][g[m - 1]]
             e == [i \in 0..m |-> IF i = m THEN x ELSE g[i]]
  <2>2. g[m - 1] \in Nat
    BY SMTT(30), <2>1
  <2>3. x \in Nat
    BY <2>2
  <2>4. e \in [0..m -> Nat]
    <3> HIDE DEF x
    <3> QED BY SMTT(30), <2>1, <2>3
  <2>5. Rec(e, m)
    <3>1. e[0] = c
      BY SMTT(30), <2>1
    <3>2. ASSUME NEW i \in 1..m PROVE e[i] = h[i][e[i - 1]]
      <4>1. i - 1 \in 0..m /\ i - 1 # m
        BY SMTT(30)
      <4>2. e[i - 1] = g[i - 1]
        BY SMTT(30), <4>1
      <4>3. CASE i = m
        <5>1. e[i] = x
          BY SMTT(30), <4>3
        <5> QED BY <4>2, <4>3, <5>1
      <4>4. CASE i # m
        <5>1. i \in 1..(m - 1) /\ i \in 0..m
          BY SMTT(30), <4>4
        <5>2. e[i] = g[i]
          BY SMTT(30), <4>4, <5>1
        <5>3. g[i] = h[i][g[i - 1]]
          BY <2>1, <5>1
        <5> HIDE DEF e
        <5> QED BY <4>2, <5>2, <5>3
      <4> QED BY SMTT(30), <4>3, <4>4
    <3> QED BY <3>1, <3>2
  <2>6. m \in 0..n
    BY SMTT(30)
  <2> HIDE DEF Rec, e
  <2> QED BY <2>4, <2>5, <2>6
<1> HIDE DEF P
<1>3. \A m \in 0..n : m \in P
  BY <1>1, <1>2, Induction
<1>4. n \in P
  BY SMTT(30), <1>3
<1> QED BY <1>4 DEF P

-----------------------------------------------------------------------------
(* The value of a numeral.                                                 *)

LEMMA WeightDef ==
  /\ Weight \in [0..NameLen -> Nat]
  /\ Weight[0] = 1
  /\ \A k \in 1..NameLen : Weight[k] = 10 * Weight[k - 1]
<1> DEFINE h == [k \in 1..NameLen |-> [v \in Nat |-> 10 * v]]
           F(g) == [k \in 0..NameLen |-> IF k = 0 THEN 1 ELSE 10 * g[k - 1]]
<1>0. NameLen \in Nat
  BY SMTT(30), EntryNameAssumption
<1>1. h \in [1..NameLen -> [Nat -> Nat]]
  BY SMTT(30)
<1>2. PICK g \in [0..NameLen -> Nat] :
        g[0] = 1 /\ \A i \in 1..NameLen : g[i] = h[i][g[i - 1]]
  <2> HIDE DEF h
  <2>1. \A c \in Nat : \E g \in [0..NameLen -> Nat] :
          g[0] = c /\ \A i \in 1..NameLen : g[i] = h[i][g[i - 1]]
    BY <1>0, <1>1, PrimitiveRecursion
  <2>2. 1 \in Nat
    BY SMTT(30)
  <2> QED BY <2>1, <2>2
<1>3. ASSUME NEW i \in 1..NameLen PROVE g[i] = 10 * g[i - 1]
  <2>1. i - 1 \in 0..NameLen
    BY SMTT(30), <1>0
  <2>2. g[i - 1] \in Nat
    BY SMTT(30), <1>2, <2>1
  <2> QED BY <1>2, <2>2
<1>4. g = F(g)
  BY SMTT(30), <1>0, <1>2, <1>3
<1>5. Weight = CHOOSE f : f = F(f)
  BY SMTT(30) DEF Weight
<1> HIDE DEF F
<1>6. Weight = F(Weight)
  BY <1>4, <1>5
<1> USE DEF F
<1>7. Weight[0] = 1 /\ \A k \in 1..NameLen : Weight[k] = 10 * Weight[k - 1]
  BY SMTT(30), <1>0, <1>6
<1> DEFINE P == {k \in 0..NameLen : Weight[k] \in Nat}
<1>8. \A k \in 0..NameLen : k \in P
  <2>1. 0 \in P
    BY SMTT(30), <1>0, <1>7
  <2>2. ASSUME NEW k \in 1..NameLen, k - 1 \in P PROVE k \in P
    BY SMTT(30), <1>0, <1>7, <2>2
  <2> HIDE DEF P
  <2> QED BY <1>0, <2>1, <2>2, Induction
<1>9. DOMAIN Weight = 0..NameLen /\ Weight = [k \in DOMAIN Weight |-> Weight[k]]
  BY SMTT(30), <1>6
<1> QED BY SMTT(30), <1>7, <1>8, <1>9

LEMMA WeightedSumDef ==
  ASSUME NEW s \in Seq(Digit), Len(s) <= NameLen
  PROVE  /\ WeightedSum(s) \in [0..Len(s) -> Nat]
         /\ WeightedSum(s)[0] = 0
         /\ \A i \in 1..Len(s) :
              WeightedSum(s)[i] =
                WeightedSum(s)[i - 1] + s[i] * Weight[Len(s) - i]
<1> DEFINE n == Len(s)
           w == [i \in 1..n |-> s[i] * Weight[n - i]]
           h == [i \in 1..n |-> [v \in Nat |-> v + w[i]]]
           F(g) == [i \in 0..n |-> IF i = 0 THEN 0
                                   ELSE g[i - 1] + s[i] * Weight[n - i]]
<1>0. n \in Nat /\ NameLen \in Nat
  BY SMTT(30), EntryNameAssumption
<1>1. ASSUME NEW i \in 1..n PROVE w[i] = s[i] * Weight[n - i] /\ w[i] \in Nat
  <2>1. s[i] \in Nat
    BY SMTT(30), <1>0 DEF Digit
  <2>2. n - i \in 0..NameLen
    BY SMTT(30), <1>0
  <2>3. Weight[n - i] \in Nat
    BY SMTT(30), <2>2, WeightDef
  <2>4. \A a, b \in Nat : a * b \in Nat
    BY SMTT(30)
  <2> QED BY <2>1, <2>3, <2>4
<1> HIDE DEF w
<1>2. h \in [1..n -> [Nat -> Nat]]
  <2>1. \A a, b \in Nat : a + b \in Nat
    BY SMTT(30)
  <2> QED BY <1>1, <2>1
<1>3. PICK g \in [0..n -> Nat] :
        g[0] = 0 /\ \A i \in 1..n : g[i] = h[i][g[i - 1]]
  <2> HIDE DEF h, n
  <2>1. \A c \in Nat : \E g \in [0..n -> Nat] :
          g[0] = c /\ \A i \in 1..n : g[i] = h[i][g[i - 1]]
    BY <1>0, <1>2, PrimitiveRecursion
  <2>2. 0 \in Nat
    BY SMTT(30)
  <2> QED BY <2>1, <2>2
<1>4. ASSUME NEW i \in 1..n PROVE g[i] = g[i - 1] + s[i] * Weight[n - i]
  <2>1. i - 1 \in 0..n
    BY SMTT(30), <1>0
  <2>2. g[i - 1] \in Nat
    BY SMTT(30), <1>3, <2>1
  <2>3. h[i][g[i - 1]] = g[i - 1] + w[i]
    BY SMTT(30), <2>2
  <2> QED BY <1>1, <1>3, <2>3
<1>5. g = F(g)
  <2>1. \A i \in 0..n : i = 0 \/ i \in 1..n
    BY SMTT(30), <1>0
  <2>2. \A i \in 0..n : g[i] = F(g)[i]
    BY <1>3, <1>4, <2>1
  <2> QED BY <1>3, <2>2
<1>6. WeightedSum(s) = CHOOSE f : f = F(f)
  BY SMTT(30) DEF WeightedSum
<1> HIDE DEF F
<1>7. WeightedSum(s) = F(WeightedSum(s))
  BY <1>5, <1>6
<1> DEFINE f == WeightedSum(s)
<1> HIDE DEF f
<1>8. f = F(f)
  BY SMTT(30), <1>7 DEF f
<1>9. f[0] = 0 /\ \A i \in 1..n : f[i] = f[i - 1] + w[i]
  <2>1. 0 \in 0..n /\ \A i \in 1..n : i \in 0..n /\ i # 0
    BY SMTT(30), <1>0
  <2> QED BY <1>1, <1>8, <2>1 DEF F
<1> DEFINE P == {i \in 0..n : f[i] \in Nat}
<1>10. \A i \in 0..n : i \in P
  <2>1. 0 \in P
    BY SMTT(30), <1>0, <1>9
  <2>2. ASSUME NEW i \in 1..n, i - 1 \in P PROVE i \in P
    <3>1. f[i - 1] \in Nat /\ w[i] \in Nat /\ f[i] = f[i - 1] + w[i]
      BY <1>1, <1>9, <2>2
    <3>2. \A a, b \in Nat : a + b \in Nat
      BY SMTT(30)
    <3>3. i \in 0..n
      BY SMTT(30), <1>0
    <3> QED BY <3>1, <3>2, <3>3
  <2> HIDE DEF P, n
  <2> QED BY <1>0, <2>1, <2>2, Induction
<1>11. f \in [0..n -> Nat]
  BY <1>8, <1>10 DEF F
<1> QED BY <1>1, <1>9, <1>11 DEF f

LEMMA ValueType ==
  ASSUME NEW s \in Seq(Digit), Len(s) <= NameLen
  PROVE  Value(s) \in Nat
<1>1. Len(s) \in 0..Len(s)
  BY SMTT(30)
<1> QED BY <1>1, WeightedSumDef DEF Value

LEMMA ValueEmpty == Value(<<>>) = 0
<1>1. <<>> \in Seq(Digit) /\ Len(<<>>) = 0 /\ 0 <= NameLen
  BY SMTT(30), EntryNameAssumption
<1> QED BY <1>1, WeightedSumDef DEF Value

(* One more digit shifts all the weights: what checked_mul and checked_add *)
(* compute.                                                                *)
LEMMA ValueAppend ==
  ASSUME NEW s \in Seq(Digit), NEW d \in Digit, Len(s) < NameLen
  PROVE  Value(Append(s, d)) = Value(s) * 10 + d
<1> DEFINE t == Append(s, d)
           n == Len(s)
           v == WeightedSum(s)
           w == WeightedSum(t)
           P == {i \in 0..n : w[i] = 10 * v[i]}
<1>0. n \in Nat /\ NameLen \in Nat /\ n <= NameLen
  BY SMTT(30), EntryNameAssumption
<1>1. t \in Seq(Digit) /\ Len(t) = n + 1 /\ t[n + 1] = d
  BY SMTT(30)
<1>2. \A i \in 1..n : t[i] = s[i] /\ s[i] \in Nat
  BY SMTT(30) DEF Digit
<1>3. Len(t) <= NameLen
  BY SMTT(30), <1>0, <1>1
<1> HIDE DEF t
<1>4. /\ v \in [0..n -> Nat] /\ v[0] = 0
      /\ \A i \in 1..n : v[i] = v[i - 1] + s[i] * Weight[n - i]
  BY <1>0, WeightedSumDef
<1>5. /\ w[0] = 0
      /\ \A i \in 1..Len(t) : w[i] = w[i - 1] + t[i] * Weight[Len(t) - i]
  BY <1>1, <1>3, WeightedSumDef
<1> HIDE DEF v, w
<1>6. \A i \in 0..n : i \in P
  <2>1. 0 \in P
    BY SMTT(30), <1>0, <1>4, <1>5
  <2>2. ASSUME NEW i \in 1..n, i - 1 \in P PROVE i \in P
    <3>1. /\ Len(t) - i \in 1..NameLen /\ (Len(t) - i) - 1 = n - i
          /\ n - i \in 0..NameLen
      BY SMTT(30), <1>0, <1>1
    <3>2. Weight[Len(t) - i] = 10 * Weight[n - i] /\ Weight[n - i] \in Nat
      BY SMTT(30), <3>1, WeightDef
    <3>3. i - 1 \in 0..n /\ i \in 0..n /\ i \in 1..Len(t)
      BY SMTT(30), <1>0, <1>1
    <3>4. /\ w[i] = 10 * v[i - 1] + s[i] * Weight[Len(t) - i]
          /\ v[i] = v[i - 1] + s[i] * Weight[n - i]
          /\ v[i - 1] \in Nat
      BY <1>2, <1>4, <1>5, <2>2, <3>3
    <3>5. \A a, b, c \in Nat : 10 * a + b * (10 * c) = 10 * (a + b * c)
      BY SMTT(30)
    <3>6. 10 * v[i - 1] + s[i] * (10 * Weight[n - i])
            = 10 * (v[i - 1] + s[i] * Weight[n - i])
      BY <1>2, <3>2, <3>4, <3>5
    <3>7. w[i] = 10 * v[i]
      BY <3>2, <3>4, <3>6
    <3> QED BY SMTT(30), <3>3, <3>7
  <2> HIDE DEF P, n
  <2> QED BY <1>0, <2>1, <2>2, Induction
<1>7. w[n] = 10 * v[n] /\ v[n] \in Nat
  BY SMTT(30), <1>0, <1>4, <1>6
<1>8. w[n + 1] = w[n] + d * Weight[0] /\ Weight[0] = 1
  <2>1. n + 1 \in 1..Len(t) /\ (n + 1) - 1 = n /\ Len(t) - (n + 1) = 0
    BY SMTT(30), <1>0, <1>1
  <2> QED BY <1>1, <1>5, <2>1, WeightDef
<1>9. w[n + 1] = v[n] * 10 + d
  BY SMTT(30), <1>7, <1>8 DEF Digit
<1> QED BY <1>1, <1>9 DEF Value, v, w, t

-----------------------------------------------------------------------------
(* The name of a descriptor.                                               *)

LEMMA LastDigit ==
  \A n \in Nat : n >= 10 =>
    /\ n \div 10 \in 1..(n - 1) /\ n % 10 \in Digit
    /\ n = (n \div 10) * 10 + (n % 10)
BY SMTT(30) DEF Digit

LEMMA DecimalNameDef ==
  \A n \in 0..IntMax :
    /\ DecimalName[n] \in Seq(Digit)
    /\ DecimalName[n] = IF n < 10 THEN <<n>>
                        ELSE Append(DecimalName[n \div 10], n % 10)
<1> DEFINE Name(g, i) == IF i < 10 THEN <<i>>
                         ELSE Append(g[i \div 10], i % 10)
           Rec(g, m) == \A i \in 0..m : g[i] = Name(g, i)
           P == {m \in 0..IntMax : \E g \in [0..m -> Seq(Digit)] : Rec(g, m)}
<1>0. IntMax \in Nat
  BY SMTT(30), EntryNameAssumption
<1>1. 0 \in P
  <2> DEFINE e == [i \in 0..0 |-> <<0>>]
  <2>1. 0 \in 0..IntMax /\ <<0>> \in Seq(Digit)
    BY SMTT(30), <1>0 DEF Digit
  <2>2. e \in [0..0 -> Seq(Digit)]
    BY SMTT(30), <2>1
  <2>3. Rec(e, 0)
    BY SMTT(30)
  <2> HIDE DEF Rec, e
  <2> QED BY <2>1, <2>2, <2>3
<1>2. ASSUME NEW m \in 1..IntMax, m - 1 \in P PROVE m \in P
  <2>1. PICK g \in [0..(m - 1) -> Seq(Digit)] : Rec(g, m - 1)
    BY <1>2
  <2> DEFINE x == Name(g, m)
             e == [i \in 0..m |-> IF i = m THEN x ELSE g[i]]
  <2>2. m \in Nat /\ m \in 0..IntMax
    BY SMTT(30), <1>0
  <2>3. x \in Seq(Digit)
    <3>1. CASE m < 10
      BY SMTT(30), <2>2, <3>1 DEF Digit
    <3>2. CASE ~(m < 10)
      <4>1. m \div 10 \in 0..(m - 1) /\ m % 10 \in Digit
        BY SMTT(30), <2>2, <3>2, LastDigit
      <4>2. g[m \div 10] \in Seq(Digit)
        BY <2>1, <4>1
      <4>3. Append(g[m \div 10], m % 10) \in Seq(Digit)
        BY SMTT(30), <4>1, <4>2
      <4> QED BY <3>2, <4>3
    <3> QED BY <3>1, <3>2
  <2>4. e \in [0..m -> Seq(Digit)]
    <3> HIDE DEF x
    <3> QED BY SMTT(30), <2>1, <2>2, <2>3
  <2>5. ASSUME NEW i \in 0..m PROVE e[i] = Name(e, i)
    <3>1. e[i] = Name(g, i)
      <4>1. CASE i = m
        BY <4>1
      <4>2. CASE i # m
        <5>1. i \in 0..(m - 1)
          BY SMTT(30), <2>2, <4>2
        <5> QED BY <2>1, <4>2, <5>1
      <4> QED BY SMTT(30), <4>1, <4>2
    <3>2. CASE i < 10
      BY <3>1, <3>2
    <3>3. CASE ~(i < 10)
      <4>1. i \div 10 \in 0..m /\ i \div 10 # m
        BY SMTT(30), <2>2, <3>3, LastDigit
      <4>2. e[i \div 10] = g[i \div 10]
        BY <4>1
      <4> QED BY <3>1, <3>3, <4>2
    <3> QED BY <3>2, <3>3
  <2> HIDE DEF e
  <2> QED BY <2>2, <2>4, <2>5
<1>3. PICK g \in [0..IntMax -> Seq(Digit)] : Rec(g, IntMax)
  <2> HIDE DEF P
  <2>1. \A m \in 0..IntMax : m \in P
    BY <1>0, <1>1, <1>2, Induction
  <2>2. IntMax \in 0..IntMax
    BY SMTT(30), <1>0
  <2> QED BY <2>1, <2>2 DEF P
<1> DEFINE F(f) == [i \in 0..IntMax |-> Name(f, i)]
<1>4. g = F(g)
  BY <1>3
<1>5. DecimalName = CHOOSE f : f = F(f)
  BY SMTT(30) DEF DecimalName
<1> DEFINE dn == DecimalName
<1> HIDE DEF F, dn
<1>6. dn = F(dn)
  BY <1>4, <1>5 DEF dn
<1>7. \A i \in 0..IntMax : dn[i] = Name(dn, i)
  BY <1>6 DEF F
<1> DEFINE Q == {i \in 0..IntMax : dn[i] \in Seq(Digit)}
<1>8. ASSUME NEW i \in 0..IntMax, \A j \in 0..(i - 1) : j \in Q PROVE i \in Q
  <2>1. CASE i < 10
    <3>1. <<i>> \in Seq(Digit)
      BY SMTT(30), <1>0, <2>1 DEF Digit
    <3> QED BY <1>7, <2>1, <3>1
  <2>2. CASE ~(i < 10)
    <3>1. i \div 10 \in 0..(i - 1) /\ i % 10 \in Digit
      BY SMTT(30), <1>0, <2>2, LastDigit
    <3>2. dn[i \div 10] \in Seq(Digit)
      BY <1>8, <3>1
    <3>3. Append(dn[i \div 10], i % 10) \in Seq(Digit)
      BY SMTT(30), <3>1, <3>2
    <3> QED BY <1>7, <2>2, <3>3
  <2> QED BY <2>1, <2>2
<1> HIDE DEF Q
<1>9. \A i \in 0..IntMax : i \in Q
  BY <1>0, <1>8, StrongInduction
<1> QED BY <1>7, <1>9 DEF Q, dn

(* It is a numeral whose value is the descriptor.                          *)
LEMMA DecimalValue ==
  \A n \in 0..IntMax :
    /\ DecimalName[n] # <<>>
    /\ Len(DecimalName[n]) <= NameLen => Value(DecimalName[n]) = n
<1> DEFINE dn == DecimalName
           P == {n \in 0..IntMax :
                   /\ dn[n] # <<>>
                   /\ Len(dn[n]) <= NameLen => Value(dn[n]) = n}
<1> HIDE DEF dn
<1>0. IntMax \in Nat /\ NameLen \in Nat
  BY SMTT(30), EntryNameAssumption
<1>1. \A n \in 0..IntMax :
        /\ dn[n] \in Seq(Digit)
        /\ dn[n] = IF n < 10 THEN <<n>> ELSE Append(dn[n \div 10], n % 10)
  BY DecimalNameDef DEF dn
<1>2. ASSUME NEW n \in 0..IntMax, \A m \in 0..(n - 1) : m \in P PROVE n \in P
  <2>1. CASE n < 10
    <3>1. dn[n] = <<n>>
      BY <1>1, <2>1
    <3>2. <<n>> # <<>> /\ Len(<<n>>) = 1 /\ <<n>> = Append(<<>>, n)
      BY SMTT(30)
    <3>3. <<>> \in Seq(Digit) /\ n \in Digit /\ Len(<<>>) = 0
      BY SMTT(30), <1>0, <2>1 DEF Digit
    <3>4. 1 <= NameLen => 0 < NameLen
      BY SMTT(30), <1>0
    <3>5. 1 <= NameLen => Value(<<n>>) = 0 * 10 + n
      BY <3>2, <3>3, <3>4, ValueAppend, ValueEmpty
    <3>6. 0 * 10 + n = n
      BY SMTT(30), <1>0
    <3> QED BY <3>1, <3>2, <3>5, <3>6
  <2>2. CASE ~(n < 10)
    <3> DEFINE q == n \div 10
               d == n % 10
    <3>1. q \in 0..(n - 1) /\ q \in 0..IntMax /\ d \in Digit
          /\ n = q * 10 + d
      BY SMTT(30), <1>0, <2>2, LastDigit
    <3>2. dn[n] = Append(dn[q], d)
      BY <1>1, <2>2
    <3> HIDE DEF q, d
    <3>3. dn[q] \in Seq(Digit) /\ q \in P
      BY <1>1, <1>2, <3>1
    <3>4. /\ Append(dn[q], d) # <<>>
          /\ Len(Append(dn[q], d)) = Len(dn[q]) + 1
          /\ Len(dn[q]) \in Nat
      BY SMTT(30), <3>3
    <3>5. Len(dn[n]) <= NameLen =>
            Len(dn[q]) <= NameLen /\ Len(dn[q]) < NameLen
      BY SMTT(30), <1>0, <3>2, <3>4
    <3>6. Len(dn[n]) <= NameLen => Value(dn[n]) = q * 10 + d
      BY <3>1, <3>2, <3>3, <3>5, ValueAppend
    <3> QED BY <3>1, <3>2, <3>4, <3>6
  <2> QED BY <2>1, <2>2
<1> HIDE DEF P
<1>3. \A n \in 0..IntMax : n \in P
  BY <1>0, <1>2, StrongInduction
<1> QED BY <1>3 DEF P, dn

-----------------------------------------------------------------------------
(* Prefixes.                                                               *)

LEMMA Prefix ==
  ASSUME NEW S, NEW s \in Seq(S), NEW j \in 0..Len(s)
  PROVE  /\ SubSeq(s, 1, j) \in Seq(S)
         /\ Len(SubSeq(s, 1, j)) = j
         /\ \A i \in 1..j : SubSeq(s, 1, j)[i] = s[i]
BY SMTT(30)

LEMMA PrefixAppend ==
  ASSUME NEW S, NEW s \in Seq(S), NEW j \in 1..Len(s)
  PROVE  SubSeq(s, 1, j) = Append(SubSeq(s, 1, j - 1), s[j])
BY SMTT(30)

LEMMA PrefixExtensional ==
  ASSUME NEW S, NEW s \in Seq(S), NEW t \in Seq(S), NEW j \in Nat,
         j <= Len(s), j <= Len(t), \A i \in 1..j : s[i] = t[i]
  PROVE  SubSeq(s, 1, j) = SubSeq(t, 1, j)
BY SMTT(30)

(* A prefix of a numeral is worth no more than the numeral: what has       *)
(* overflowed stays too large.                                             *)
LEMMA ValueOfPrefix ==
  ASSUME NEW s \in Seq(Digit), Len(s) <= NameLen, NEW j \in 0..Len(s)
  PROVE  Value(SubSeq(s, 1, j)) <= Value(s)
<1> DEFINE v == [i \in 0..Len(s) |-> Value(SubSeq(s, 1, i))]
           n == Len(s) - j
           P == {i \in 0..n : v[j] <= v[j + i]}
<1>0. NameLen \in Nat /\ Len(s) \in Nat /\ n \in Nat
  BY SMTT(30), EntryNameAssumption
<1>1. \A i \in 0..Len(s) : v[i] \in Nat
  <2>1. ASSUME NEW i \in 0..Len(s)
        PROVE  SubSeq(s, 1, i) \in Seq(Digit)
               /\ Len(SubSeq(s, 1, i)) <= NameLen
    BY SMTT(30), <1>0, Prefix
  <2> QED BY <2>1, ValueType
<1>2. ASSUME NEW i \in 1..Len(s) PROVE v[i] = v[i - 1] * 10 + s[i]
  <2>1. i \in 0..Len(s) /\ i - 1 \in 0..Len(s) /\ s[i] \in Digit
    BY SMTT(30), <1>0
  <2>2. SubSeq(s, 1, i - 1) \in Seq(Digit)
        /\ Len(SubSeq(s, 1, i - 1)) < NameLen
    BY SMTT(30), <1>0, <2>1, Prefix
  <2> QED BY <2>1, <2>2, PrefixAppend, ValueAppend
<1> HIDE DEF v
<1>3. 0 \in P
  BY SMTT(30), <1>0, <1>1
<1>4. ASSUME NEW i \in 1..n, i - 1 \in P PROVE i \in P
  <2>1. j + i \in 1..Len(s) /\ (j + i) - 1 = j + (i - 1)
        /\ j + (i - 1) \in 0..Len(s) /\ i \in 0..n
    BY SMTT(30), <1>0
  <2>2. v[j + i] = v[j + (i - 1)] * 10 + s[j + i]
    BY <1>2, <2>1
  <2>3. /\ v[j] \in Nat /\ v[j + (i - 1)] \in Nat
        /\ v[j] <= v[j + (i - 1)]
    BY <1>1, <1>4, <2>1
  <2>4. s[j + i] \in Nat
    BY SMTT(30), <2>1 DEF Digit
  <2>5. \A a, b, c \in Nat : a <= b => a <= b * 10 + c
    BY SMTT(30)
  <2> QED BY <2>1, <2>2, <2>3, <2>4, <2>5
<1>5. n \in P
  <2> HIDE DEF P, n
  <2>1. \A i \in 0..n : i \in P
    BY <1>0, <1>3, <1>4, Induction
  <2> QED BY SMTT(30), <1>0, <2>1
<1>6. j + n = Len(s) /\ Len(s) \in 0..Len(s) /\ SubSeq(s, 1, Len(s)) = s
  BY SMTT(30), <1>0
<1> QED BY <1>5, <1>6 DEF v

-----------------------------------------------------------------------------
(* The inductive invariant: num is the value of what has been consumed,    *)
(* all of it digits, and the call returns for one of three reasons.        *)

NameTypes ==
  /\ d_name \in Seq(Bytes) /\ Len(d_name) <= NameLen
  /\ at \in 0..Len(d_name)
  /\ num \in 0..IntMax

Consumed == SubSeq(d_name, 1, at)

ValueSoFar ==
  /\ \A i \in 1..at : d_name[i] \in Digit
  /\ seen_any <=> at > 0
  /\ num = Value(Consumed)

(* Without a leading zero nothing of the name is lost in its value.        *)
NameSoFar ==
  /\ at > 0 /\ d_name[1] # 0 => num > 0
  /\ at > 0 /\ (d_name[1] # 0 \/ at = 1) => DecimalName[num] = Consumed

ReturnedAtEnd == AtEnd /\ parsed = Outcome

ReturnedOverflow ==
  /\ ~AtEnd /\ d_name[at + 1] \in Digit
  /\ num * 10 + d_name[at + 1] > IntMax
  /\ parsed = None

ReturnedNotDigit == ~AtEnd /\ d_name[at + 1] \notin Digit /\ parsed = None

WhyReturned ==
  ~parsing => ReturnedAtEnd \/ ReturnedOverflow \/ ReturnedNotDigit

NameInv == NameTypes /\ ValueSoFar /\ NameSoFar /\ WhyReturned

LEMMA NameInitInv == NameInit => NameInv
<1> SUFFICES ASSUME NameInit PROVE NameInv
  BY SMTT(30)
<1>0. NameLen \in Nat /\ IntMax \in Nat
  BY SMTT(30), EntryNameAssumption
<1>1. d_name \in Seq(Bytes) /\ Len(d_name) <= NameLen
  <2>1. PICK n \in 0..NameLen : d_name \in [1..n -> Bytes]
    BY SMTT(30) DEF NameInit, Names
  <2>2. n \in Nat
    BY SMTT(30), <1>0
  <2> QED BY SMTT(30), <1>0, <2>1, <2>2
<1>2. NameTypes
  BY SMTT(30), <1>0, <1>1 DEF NameInit, NameTypes
<1>3. ValueSoFar
  <2>1. Consumed = <<>>
    BY SMTT(30), <1>1 DEF NameInit, Consumed
  <2>2. 1..at = {} /\ ~(at > 0)
    BY SMTT(30) DEF NameInit
  <2> QED BY <2>1, <2>2, ValueEmpty DEF NameInit, ValueSoFar
<1>4. NameSoFar
  BY SMTT(30) DEF NameInit, NameSoFar
<1> QED BY SMTT(30), <1>2, <1>3, <1>4 DEF NameInv, NameInit, WhyReturned

(* What the loop looks at next.                                            *)
LEMMA NextByte ==
  ASSUME NameTypes, ~AtEnd
  PROVE  at + 1 \in 1..Len(d_name) /\ d_name[at + 1] # Nul
BY SMTT(30) DEF NameTypes, AtEnd

(* Push is None exactly when the value does not fit.                       *)
LEMMA PushValue ==
  ASSUME NameTypes, d_name[at + 1] \in Digit
  PROVE  /\ Push(num) = None => num * 10 + d_name[at + 1] > IntMax
         /\ Push(num) # None => /\ Push(num) = num * 10 + d_name[at + 1]
                                /\ Push(num) \in 0..IntMax
<1> DEFINE d == d_name[at + 1]
<1>1. num \in Nat /\ d \in Nat /\ IntMax \in Nat
  BY SMTT(30), EntryNameAssumption DEF NameTypes, Digit
<1> HIDE DEF d
<1>2. /\ num * 10 > IntMax \/ num * 10 + d > IntMax => num * 10 + d > IntMax
      /\ ~(num * 10 > IntMax \/ num * 10 + d > IntMax) =>
           num * 10 + d \in 0..IntMax
  BY SMTT(30), <1>1
<1>3. Push(num) = IF num * 10 > IntMax \/ num * 10 + d > IntMax
                  THEN None ELSE num * 10 + d
  BY DEF Push, d
<1> QED BY <1>2, <1>3, EntryNameAssumption DEF d

LEMMA ConsumedDigits ==
  ASSUME NameTypes, ValueSoFar
  PROVE  Consumed \in Seq(Digit) /\ Len(Consumed) = at
<1>1. Consumed \in Seq(Bytes) /\ Len(Consumed) = at
      /\ \A i \in 1..at : Consumed[i] = d_name[i]
  BY SMTT(30), Prefix DEF NameTypes, Consumed
<1>2. \A i \in 1..Len(Consumed) : Consumed[i] \in Digit
  BY SMTT(30), <1>1 DEF ValueSoFar
<1> HIDE DEF Consumed
<1> QED BY SMTT(30), <1>1, <1>2

(* A digit that fits.                                                      *)
LEMMA PushStep ==
  ASSUME NameInv, ~AtEnd, d_name[at + 1] \in Digit, Push(num) # None,
         num' = Push(num), seen_any' = TRUE, at' = at + 1,
         UNCHANGED <<d_name, parsing, parsed>>, parsing
  PROVE  NameInv'
<1> DEFINE d == d_name[at + 1]
<1>0. NameTypes /\ ValueSoFar /\ NameSoFar
  BY SMTT(30) DEF NameInv
<1>1. at + 1 \in 1..Len(d_name)
  BY SMTT(30), <1>0, NextByte
<1>2. num' = num * 10 + d /\ num' \in 0..IntMax
  BY <1>0, PushValue
<1>3. NameTypes'
  <2>1. at' \in 0..Len(d_name)
    BY SMTT(30), <1>1
  <2> QED BY <1>0, <1>2, <2>1 DEF NameTypes
<1>4. Consumed' = Append(Consumed, d)
  <2>1. SubSeq(d_name, 1, at + 1) = Append(SubSeq(d_name, 1, (at + 1) - 1), d)
    BY <1>0, <1>1, PrefixAppend DEF NameTypes
  <2>2. (at + 1) - 1 = at
    BY SMTT(30), <1>0 DEF NameTypes
  <2> QED BY <2>1, <2>2 DEF Consumed
<1>5. Consumed \in Seq(Digit) /\ Len(Consumed) = at /\ at < NameLen
  <2>1. at < NameLen
    BY SMTT(30), <1>0, <1>1, EntryNameAssumption DEF NameTypes
  <2> QED BY SMTT(30), <1>0, <2>1, ConsumedDigits
<1>6. ValueSoFar'
  <2>1. Value(Append(Consumed, d)) = Value(Consumed) * 10 + d
    BY <1>5, ValueAppend
  <2>2. \A i \in 1..(at + 1) : i \in 1..at \/ i = at + 1
    BY SMTT(30), <1>0 DEF NameTypes
  <2>3. at + 1 > 0
    BY SMTT(30), <1>0 DEF NameTypes
  <2> QED BY <1>0, <1>2, <1>4, <2>1, <2>2, <2>3 DEF ValueSoFar
<1>7. num \in Nat /\ d \in Nat /\ d < 10 /\ at \in Nat
  BY SMTT(30), <1>0, EntryNameAssumption DEF NameTypes, Digit
<1> HIDE DEF d
<1>8. CASE at = 0
  <2>1. num = 0
    <3>1. Consumed = <<>>
      BY SMTT(30), <1>5, <1>8
    <3> QED BY SMTT(30), <1>0, <3>1, ValueEmpty DEF ValueSoFar
  <2>2. num' = d /\ at' = 1 /\ d = d_name[1]
    BY SMTT(30), <1>2, <1>7, <1>8, <2>1 DEF d
  <2>3. DecimalName[d] = <<d>>
    BY <1>2, <1>7, <2>2, DecimalNameDef
  <2>4. Consumed' = <<d>>
    <3>1. Consumed = <<>>
      BY SMTT(30), <1>5, <1>8
    <3> QED BY SMTT(30), <1>4, <3>1
  <2>5. d # 0 => d > 0
    BY SMTT(30), <1>7
  <2>6. NameSoFar'
    BY <2>2, <2>3, <2>4, <2>5 DEF NameSoFar
  <2> QED BY <1>3, <1>6, <2>6 DEF NameInv, WhyReturned
<1>9. CASE at # 0
  <2>1. at > 0 /\ at + 1 # 1
    BY SMTT(30), <1>7, <1>9
  <2>2. d_name[1] # 0 => num > 0 /\ DecimalName[num] = Consumed
    BY <1>0, <2>1 DEF NameSoFar
  <2>3. num > 0 => /\ num' > 0 /\ ~(num' < 10)
                   /\ num' \div 10 = num /\ num' % 10 = d
    BY SMTT(30), <1>2, <1>7
  <2>4. num > 0 => DecimalName[num'] = Append(DecimalName[num], d)
    BY <1>2, <2>3, DecimalNameDef
  <2>5. NameSoFar'
    BY <1>4, <2>1, <2>2, <2>3, <2>4 DEF NameSoFar
  <2> QED BY <1>3, <1>6, <2>5 DEF NameInv, WhyReturned
<1> QED BY SMTT(30), <1>8, <1>9

LEMMA NameStepInv == NameInv /\ [NameNext]_nameVars => NameInv'
<1> SUFFICES ASSUME NameInv, [NameNext]_nameVars PROVE NameInv'
  BY SMTT(30)
<1>0. NameTypes /\ ValueSoFar /\ NameSoFar
  BY SMTT(30) DEF NameInv
<1>1. ASSUME NEW r, Return(r), parsed' = r =>
               \/ ReturnedAtEnd' \/ ReturnedOverflow' \/ ReturnedNotDigit'
      PROVE  NameInv'
  BY <1>0, <1>1
  DEF Return, NameInv, NameTypes, ValueSoFar, Consumed, NameSoFar, WhyReturned
<1>2. CASE Consume
  <2>1. CASE /\ d_name[at + 1] \in Digit /\ Push(num) # None
             /\ num' = Push(num) /\ seen_any' = TRUE /\ at' = at + 1
             /\ UNCHANGED <<d_name, parsing, parsed>>
    BY <1>2, <2>1, PushStep DEF Consume
  <2>2. CASE d_name[at + 1] \in Digit /\ Push(num) = None /\ Return(None)
    <3>1. num * 10 + d_name[at + 1] > IntMax
      BY <1>0, <2>2, PushValue
    <3>2. ReturnedOverflow'
      BY <1>2, <2>2, <3>1 DEF Consume, Return, ReturnedOverflow, AtEnd
    <3> QED BY <1>1, <2>2, <3>2
  <2>3. CASE d_name[at + 1] \notin Digit /\ Return(None)
    <3>1. ReturnedNotDigit'
      BY <1>2, <2>3 DEF Consume, Return, ReturnedNotDigit, AtEnd
    <3> QED BY <1>1, <2>3, <3>1
  <2> QED BY <1>2, <2>1, <2>2, <2>3 DEF Consume
<1>3. CASE Finish
  <2>1. ReturnedAtEnd'
    BY <1>3 DEF Finish, Return, ReturnedAtEnd, AtEnd, Outcome
  <2> QED BY <1>1, <1>3, <2>1 DEF Finish
<1>4. CASE UNCHANGED nameVars
  BY <1>0, <1>4
  DEF nameVars, NameInv, NameTypes, ValueSoFar, Consumed, NameSoFar,
      WhyReturned, ReturnedAtEnd, ReturnedOverflow, ReturnedNotDigit, AtEnd,
      Outcome
<1> QED BY <1>2, <1>3, <1>4 DEF NameNext

(* The invariant holds for names and integers of every size.               *)
THEOREM NameInvariant == NameSpec => []NameInv
BY NameInitInv, NameStepInv, PTL DEF NameSpec

-----------------------------------------------------------------------------
(* What the name denotes.                                                  *)

LEMMA TextBytes ==
  ASSUME NameTypes
  PROVE  /\ TextLen \in 0..Len(d_name)
         /\ \A i \in 1..TextLen : d_name[i] # Nul
         /\ TextLen = Len(d_name) \/ d_name[TextLen + 1] = Nul
<1> DEFINE N == {i - 1 : i \in {j \in DOMAIN d_name : d_name[j] = Nul}}
           T == N \cup {Len(d_name)}
<1>0. Len(d_name) \in Nat /\ DOMAIN d_name = 1..Len(d_name)
  BY SMTT(30) DEF NameTypes
<1>1. T \subseteq 0..Len(d_name) /\ Len(d_name) \in T
  BY SMTT(30), <1>0
<1>2. \A x : x \in T =>
        x = Len(d_name) \/ (x + 1 \in DOMAIN d_name /\ d_name[x + 1] = Nul)
  BY SMTT(30), <1>0
<1>3. \A i \in 1..Len(d_name) : d_name[i] = Nul => i - 1 \in T
  BY SMTT(30), <1>0
<1>4. TextLen = CHOOSE x \in T : \A y \in T : x <= y
  BY SMTT(30) DEF TextLen, Min
<1> HIDE DEF T
<1>5. \E x \in T : \A y \in T : x <= y
  <2>1. T \subseteq Nat /\ T # {}
    BY SMTT(30), <1>0, <1>1
  <2> QED BY <2>1, LeastNatural
<1>6. TextLen \in T /\ \A y \in T : TextLen <= y
  BY <1>4, <1>5
<1>7. \A i \in 1..TextLen : d_name[i] # Nul
  <2> SUFFICES ASSUME NEW i \in 1..TextLen, d_name[i] = Nul PROVE FALSE
    BY SMTT(30)
  <2>1. TextLen \in 0..Len(d_name)
    BY SMTT(30), <1>1, <1>6
  <2>2. i \in 1..Len(d_name) /\ ~(TextLen <= i - 1)
    BY SMTT(30), <1>0, <2>1
  <2> QED BY <1>3, <1>6, <2>2
<1> QED BY <1>1, <1>2, <1>6, <1>7

LEMMA TextIsPrefix ==
  ASSUME NameTypes
  PROVE  /\ Text \in Seq(Bytes) /\ Len(Text) = TextLen
         /\ Len(Text) \in 0..NameLen
         /\ \A i \in 1..Len(Text) : Text[i] = d_name[i]
<1>1. Text \in Seq(Bytes) /\ Len(Text) = TextLen
      /\ \A i \in 1..TextLen : Text[i] = d_name[i]
  BY TextBytes, Prefix DEF Text, NameTypes
<1>2. TextLen \in 0..NameLen
  BY SMTT(30), TextBytes, EntryNameAssumption DEF NameTypes
<1> QED BY <1>1, <1>2

(* The loop runs to the end of the text, unless it returns within it.      *)
LEMMA WhereInText ==
  ASSUME NameTypes, ValueSoFar
  PROVE  /\ AtEnd => Text = Consumed /\ Len(Text) = at
         /\ ~AtEnd => at + 1 \in 1..Len(Text)
<1>0. at \in Nat /\ Len(d_name) \in Nat /\ at <= Len(d_name)
      /\ DOMAIN d_name = 1..Len(d_name)
  BY SMTT(30) DEF NameTypes
<1>1. \A i \in 1..at : d_name[i] # Nul
  BY EntryNameAssumption DEF ValueSoFar
<1>2. ~(TextLen < at)
  <2> SUFFICES ASSUME TextLen < at PROVE FALSE
    BY SMTT(30)
  <2>1. TextLen + 1 \in 1..at /\ TextLen # Len(d_name)
    BY SMTT(30), <1>0, TextBytes
  <2> QED BY <1>1, <2>1, TextBytes
<1>3. ASSUME AtEnd PROVE TextLen = at
  <2> SUFFICES ASSUME TextLen # at PROVE FALSE
    BY SMTT(30)
  <2>1. at + 1 \in 1..TextLen /\ at + 1 \in DOMAIN d_name
    BY SMTT(30), <1>0, <1>2, TextBytes
  <2> QED BY <1>3, <2>1, TextBytes DEF AtEnd
<1>4. ASSUME ~AtEnd PROVE at + 1 \in 1..TextLen
  <2>1. at + 1 \in 1..Len(d_name) /\ d_name[at + 1] # Nul
    BY SMTT(30), <1>4, NextByte
  <2>2. TextLen # at
    <3>0. \A m, n \in Nat : m + 1 \in 1..n => m # n
      BY SMTT(30)
    <3>1. at # Len(d_name)
      BY <1>0, <2>1, <3>0
    <3> QED BY <2>1, <3>1, TextBytes
  <2> QED BY SMTT(30), <1>0, <1>2, <2>2, TextBytes
<1>5. Len(Text) = TextLen
  BY SMTT(30), TextIsPrefix
<1> QED BY <1>3, <1>4, <1>5 DEF Text, Consumed

LEMMA NumeralText ==
  ASSUME NameTypes, IsNumeral(Text)
  PROVE  Text \in Seq(Digit) /\ Len(Text) <= NameLen /\ Value(Text) \in Nat
<1>1. Text \in Seq(Bytes) /\ Len(Text) <= NameLen
  BY SMTT(30), TextIsPrefix, EntryNameAssumption
<1>2. \A i \in DOMAIN Text : Text[i] \in Digit
  BY DEF IsNumeral
<1> HIDE DEF Text
<1>3. Text \in Seq(Digit)
  BY SMTT(30), <1>1, <1>2
<1> QED BY <1>1, <1>3, ValueType

LEMMA NameInvParses == NameInv => ParsesNumeral
<1> SUFFICES ASSUME NameInv, ~parsing PROVE ParsesNumeral
  BY SMTT(30) DEF ParsesNumeral
<1>0. /\ NameTypes /\ ValueSoFar
      /\ ReturnedAtEnd \/ ReturnedOverflow \/ ReturnedNotDigit
  BY DEF NameInv, WhyReturned
<1>1. CASE ReturnedAtEnd
  <2>1. Text = Consumed /\ Len(Text) = at /\ Text \in Seq(Digit)
    BY <1>0, <1>1, WhereInText, ConsumedDigits DEF ReturnedAtEnd
  <2>2. at \in Nat /\ num <= IntMax
    BY SMTT(30), <1>0, EntryNameAssumption DEF NameTypes
  <2>3. Value(Text) = num /\ (seen_any <=> at > 0)
    BY <1>0, <2>1 DEF ValueSoFar
  <2>4. IsNumeral(Text) <=> at > 0
    <3> HIDE DEF Text
    <3> QED BY SMTT(30), <2>1, <2>2 DEF IsNumeral
  <2> QED BY <1>1, <2>2, <2>3, <2>4
          DEF ReturnedAtEnd, Outcome, ParsesNumeral
<1>2. CASE ReturnedOverflow
  <2>1. ASSUME IsNumeral(Text) PROVE ~(Value(Text) <= IntMax)
    <3> DEFINE d == d_name[at + 1]
               p == SubSeq(Text, 1, at + 1)
    <3>1. Text \in Seq(Digit) /\ Len(Text) <= NameLen /\ Value(Text) \in Nat
      BY <1>0, <2>1, NumeralText
    <3>2. /\ at + 1 \in 1..Len(Text) /\ d \in Digit
          /\ num * 10 + d > IntMax
      BY <1>0, <1>2, WhereInText DEF ReturnedOverflow
    <3>3. at + 1 \in 0..Len(Text)
      BY SMTT(30), <3>2
    <3>4. Value(p) <= Value(Text)
      BY <3>1, <3>3, ValueOfPrefix
    <3>5. p = Append(Consumed, d)
      <4>1. Text[at + 1] = d
        BY <1>0, <3>2, TextIsPrefix
      <4>2. p = Append(SubSeq(Text, 1, (at + 1) - 1), Text[at + 1])
        BY <3>1, <3>2, PrefixAppend
      <4>3. at \in Nat /\ (at + 1) - 1 = at /\ at <= Len(d_name)
            /\ at <= Len(Text)
        BY SMTT(30), <1>0, <3>2 DEF NameTypes
      <4>4. \A i \in 1..at : Text[i] = d_name[i]
        <5>1. \A i \in 1..at : i \in 1..Len(Text)
          BY SMTT(30), <3>1, <4>3
        <5> QED BY <1>0, <5>1, TextIsPrefix
      <4>5. SubSeq(Text, 1, at) = SubSeq(d_name, 1, at)
        BY <1>0, <4>3, <4>4, PrefixExtensional, TextIsPrefix
        DEF NameTypes
      <4> QED BY <4>1, <4>2, <4>3, <4>5 DEF Consumed
    <3>6. Value(p) = num * 10 + d
      <4>1. Consumed \in Seq(Digit) /\ Len(Consumed) = at
        BY <1>0, ConsumedDigits
      <4>2. at < NameLen
        BY SMTT(30), <1>0, <3>1, <3>2, EntryNameAssumption DEF NameTypes
      <4> QED BY <1>0, <3>2, <3>5, <4>1, <4>2, ValueAppend
              DEF ValueSoFar
    <3>7. num \in Nat /\ d \in Nat /\ IntMax \in Nat
      BY SMTT(30), <1>0, <3>2, EntryNameAssumption DEF NameTypes, Digit
    <3> HIDE DEF p, d
    <3> QED BY SMTT(30), <3>1, <3>2, <3>4, <3>6, <3>7
  <2> QED BY <1>2, <2>1 DEF ReturnedOverflow, ParsesNumeral
<1>3. CASE ReturnedNotDigit
  <2>1. at + 1 \in 1..Len(Text) /\ d_name[at + 1] \notin Digit
    BY <1>0, <1>3, WhereInText DEF ReturnedNotDigit
  <2>2. Text[at + 1] \notin Digit
    BY <1>0, <2>1, TextIsPrefix
  <2>3. at + 1 \in DOMAIN Text
    <3>1. Text \in Seq(Bytes)
      BY <1>0, TextIsPrefix
    <3> HIDE DEF Text
    <3> QED BY SMTT(30), <2>1, <3>1
  <2>4. ~IsNumeral(Text)
    BY <2>2, <2>3 DEF IsNumeral
  <2> QED BY <1>3, <2>4 DEF ReturnedNotDigit, ParsesNumeral
<1> QED BY <1>0, <1>1, <1>2, <1>3

(* parse_int_bytes returns the value of a numeral that fits a c_int and    *)
(* None for everything else, for every name and every width of the integer *)
(* (ParsesNumeral): no multiplication or addition of the loop overflows    *)
(* unnoticed, and one that would is proof that the whole name is too large.*)
THEOREM NumeralsAreParsed == NameSpec => []ParsesNumeral
BY NameInvariant, NameInvParses, PTL

LEMMA NameInvDescriptor == NameInv => NameOfDescriptor
<1> SUFFICES ASSUME NameInv, ~parsing
             PROVE  /\ parsed # None /\ (Text[1] # 0 \/ Len(Text) = 1) =>
                         DecimalName[parsed] = Text
                    /\ parsed = None => \A fd \in 0..IntMax :
                                          DecimalName[fd] # Text
  BY DEF NameOfDescriptor
<1>0. /\ NameTypes /\ ValueSoFar /\ NameSoFar
      /\ ReturnedAtEnd \/ ReturnedOverflow \/ ReturnedNotDigit
  BY DEF NameInv, WhyReturned
<1>1. ASSUME parsed # None, Text[1] # 0 \/ Len(Text) = 1
      PROVE  DecimalName[parsed] = Text
  <2>1. AtEnd /\ seen_any /\ parsed = num
    BY <1>0, <1>1
    DEF ReturnedAtEnd, ReturnedOverflow, ReturnedNotDigit, Outcome
  <2>2. Text = Consumed /\ Len(Text) = at /\ at > 0
    BY <1>0, <2>1, WhereInText DEF ValueSoFar
  <2>3. 1 \in 1..at
    BY SMTT(30), <1>0, <2>2 DEF NameTypes
  <2>4. Text[1] = d_name[1]
    BY <1>0, <2>2, <2>3, TextIsPrefix
  <2> QED BY <1>0, <1>1, <2>1, <2>2, <2>4 DEF NameSoFar
<1>2. ASSUME parsed = None, NEW fd \in 0..IntMax, DecimalName[fd] = Text
      PROVE  FALSE
  <2>1. Text \in Seq(Digit) /\ Text # <<>>
    BY <1>2, DecimalNameDef, DecimalValue
  <2>2. IsNumeral(Text)
    <3> HIDE DEF Text
    <3> QED BY SMTT(30), <2>1 DEF IsNumeral
  <2>3. Value(Text) = fd
    BY <1>0, <1>2, <2>2, DecimalValue, NumeralText
  <2>4. fd <= IntMax /\ fd # None
    BY SMTT(30), EntryNameAssumption
  <2> QED BY <1>2, <2>2, <2>3, <2>4, NameInvParses DEF ParsesNumeral
<1> QED BY <1>1, <1>2

(* get_entry_info takes a name without leading zeros for the descriptor    *)
(* the kernel gives that name to and for no other, and it rejects no name  *)
(* of a descriptor (NameOfDescriptor).                                     *)
THEOREM NamesAreDescriptors == NameSpec => []NameOfDescriptor
BY NameInvariant, NameInvDescriptor, PTL
=============================================================================
