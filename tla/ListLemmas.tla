----------------------------- MODULE ListLemmas -----------------------------
(***************************************************************************)
(* Induction over the naturals with the property given as a set, so that   *)
(* first-order provers can instantiate it, and what follows from it: least *)
(* elements, induction up to a bound, the existence of functions defined   *)
(* by recursion; and with these what the operators of Lists return.        *)
(***************************************************************************)
EXTENDS Lists, SequencesExt, FiniteSetsExt, SequenceTheorems, WellFoundedInduction, TLAPS

------------------------------------------------------------------------------
(* Induction.                                                              *)

(* A non-empty set of naturals has a least element.                        *)
LEMMA LeastElement ==
  ASSUME NEW S \in SUBSET Nat, S # {}
  PROVE  \E m \in S : \A k \in S : m <= k
<1>1. PICK m \in S : \A k \in S : ~ (<<k, m>> \in OpToRel(<, Nat))
  BY NatLessThanWellFounded, WFMin
<1>2. OpToRel(<, Nat) = {ss \in Nat \X Nat : ss[1] < ss[2]}
  BY DEF OpToRel
<1>3. \A k \in S : ~ (k < m)
  BY <1>1, <1>2
<1>4. \A k \in S : k \in Nat /\ m \in Nat
  OBVIOUS
<1> QED BY <1>3, <1>4

(* What holds of 0 and passes from n to n + 1 holds of every natural.      *)
LEMMA SetInduction ==
  ASSUME NEW S, 0 \in S, \A n \in Nat : n \in S => n + 1 \in S
  PROVE  \A n \in Nat : n \in S
<1> SUFFICES ASSUME Nat \ S # {} PROVE FALSE
  OBVIOUS
<1>1. PICK m \in Nat \ S : \A k \in Nat \ S : m <= k
  BY LeastElement
<1>2. m \in Nat /\ m # 0 /\ m \notin S
  OBVIOUS
<1>3. m - 1 \in Nat /\ ~ (m <= m - 1) /\ (m - 1) + 1 = m
  BY <1>2
<1>4. m - 1 \in Nat \ S
  BY <1>2, <1>3
<1> QED BY <1>1, <1>3, <1>4

(* The same up to a bound.                                                 *)
LEMMA BoundedInduction ==
  ASSUME NEW n \in Nat, NEW S, 0 \in S, \A i \in 0..(n - 1) : i \in S => i + 1 \in S
  PROVE  \A i \in 0..n : i \in S
<1> DEFINE T == {i \in Nat : i <= n => i \in S}
<1>1. 0 \in T
  OBVIOUS
<1>2. \A i \in Nat : i \in T => i + 1 \in T
  OBVIOUS
<1> HIDE DEF T
<1>3. \A i \in Nat : i \in T
  BY <1>1, <1>2, SetInduction
<1> QED BY <1>3 DEF T

(* f is what a recursion of depth n computes: it starts from base, and its *)
(* i-th step turns the value before it into the next.                      *)
Iterates(f, n, D, base, step) ==
  /\ f \in [0..n -> D]
  /\ f[0] = base
  /\ \A i \in 1..n : f[i] = step[i][f[i - 1]]

(* Such a function exists.                                                 *)
LEMMA RecursionExists ==
  ASSUME NEW n \in Nat, NEW D, NEW base \in D, NEW step \in [Nat -> [D -> D]]
  PROVE  \E f : Iterates(f, n, D, base, step)
<1> DEFINE T == {m \in Nat : \E f : Iterates(f, m, D, base, step)}
<1>1. 0 \in T
  <2>1. Iterates([i \in 0..0 |-> base], 0, D, base, step)
    BY DEF Iterates
  <2> QED BY <2>1
<1>2. ASSUME NEW m \in Nat, m \in T PROVE m + 1 \in T
  <2>1. PICK f : Iterates(f, m, D, base, step)
    BY <1>2
  <2> USE DEF Iterates
  <2> DEFINE g == [i \in 0..(m + 1) |-> IF i <= m THEN f[i] ELSE step[m + 1][f[m]]]
  <2>2. step[m + 1][f[m]] \in D
    <3>1. m + 1 \in Nat /\ f[m] \in D
      BY <2>1
    <3> QED BY <3>1
  <2>3. g \in [0..(m + 1) -> D]
    BY <2>1, <2>2
  <2>4. g[0] = base
    BY <2>1
  <2>5. \A i \in 1..(m + 1) : g[i] = step[i][g[i - 1]]
    <3> SUFFICES ASSUME NEW i \in 1..(m + 1) PROVE g[i] = step[i][g[i - 1]]
      OBVIOUS
    <3>1. g[i - 1] = f[i - 1]
      OBVIOUS
    <3>2. CASE i <= m
      <4>1. g[i] = f[i] /\ f[i] = step[i][f[i - 1]]
        BY <3>2, <2>1
      <4> QED BY <4>1, <3>1
    <3>3. CASE i = m + 1
      <4>1. g[i] = step[m + 1][f[m]] /\ i - 1 = m
        BY <3>3
      <4> QED BY <4>1, <3>1, <3>3
    <3> QED BY <3>2, <3>3
  <2> HIDE DEF g
  <2>6. Iterates(g, m + 1, D, base, step)
    BY <2>3, <2>4, <2>5
  <2> HIDE DEF Iterates
  <2> QED BY <2>6
<1> HIDE DEF T
<1>3. \A m \in Nat : m \in T
  BY <1>1, <1>2, SetInduction
<1> QED BY <1>3 DEF T

(* The least of a set of naturals.                                         *)
LEMMA LeastMember ==
  ASSUME NEW S \in SUBSET Nat, S # {}
  PROVE  Min(S) \in S /\ \A s \in S : Min(S) <= s
<1>1. \E m \in S : \A s \in S : m <= s
  BY LeastElement
<1> QED BY <1>1 DEF Min

------------------------------------------------------------------------------
(* Lists.                                                                  *)

Upto(p, n) == {p[j] : j \in 1..n}

LEMMA UptoIsToSet ==
  ASSUME NEW T, NEW p \in Seq(T)
  PROVE  Upto(p, Len(p)) = ToSet(p)
BY DEF Upto, ToSet

LEMMA ToSetAppend ==
  ASSUME NEW T, NEW p \in Seq(T), NEW s \in T
  PROVE  ToSet(Append(p, s)) = ToSet(p) \cup {s}
<1> DEFINE q == Append(p, s)
<1>1. /\ q \in Seq(T) /\ Len(q) = Len(p) + 1 /\ Len(p) \in Nat
      /\ q[Len(p) + 1] = s /\ \A i \in 1..Len(p) : q[i] = p[i]
  OBVIOUS
<1> HIDE DEF q
<1>2. ToSet(q) = {q[i] : i \in 1..Len(q)} /\ ToSet(p) = {p[i] : i \in 1..Len(p)}
  BY <1>1, LenProperties DEF ToSet
<1>3. ToSet(q) = ToSet(p) \cup {s}
  BY <1>1, <1>2
<1> QED BY <1>3 DEF q

(* What Among goes through.                                                *)
AddIfKept(list, s, kept) == IF s \in kept THEN Append(list, s) ELSE list

LEMMA AmongExists ==
  ASSUME NEW T, NEW p \in Seq(T), NEW kept
  PROVE  \E f : f = [n \in 0..Len(p) |->
                      IF n = 0 THEN <<>>
                      ELSE IF p[n] \in kept THEN Append(f[n - 1], p[n]) ELSE f[n - 1]]
<1> DEFINE next == [i \in Nat |-> [a \in Seq(T) |->
                      IF i \in 1..Len(p) THEN AddIfKept(a, p[i], kept) ELSE a]]
<1>1. Len(p) \in Nat
  OBVIOUS
<1>2. next \in [Nat -> [Seq(T) -> Seq(T)]]
  BY ElementOfSeq, <1>1 DEF AddIfKept
<1>3. \A i \in 1..Len(p), a \in Seq(T) : next[i][a] = AddIfKept(a, p[i], kept)
  BY <1>1
<1> HIDE DEF next
<1>4. PICK f : Iterates(f, Len(p), Seq(T), <<>>, next)
  BY <1>2, <1>1, EmptySeq, RecursionExists
<1>5. /\ f \in [0..Len(p) -> Seq(T)]
      /\ f[0] = <<>> /\ \A i \in 1..Len(p) : f[i] = next[i][f[i - 1]]
  BY <1>4 DEF Iterates
<1>6. \A i \in 1..Len(p) : f[i] = AddIfKept(f[i - 1], p[i], kept)
  <2>1. \A i \in 1..Len(p) : i - 1 \in 0..Len(p)
    BY <1>1
  <2>2. \A i \in 1..Len(p) : f[i - 1] \in Seq(T)
    BY <2>1, <1>5
  <2> QED BY <2>2, <1>3, <1>5
<1>7. f = [n \in 0..Len(p) |-> IF n = 0 THEN <<>> ELSE AddIfKept(f[n - 1], p[n], kept)]
  <2>1. \A n \in 0..Len(p) : n # 0 => n \in 1..Len(p)
    BY <1>1
  <2> QED BY <2>1, <1>5, <1>6
<1> QED BY <1>7 DEF AddIfKept

LEMMA AmongSteps ==
  ASSUME NEW T, NEW p \in Seq(T), NEW kept
  PROVE  \E f : /\ f[0] = <<>> /\ f[Len(p)] = Among(p, kept)
               /\ \A n \in 0..(Len(p) - 1) : f[n + 1] = AddIfKept(f[n], p[n + 1], kept)
<1> DEFINE IsAmong(f) ==
             f = [n \in 0..Len(p) |->
                    IF n = 0 THEN <<>>
                    ELSE IF p[n] \in kept THEN Append(f[n - 1], p[n]) ELSE f[n - 1]]
           among == CHOOSE f : IsAmong(f)
<1>1. Among(p, kept) = among[Len(p)]
  BY DEF Among
<1>2. IsAmong(among)
  <2>1. \E f : IsAmong(f)
    BY AmongExists
  <2> HIDE DEF IsAmong
  <2> QED BY <2>1
<1>3. among = [n \in 0..Len(p) |-> IF n = 0 THEN <<>> ELSE AddIfKept(among[n - 1], p[n], kept)]
  BY <1>2 DEF AddIfKept
<1> HIDE DEF IsAmong, among
<1>4. Len(p) \in Nat
  OBVIOUS
<1>5. among[0] = <<>> /\ \A n \in 0..(Len(p) - 1) : among[n + 1] = AddIfKept(among[n], p[n + 1], kept)
  <2>1. \A i \in 0..(Len(p) - 1) : i + 1 \in 0..Len(p) /\ i + 1 # 0 /\ (i + 1) - 1 = i
    BY <1>4
  <2>2. 0 \in 0..Len(p)
    BY <1>4
  <2> QED BY <2>1, <2>2, <1>3
<1> QED BY <1>1, <1>5

(* What is selected is what is kept, in the order of the list.             *)
LEMMA AmongFacts ==
  ASSUME NEW T, NEW p \in Seq(T), NEW kept
  PROVE  LET a == Among(p, kept) IN
           /\ a \in Seq(T)
           /\ ToSet(a) = ToSet(p) \cap kept
           /\ \A i, j \in 1..Len(a) : i < j =>
                \E k, l \in 1..Len(p) : k < l /\ p[k] = a[i] /\ p[l] = a[j]
<1>1. PICK among : /\ among[0] = <<>> /\ among[Len(p)] = Among(p, kept)
                   /\ \A n \in 0..(Len(p) - 1) :
                        among[n + 1] = AddIfKept(among[n], p[n + 1], kept)
  BY AmongSteps
<1>2. Len(p) \in Nat
  OBVIOUS
<1> DEFINE Good(n, a) ==
             /\ a \in Seq(T)
             /\ ToSet(a) = Upto(p, n) \cap kept
             /\ \A i, j \in 1..Len(a) : i < j =>
                  \E k, l \in 1..n : k < l /\ p[k] = a[i] /\ p[l] = a[j]
           Goods == {n \in Nat : Good(n, among[n])}
<1>3. 0 \in Goods
  <2>1. Good(0, <<>>)
    BY DEF ToSet, Upto
  <2> HIDE DEF Good
  <2> QED BY <2>1, <1>1
<1>4. ASSUME NEW n \in 0..(Len(p) - 1), n \in Goods PROVE n + 1 \in Goods
  <2> DEFINE a == among[n]
             s == p[n + 1]
  <2>1. Good(n, a) /\ among[n + 1] = AddIfKept(a, s, kept) /\ n \in Nat
    BY <1>1, <1>4
  <2>2. s \in T
    BY <1>2
  <2>3. Upto(p, n + 1) = Upto(p, n) \cup {s}
    <3>1. \A i \in 1..(n + 1) : i \in 1..n \/ i = n + 1
      BY <2>1
    <3>2. 1..n \subseteq 1..(n + 1) /\ n + 1 \in 1..(n + 1)
      BY <2>1
    <3> QED BY <3>1, <3>2 DEF Upto
  <2> HIDE DEF a
  <2>4. CASE s \notin kept
    <3>1. AddIfKept(a, s, kept) = a
      BY <2>4 DEF AddIfKept
    <3>2. Good(n + 1, a)
      <4> HIDE DEF s
      <4>1. 1..n \subseteq 1..(n + 1)
        BY <2>1
      <4>2. \A i, j \in 1..Len(a) : i < j =>
              \E k, l \in 1..(n + 1) : k < l /\ p[k] = a[i] /\ p[l] = a[j]
        BY <4>1, <2>1
      <4>3. a \in Seq(T) /\ ToSet(a) = Upto(p, n + 1) \cap kept
        BY <2>1, <2>3, <2>4
      <4> QED BY <4>2, <4>3
    <3> HIDE DEF Good
    <3> QED BY <3>1, <3>2, <2>1
  <2>5. CASE s \in kept
    <3> DEFINE b == Append(a, s)
    <3>1. AddIfKept(a, s, kept) = b
      BY <2>5 DEF AddIfKept
    <3>2. /\ a \in Seq(T) /\ b \in Seq(T) /\ Len(a) \in Nat /\ Len(b) = Len(a) + 1
          /\ b[Len(a) + 1] = s /\ \A i \in 1..Len(a) : b[i] = a[i]
      BY <2>1, <2>2
    <3>3. ToSet(b) = ToSet(a) \cup {s}
      BY <3>2, <2>2 DEF ToSet
    <3> HIDE DEF b
    <3>4. ASSUME NEW i \in 1..Len(b), NEW j \in 1..Len(b), i < j
          PROVE  \E k, l \in 1..(n + 1) : k < l /\ p[k] = b[i] /\ p[l] = b[j]
      <4>1. i \in 1..Len(a) /\ b[i] = a[i]
        BY <3>2, <3>4
      <4>2. CASE j \in 1..Len(a)
        <5>1. PICK k \in 1..n, l \in 1..n : k < l /\ p[k] = a[i] /\ p[l] = a[j]
          BY <4>1, <4>2, <3>4, <2>1
        <5>2. b[j] = a[j] /\ k \in 1..(n + 1) /\ l \in 1..(n + 1)
          BY <3>2, <4>2, <2>1
        <5> QED BY <5>1, <5>2, <4>1
      <4>3. CASE j = Len(a) + 1
        <5>1. a[i] \in ToSet(a)
          BY <4>1, <3>2 DEF ToSet
        <5>2. PICK k \in 1..n : p[k] = a[i]
          BY <5>1, <2>1 DEF Upto
        <5>3. k \in 1..(n + 1) /\ n + 1 \in 1..(n + 1) /\ k < n + 1
          BY <2>1
        <5>4. p[n + 1] = b[j]
          BY <4>3, <3>2
        <5> QED BY <5>2, <5>3, <5>4, <4>1
      <4> QED BY <4>2, <4>3, <3>2
    <3>5. Good(n + 1, b)
      BY <3>2, <3>3, <3>4, <2>1, <2>3, <2>5
    <3> HIDE DEF Good
    <3> QED BY <3>1, <3>5, <2>1
  <2> QED BY <2>4, <2>5
<1> HIDE DEF Goods
<1>5. \A i \in 0..Len(p) : i \in Goods
  BY <1>3, <1>4, <1>2, BoundedInduction
<1>6. Good(Len(p), among[Len(p)])
  <2> HIDE DEF Good
  <2> QED BY <1>5, <1>2 DEF Goods
<1> QED BY <1>1, <1>6, UptoIsToSet

(* When what is kept is the end of a list, that end is what is selected.   *)
KeptBeyond(p, kept, k) == \A i \in 1..Len(p) : p[i] \in kept <=> i > k

LEMMA AmongSuffix ==
  ASSUME NEW T, NEW p \in Seq(T), NEW kept, NEW k \in 0..Len(p),
         KeptBeyond(p, kept, k)
  PROVE  /\ Among(p, kept) \in Seq(T)
         /\ Len(Among(p, kept)) = Len(p) - k
         /\ \A i \in 1..(Len(p) - k) : Among(p, kept)[i] = p[k + i]
<1>1. Len(p) \in Nat /\ k \in Nat /\ k <= Len(p) /\ \A i \in 1..Len(p) : p[i] \in T
  BY ElementOfSeq
<1>2. PICK among : /\ among[0] = <<>> /\ among[Len(p)] = Among(p, kept)
                   /\ \A n \in 0..(Len(p) - 1) :
                        among[n + 1] = AddIfKept(among[n], p[n + 1], kept)
  BY AmongSteps
<1> DEFINE Good(n, a) ==
             /\ a \in Seq(T)
             /\ Len(a) = IF n <= k THEN 0 ELSE n - k
             /\ \A i \in 1..(n - k) : a[i] = p[k + i]
           Goods == {n \in Nat : Good(n, among[n])}
<1>3. 0 \in Goods
  <2>1. Good(0, <<>>)
    BY <1>1, EmptySeq
  <2> HIDE DEF Good
  <2> QED BY <1>2, <2>1
<1>4. ASSUME NEW n \in 0..(Len(p) - 1), n \in Goods
      PROVE  n + 1 \in Goods
  <2> DEFINE a == among[n]
             s == p[n + 1]
             b == Append(a, s)
  <2>1. n \in Nat /\ n + 1 \in Nat /\ n + 1 \in 1..Len(p) /\ s \in T
    BY <1>1
  <2>2. Good(n, a) /\ among[n + 1] = AddIfKept(a, s, kept)
    BY <1>2, <1>4
  <2>3. s \in kept <=> n + 1 > k
    BY <2>1 DEF KeptBeyond
  <2> HIDE DEF a
  <2>4. CASE n + 1 <= k
    <3>1. Good(n + 1, a)
      BY <1>1, <2>1, <2>2, <2>4
    <3>2. among[n + 1] = a
      BY <1>1, <2>1, <2>2, <2>3, <2>4 DEF AddIfKept
    <3> HIDE DEF Good
    <3> QED BY <2>1, <3>1, <3>2
  <2>5. CASE n + 1 > k
    <3>1. a \in Seq(T) /\ Len(a) = n - k /\ \A i \in 1..(n - k) : a[i] = p[k + i]
      BY <1>1, <2>1, <2>2, <2>5
    <3>2. /\ b \in Seq(T) /\ Len(b) = Len(a) + 1 /\ b[Len(a) + 1] = s
          /\ \A i \in 1..Len(a) : b[i] = a[i]
      BY <2>1, <3>1
    <3> HIDE DEF b
    <3>3. \A i \in 1..((n + 1) - k) : b[i] = p[k + i]
      <4> TAKE i \in 1..((n + 1) - k)
      <4>1. CASE i \in 1..(n - k)
        BY <3>1, <3>2, <4>1
      <4>2. CASE i = (n - k) + 1
        <5>1. k + i = n + 1
          BY <1>1, <2>1, <4>2
        <5> QED BY <3>1, <3>2, <4>2, <5>1
      <4> QED BY <1>1, <2>1, <2>5, <4>1, <4>2
    <3>4. Good(n + 1, b)
      BY <1>1, <2>1, <2>5, <3>1, <3>2, <3>3
    <3>5. among[n + 1] = b
      BY <2>2, <2>3, <2>5 DEF AddIfKept, b
    <3> HIDE DEF Good
    <3> QED BY <2>1, <3>4, <3>5
  <2> QED BY <1>1, <2>1, <2>4, <2>5
<1> HIDE DEF Goods
<1>5. \A n \in 0..Len(p) : n \in Goods
  BY <1>1, <1>3, <1>4, BoundedInduction
<1>6. Good(Len(p), Among(p, kept))
  <2> HIDE DEF Good
  <2> QED BY <1>1, <1>2, <1>5 DEF Goods
<1> QED BY <1>1, <1>6

------------------------------------------------------------------------------
(* Totals.                                                                 *)

LEMMA TotalExists ==
  ASSUME NEW w \in Seq(Nat)
  PROVE  \E f : f = [n \in 0..Len(w) |-> IF n = 0 THEN 0 ELSE f[n - 1] + w[n]]
<1> DEFINE next == [i \in Nat |-> [a \in Nat |-> IF i \in 1..Len(w) THEN a + w[i] ELSE a]]
<1>1. Len(w) \in Nat
  OBVIOUS
<1>2. next \in [Nat -> [Nat -> Nat]]
  BY ElementOfSeq, <1>1
<1>3. \A i \in 1..Len(w), a \in Nat : next[i][a] = a + w[i]
  BY <1>1
<1> HIDE DEF next
<1>4. PICK f : Iterates(f, Len(w), Nat, 0, next)
  BY <1>2, <1>1, RecursionExists
<1>5. /\ f \in [0..Len(w) -> Nat]
      /\ f[0] = 0 /\ \A i \in 1..Len(w) : f[i] = next[i][f[i - 1]]
  BY <1>4 DEF Iterates
<1>6. \A i \in 1..Len(w) : f[i] = f[i - 1] + w[i]
  <2>1. \A i \in 1..Len(w) : i - 1 \in 0..Len(w)
    BY <1>1
  <2>2. \A i \in 1..Len(w) : f[i - 1] \in Nat
    BY <2>1, <1>5
  <2> QED BY <2>2, <1>3, <1>5
<1>7. f = [n \in 0..Len(w) |-> IF n = 0 THEN 0 ELSE f[n - 1] + w[n]]
  <2>1. \A n \in 0..Len(w) : n # 0 => n \in 1..Len(w)
    BY <1>1
  <2> QED BY <2>1, <1>5, <1>6
<1> QED BY <1>7

(* The running totals of a list.                                           *)
Sums(f, w) ==
  /\ f[0] = 0
  /\ \A n \in 0..(Len(w) - 1) : f[n + 1] = f[n] + w[n + 1]

LEMMA TotalSteps ==
  ASSUME NEW w \in Seq(Nat)
  PROVE  \E f : /\ Sums(f, w) /\ f[Len(w)] = Total(w)
                /\ \A n \in 0..Len(w) : f[n] \in Nat
<1> DEFINE IsSum(f) == f = [n \in 0..Len(w) |-> IF n = 0 THEN 0 ELSE f[n - 1] + w[n]]
           sum == CHOOSE f : IsSum(f)
<1>1. Total(w) = sum[Len(w)]
  BY DEF Total
<1>2. IsSum(sum)
  <2>1. \E f : IsSum(f)
    BY TotalExists
  <2> HIDE DEF IsSum
  <2> QED BY <2>1
<1>3. sum = [n \in 0..Len(w) |-> IF n = 0 THEN 0 ELSE sum[n - 1] + w[n]]
  BY <1>2
<1> HIDE DEF IsSum, sum
<1>4. Len(w) \in Nat
  OBVIOUS
<1>5. Sums(sum, w)
  <2>1. \A i \in 0..(Len(w) - 1) : i + 1 \in 0..Len(w) /\ i + 1 # 0 /\ (i + 1) - 1 = i
    BY <1>4
  <2>2. 0 \in 0..Len(w)
    BY <1>4
  <2> QED BY <2>1, <2>2, <1>3 DEF Sums
<1> DEFINE Nats == {n \in Nat : sum[n] \in Nat}
<1>6. 0 \in Nats
  BY <1>5 DEF Sums
<1>7. \A n \in 0..(Len(w) - 1) : n \in Nats => n + 1 \in Nats
  <2> TAKE n \in 0..(Len(w) - 1)
  <2> HAVE n \in Nats
  <2>1. n + 1 \in 1..Len(w) /\ n + 1 \in Nat
    BY <1>4
  <2>2. w[n + 1] \in Nat
    BY <2>1, ElementOfSeq
  <2>3. sum[n + 1] = sum[n] + w[n + 1]
    BY <1>5 DEF Sums
  <2> QED BY <2>1, <2>2, <2>3
<1> HIDE DEF Nats
<1>8. \A n \in 0..Len(w) : n \in Nats
  BY <1>4, <1>6, <1>7, BoundedInduction
<1> QED BY <1>1, <1>5, <1>8 DEF Nats

(* Running totals are unique.                                              *)
LEMMA SumsUnique ==
  ASSUME NEW w \in Seq(Nat), NEW f, NEW g, Sums(f, w), Sums(g, w)
  PROVE  f[Len(w)] = g[Len(w)]
<1> DEFINE Same == {n \in Nat : f[n] = g[n]}
<1>1. 0 \in Same /\ Len(w) \in Nat
  BY DEF Sums
<1>2. \A n \in 0..(Len(w) - 1) : n \in Same => n + 1 \in Same
  BY DEF Sums
<1> HIDE DEF Same
<1>3. \A n \in 0..Len(w) : n \in Same
  BY <1>1, <1>2, BoundedInduction
<1> QED BY <1>1, <1>3 DEF Same

LEMMA TotalType ==
  ASSUME NEW w \in Seq(Nat)
  PROVE  Total(w) \in Nat
<1>1. PICK f : /\ Sums(f, w) /\ f[Len(w)] = Total(w)
               /\ \A n \in 0..Len(w) : f[n] \in Nat
  BY TotalSteps
<1>2. Len(w) \in 0..Len(w)
  OBVIOUS
<1> QED BY <1>1, <1>2

LEMMA TotalOfNothing == Total(<<>>) = 0
<1>1. <<>> \in Seq(Nat) /\ Len(<<>>) = 0
  BY EmptySeq
<1>2. PICK f : Sums(f, <<>>) /\ f[Len(<<>>)] = Total(<<>>)
  BY <1>1, TotalSteps
<1> QED BY <1>1, <1>2 DEF Sums

(* A list's total is that of its first n entries and of the others.        *)
LEMMA TotalSplit ==
  ASSUME NEW w \in Seq(Nat), NEW n \in 0..Len(w)
  PROVE  /\ SubSeq(w, 1, n) \in Seq(Nat) /\ SubSeq(w, n + 1, Len(w)) \in Seq(Nat)
         /\ Total(w) = Total(SubSeq(w, 1, n)) + Total(SubSeq(w, n + 1, Len(w)))
<1> DEFINE u == SubSeq(w, 1, n)
           v == SubSeq(w, n + 1, Len(w))
<1>1. Len(w) \in Nat /\ n \in Nat /\ n <= Len(w) /\ \A i \in 1..Len(w) : w[i] \in Nat
  BY ElementOfSeq
<1>2. u \in Seq(Nat) /\ Len(u) = n /\ \A i \in 1..n : u[i] = w[i]
  <2>1. 1 \in Int /\ n \in Int /\ \A i \in 1..n : w[i] \in Nat
    BY <1>1
  <2>2. /\ SubSeq(w, 1, n) \in Seq(Nat)
        /\ Len(SubSeq(w, 1, n)) = (IF 1 <= n THEN n - 1 + 1 ELSE 0)
        /\ \A i \in 1..(n - 1 + 1) : SubSeq(w, 1, n)[i] = w[1 + i - 1]
    BY <2>1, SubSeqProperties
  <2> QED BY <1>1, <2>2
<1>3. v \in Seq(Nat) /\ Len(v) = Len(w) - n /\ \A i \in 1..(Len(w) - n) : v[i] = w[n + i]
  <2>1. n + 1 \in Int /\ Len(w) \in Int /\ \A i \in (n + 1)..Len(w) : w[i] \in Nat
    BY <1>1
  <2>2. /\ v \in Seq(Nat)
        /\ Len(v) = (IF n + 1 <= Len(w) THEN Len(w) - (n + 1) + 1 ELSE 0)
        /\ \A i \in 1..(Len(w) - (n + 1) + 1) : v[i] = w[(n + 1) + i - 1]
    BY <2>1, SubSeqProperties
  <2> QED BY <1>1, <2>2
<1> HIDE DEF u, v
<1>4. PICK f : /\ Sums(f, w) /\ f[Len(w)] = Total(w)
               /\ \A i \in 0..Len(w) : f[i] \in Nat
  BY TotalSteps
<1>5. PICK g : Sums(g, u) /\ g[n] = Total(u)
  BY <1>2, TotalSteps
<1>6. PICK h : Sums(h, v) /\ h[Len(w) - n] = Total(v)
  BY <1>3, TotalSteps
<1>7. Total(u) = f[n]
  <2>1. \A i \in 0..(n - 1) : i \in 0..(Len(w) - 1) /\ i + 1 \in 1..n
    BY <1>1
  <2>2. Sums(f, u)
    BY <1>2, <1>4, <2>1 DEF Sums
  <2>3. f[Len(u)] = g[Len(u)]
    BY <1>2, <1>5, <2>2, SumsUnique
  <2> QED BY <1>2, <1>5, <2>3
<1>8. Total(v) = f[Len(w)] - f[n]
  <2> DEFINE k == [i \in 0..(Len(w) - n) |-> f[n + i] - f[n]]
             m == Len(w) - n
  <2>1. m \in Nat /\ m \in 0..Len(v) /\ m = Len(v)
    BY <1>1, <1>3
  <2>2. \A i \in 0..m : n + i \in 0..Len(w) /\ f[n + i] \in Nat /\ f[n] \in Nat
    BY <1>1, <1>4
  <2>3. k[0] = 0
    <3>1. k[0] = f[n + 0] - f[n] /\ f[n + 0] = f[n] /\ f[n] \in Nat
      BY <2>1, <2>2, <1>1, <1>4
    <3> QED BY <3>1
  <2>4. \A i \in 0..(m - 1) : k[i + 1] = k[i] + v[i + 1]
    <3> TAKE i \in 0..(m - 1)
    <3>1. /\ i \in 0..m /\ i + 1 \in 0..m /\ i + 1 \in 1..m
          /\ n + i \in 0..(Len(w) - 1) /\ n + (i + 1) = (n + i) + 1
      BY <1>1, <2>1
    <3>2. f[(n + i) + 1] = f[n + i] + w[(n + i) + 1] /\ v[i + 1] = w[n + (i + 1)]
      BY <1>3, <1>4, <3>1 DEF Sums
    <3>3. w[n + (i + 1)] \in Nat
      BY <1>1, <3>1
    <3>4. k[i] = f[n + i] - f[n] /\ k[i + 1] = f[n + (i + 1)] - f[n]
      BY <3>1
    <3> HIDE DEF k, m
    <3>5. f[n + i] \in Nat /\ f[n] \in Nat
      BY <2>2, <3>1
    <3>6. f[n + (i + 1)] = f[n + i] + w[n + (i + 1)]
      BY <3>1, <3>2
    <3> QED BY <3>2, <3>3, <3>4, <3>5, <3>6
  <2>5. k[m] = f[Len(w)] - f[n]
    <3>1. m \in 0..m /\ n + m = Len(w)
      BY <1>1, <2>1
    <3> QED BY <3>1
  <2>6. Total(v) = h[m]
    BY <1>6
  <2> HIDE DEF k, m
  <2>7. Sums(k, v)
    BY <2>1, <2>3, <2>4 DEF Sums
  <2>8. k[m] = h[m]
    BY <1>3, <1>6, <2>1, <2>7, SumsUnique
  <2> QED BY <2>5, <2>6, <2>8
<1>9. f[n] \in Nat /\ f[Len(w)] \in Nat
  BY <1>1, <1>4
<1> QED BY <1>2, <1>3, <1>4, <1>7, <1>8, <1>9 DEF u, v

LEMMA TotalAppend ==
  ASSUME NEW w \in Seq(Nat), NEW x \in Nat
  PROVE  Append(w, x) \in Seq(Nat) /\ Total(Append(w, x)) = Total(w) + x
<1> DEFINE q == Append(w, x)
<1>1. /\ q \in Seq(Nat) /\ Len(q) = Len(w) + 1 /\ Len(w) \in Nat
      /\ q[Len(w) + 1] = x /\ \A i \in 1..Len(w) : q[i] = w[i]
  OBVIOUS
<1> HIDE DEF q
<1>2. PICK f : Sums(f, w) /\ f[Len(w)] = Total(w)
  BY TotalSteps
<1>3. PICK g : Sums(g, q) /\ g[Len(w) + 1] = Total(q)
  BY <1>1, TotalSteps
<1>4. f[Len(w)] = g[Len(w)]
  <2>1. \A i \in 0..(Len(w) - 1) : i \in 0..(Len(q) - 1) /\ i + 1 \in 1..Len(w)
    BY <1>1
  <2>2. Sums(g, w)
    BY <1>1, <1>3, <2>1 DEF Sums
  <2> QED BY <1>2, <2>2, SumsUnique
<1>5. Len(w) \in 0..(Len(q) - 1)
  BY <1>1
<1>6. g[Len(w) + 1] = g[Len(w)] + q[Len(w) + 1]
  BY <1>3, <1>5 DEF Sums
<1> QED BY <1>1, <1>2, <1>3, <1>4, <1>6 DEF q

(* The total of what the entries of p weigh.                               *)
Weights(p, g) == [i \in 1..Len(p) |-> g[p[i]]]
Weighed(p, g) == Total(Weights(p, g))

LEMMA WeightsType ==
  ASSUME NEW T, NEW g \in [T -> Nat], NEW p \in Seq(T)
  PROVE  /\ Weights(p, g) \in Seq(Nat)
         /\ Len(Weights(p, g)) = Len(p)
         /\ \A i \in 1..Len(p) : Weights(p, g)[i] = g[p[i]]
<1>1. Len(p) \in Nat /\ \A i \in 1..Len(p) : p[i] \in T
  BY ElementOfSeq
<1>2. Weights(p, g) \in [1..Len(p) -> Nat]
  BY <1>1 DEF Weights
<1> QED BY <1>1, <1>2 DEF Weights

LEMMA WeighedType ==
  ASSUME NEW T, NEW g \in [T -> Nat], NEW p \in Seq(T)
  PROVE  Weighed(p, g) \in Nat
BY WeightsType, TotalType DEF Weighed

LEMMA WeighedNothing ==
  ASSUME NEW g
  PROVE  Weighed(<<>>, g) = 0
<1>1. Weights(<<>>, g) = <<>>
  BY DEF Weights
<1> QED BY <1>1, TotalOfNothing DEF Weighed

LEMMA WeighedSame ==
  ASSUME NEW T, NEW g \in [T -> Nat], NEW U, NEW h \in [U -> Nat],
         NEW p \in Seq(T), NEW q \in Seq(U),
         Len(p) = Len(q), \A i \in 1..Len(p) : g[p[i]] = h[q[i]]
  PROVE  Weighed(p, g) = Weighed(q, h)
<1>1. Weights(p, g) = Weights(q, h)
  BY DEF Weights
<1> QED BY <1>1 DEF Weighed

LEMMA WeighedAppend ==
  ASSUME NEW T, NEW g \in [T -> Nat], NEW p \in Seq(T), NEW x \in T
  PROVE  Weighed(Append(p, x), g) = Weighed(p, g) + g[x]
<1> DEFINE q == Append(p, x)
<1>1. /\ q \in Seq(T) /\ Len(q) = Len(p) + 1 /\ Len(p) \in Nat
      /\ q[Len(p) + 1] = x /\ \A i \in 1..Len(p) : q[i] = p[i]
  OBVIOUS
<1> HIDE DEF q
<1>2. /\ Weights(p, g) \in Seq(Nat) /\ Len(Weights(p, g)) = Len(p)
      /\ \A i \in 1..Len(p) : Weights(p, g)[i] = g[p[i]]
  BY WeightsType
<1>3. /\ Weights(q, g) \in Seq(Nat) /\ Len(Weights(q, g)) = Len(q)
      /\ \A i \in 1..Len(q) : Weights(q, g)[i] = g[q[i]]
  BY <1>1, WeightsType
<1>4. Weights(q, g) = Append(Weights(p, g), g[x])
  <2> DEFINE u == Weights(p, g)
             v == Weights(q, g)
             a == Append(u, g[x])
  <2>1. /\ a \in Seq(Nat) /\ Len(a) = Len(u) + 1 /\ a[Len(u) + 1] = g[x]
        /\ \A i \in 1..Len(u) : a[i] = u[i]
    BY <1>2
  <2>2. /\ Len(u) = Len(p) /\ \A i \in 1..Len(p) : u[i] = g[p[i]]
        /\ v \in Seq(Nat) /\ Len(v) = Len(q) /\ \A i \in 1..Len(q) : v[i] = g[q[i]]
    BY <1>2, <1>3
  <2> HIDE DEF u, v, a
  <2>3. Len(v) = Len(a)
    BY <1>1, <2>1, <2>2
  <2>4. \A i \in 1..Len(v) : v[i] = a[i]
    <3> TAKE i \in 1..Len(v)
    <3>1. CASE i \in 1..Len(p)
      BY <1>1, <2>1, <2>2, <3>1
    <3>2. CASE i = Len(p) + 1
      BY <1>1, <2>1, <2>2, <3>2
    <3> QED BY <1>1, <2>2, <3>1, <3>2
  <2>5. v = a
    BY <2>1, <2>2, <2>3, <2>4, SeqEqual
  <2> QED BY <2>5 DEF u, v, a
<1> QED BY <1>2, <1>4, TotalAppend DEF Weighed, q

LEMMA WeighedSplit ==
  ASSUME NEW T, NEW g \in [T -> Nat], NEW p \in Seq(T), NEW n \in 0..Len(p)
  PROVE  /\ SubSeq(p, 1, n) \in Seq(T) /\ SubSeq(p, n + 1, Len(p)) \in Seq(T)
         /\ Weighed(p, g) = Weighed(SubSeq(p, 1, n), g) + Weighed(SubSeq(p, n + 1, Len(p)), g)
<1> DEFINE w == Weights(p, g)
<1>1. Len(p) \in Nat /\ n \in Nat /\ n <= Len(p) /\ \A i \in 1..Len(p) : p[i] \in T
  BY ElementOfSeq
<1>2. w \in Seq(Nat) /\ Len(w) = Len(p) /\ \A i \in 1..Len(p) : w[i] = g[p[i]]
  BY WeightsType
<1> HIDE DEF w
<1>3. ASSUME NEW m \in 1..(Len(p) + 1), NEW k \in 0..Len(p)
      PROVE  SubSeq(p, m, k) \in Seq(T) /\ Weights(SubSeq(p, m, k), g) = SubSeq(w, m, k)
  <2> DEFINE u == SubSeq(p, m, k)
             v == SubSeq(w, m, k)
             x == Weights(u, g)
  <2>1. m \in Int /\ k \in Int /\ m >= 1 /\ k <= Len(p)
    BY <1>1, <1>3
  <2>2. \A i \in m..k : i \in 1..Len(p)
    BY <1>1, <2>1
  <2>3. \A i \in m..k : p[i] \in T /\ w[i] \in Nat
    BY <1>1, <1>2, <2>2, ElementOfSeq
  <2>4. /\ u \in Seq(T) /\ Len(u) = (IF m <= k THEN k - m + 1 ELSE 0)
        /\ \A i \in 1..(k - m + 1) : u[i] = p[m + i - 1]
    BY <2>1, <2>3, SubSeqProperties
  <2>5. /\ v \in Seq(Nat) /\ Len(v) = (IF m <= k THEN k - m + 1 ELSE 0)
        /\ \A i \in 1..(k - m + 1) : v[i] = w[m + i - 1]
    BY <2>1, <2>3, SubSeqProperties
  <2> HIDE DEF u, v
  <2>6. x \in Seq(Nat) /\ Len(x) = Len(u) /\ \A i \in 1..Len(u) : x[i] = g[u[i]]
    <3>1. u \in Seq(T)
      BY <2>4
    <3> QED BY <3>1, WeightsType
  <2> HIDE DEF x
  <2>7. \A i \in 1..Len(x) : x[i] = v[i]
    <3> TAKE i \in 1..Len(x)
    <3>1. i \in 1..(k - m + 1) /\ m + i - 1 \in m..k /\ i \in 1..Len(u)
      BY <2>1, <2>4, <2>6
    <3>2. u[i] = p[m + i - 1] /\ v[i] = w[m + i - 1] /\ x[i] = g[u[i]]
      BY <2>4, <2>5, <2>6, <3>1
    <3>3. w[m + i - 1] = g[p[m + i - 1]]
      BY <1>2, <2>2, <3>1
    <3> QED BY <3>2, <3>3
  <2>8. x = v
    BY <2>4, <2>5, <2>6, <2>7, SeqEqual
  <2> QED BY <2>4, <2>8 DEF u, v, x
<1>4. 1 \in 1..(Len(p) + 1) /\ n + 1 \in 1..(Len(p) + 1) /\ n \in 0..Len(p) /\ Len(p) \in 0..Len(p)
  BY <1>1
<1>5. /\ SubSeq(p, 1, n) \in Seq(T) /\ Weights(SubSeq(p, 1, n), g) = SubSeq(w, 1, n)
      /\ SubSeq(p, n + 1, Len(p)) \in Seq(T)
      /\ Weights(SubSeq(p, n + 1, Len(p)), g) = SubSeq(w, n + 1, Len(p))
  BY <1>3, <1>4
<1>6. Total(w) = Total(SubSeq(w, 1, n)) + Total(SubSeq(w, n + 1, Len(p)))
  BY <1>2, TotalSplit
<1> QED BY <1>5, <1>6 DEF Weighed, w

(* Taking x out of a list that has no entry twice takes its weight away.   *)
LEMMA WeighedWithout ==
  ASSUME NEW T, NEW g \in [T -> Nat], NEW p \in Seq(T), NEW x \in T,
         \A i, j \in 1..Len(p) : p[i] = p[j] => i = j
  PROVE  Weighed(p, g) =
           Weighed(Among(p, T \ {x}), g) + (IF x \in ToSet(p) THEN g[x] ELSE 0)
<1> DEFINE w == Weights(p, g)
           kept == T \ {x}
<1>1. Len(p) \in Nat /\ \A i \in 1..Len(p) : p[i] \in T
  BY ElementOfSeq
<1>2. w \in Seq(Nat) /\ Len(w) = Len(p) /\ \A i \in 1..Len(p) : w[i] = g[p[i]]
  BY WeightsType
<1> HIDE DEF w
<1>3. PICK f : Sums(f, w) /\ f[Len(p)] = Total(w) /\ \A n \in 0..Len(p) : f[n] \in Nat
  BY <1>2, TotalSteps
<1>4. PICK among : /\ among[0] = <<>> /\ among[Len(p)] = Among(p, kept)
                   /\ \A n \in 0..(Len(p) - 1) :
                        among[n + 1] = AddIfKept(among[n], p[n + 1], kept)
  <2> HIDE DEF kept
  <2> QED BY AmongSteps
<1> DEFINE Out(n) == IF x \in Upto(p, n) THEN g[x] ELSE 0
           Good(n, a) == a \in Seq(T) /\ f[n] = Weighed(a, g) + Out(n)
           Goods == {n \in Nat : Good(n, among[n])}
<1>5. 0 \in Goods
  <2>1. Upto(p, 0) = {}
    BY DEF Upto
  <2>2. f[0] = 0 /\ Weighed(<<>>, g) = 0 /\ <<>> \in Seq(T)
    BY <1>3, WeighedNothing DEF Sums
  <2>3. Good(0, <<>>)
    BY <2>1, <2>2
  <2> HIDE DEF Good
  <2> QED BY <1>4, <2>3
<1>6. ASSUME NEW n \in 0..(Len(p) - 1), n \in Goods
      PROVE  n + 1 \in Goods
  <2> DEFINE a == among[n]
             s == p[n + 1]
  <2>1. n + 1 \in 1..Len(p) /\ n \in Nat /\ n + 1 \in Nat /\ n \in 0..Len(p)
    BY <1>1
  <2>2. a \in Seq(T) /\ f[n] = Weighed(a, g) + Out(n) /\ s \in T
    BY <1>1, <1>6, <2>1
  <2>3. f[n + 1] = f[n] + g[s]
    BY <1>2, <1>3, <2>1 DEF Sums
  <2>4. among[n + 1] = AddIfKept(a, s, kept)
    BY <1>4
  <2>5. g[s] \in Nat /\ g[x] \in Nat /\ Weighed(a, g) \in Nat /\ f[n] \in Nat
    BY <1>3, <2>1, <2>2, WeighedType
  <2>6. Upto(p, n + 1) = Upto(p, n) \cup {s}
    <3>1. 1..(n + 1) = 1..n \cup {n + 1}
      BY <2>1
    <3> QED BY <3>1 DEF Upto
  <2> HIDE DEF a, s
  <2>7. CASE s = x
    <3>1. x \notin Upto(p, n)
      <4>1. \A i \in 1..n : i \in 1..Len(p) /\ i # n + 1
        BY <1>1, <2>1
      <4> QED BY <2>1, <2>7, <4>1 DEF Upto, s
    <3>2. among[n + 1] = a
      BY <2>4, <2>7 DEF AddIfKept
    <3>3. Out(n) = 0 /\ Out(n + 1) = g[x]
      BY <2>6, <2>7, <3>1
    <3> HIDE DEF Out
    <3>4. f[n + 1] = Weighed(a, g) + Out(n + 1)
      BY <2>2, <2>3, <2>5, <2>7, <3>3
    <3> QED BY <2>1, <2>2, <3>2, <3>4
  <2>8. CASE s # x
    <3>1. among[n + 1] = Append(a, s)
      BY <2>2, <2>4, <2>8 DEF AddIfKept
    <3>2. Out(n + 1) = Out(n) /\ Out(n) \in Nat
      BY <2>5, <2>6, <2>8
    <3>3. Append(a, s) \in Seq(T) /\ Weighed(Append(a, s), g) = Weighed(a, g) + g[s]
      BY <2>2, WeighedAppend
    <3> HIDE DEF Out
    <3>4. f[n + 1] = Weighed(Append(a, s), g) + Out(n + 1)
      BY <2>2, <2>3, <2>5, <3>2, <3>3
    <3> QED BY <2>1, <3>1, <3>3, <3>4
  <2> QED BY <2>7, <2>8
<1> HIDE DEF Goods
<1>7. \A n \in 0..Len(p) : n \in Goods
  BY <1>1, <1>5, <1>6, BoundedInduction
<1>8. f[Len(p)] = Weighed(among[Len(p)], g) + Out(Len(p))
  BY <1>1, <1>7 DEF Goods
<1>9. Upto(p, Len(p)) = ToSet(p)
  BY UptoIsToSet
<1> QED BY <1>3, <1>4, <1>8, <1>9 DEF Weighed, w

(* A list is cut after its first n entries.                                *)
LEMMA CutFacts ==
  ASSUME NEW T, NEW p \in Seq(T), NEW n \in 0..Len(p)
  PROVE  /\ SubSeq(p, 1, n) \in Seq(T) /\ Len(SubSeq(p, 1, n)) = n
         /\ \A i \in 1..n : SubSeq(p, 1, n)[i] = p[i]
         /\ SubSeq(p, n + 1, Len(p)) \in Seq(T) /\ Len(SubSeq(p, n + 1, Len(p))) = Len(p) - n
         /\ \A i \in 1..(Len(p) - n) : SubSeq(p, n + 1, Len(p))[i] = p[n + i]
<1> DEFINE front == SubSeq(p, 1, n)
           back == SubSeq(p, n + 1, Len(p))
           l == Len(p)
<1>1. l \in Nat /\ n \in Nat /\ n <= l /\ \A i \in 1..l : p[i] \in T
  BY ElementOfSeq
<1>2. /\ 1 \in Int /\ n \in Int /\ n + 1 \in Int /\ l \in Int
      /\ \A i \in 1..n : p[i] \in T
      /\ \A i \in (n + 1)..l : p[i] \in T
  BY <1>1
<1>3. /\ front \in Seq(T)
      /\ Len(front) = (IF 1 <= n THEN n - 1 + 1 ELSE 0)
      /\ \A i \in 1..(n - 1 + 1) : front[i] = p[1 + i - 1]
  BY <1>2, SubSeqProperties
<1>4. /\ back \in Seq(T)
      /\ Len(back) = (IF n + 1 <= l THEN l - (n + 1) + 1 ELSE 0)
      /\ \A i \in 1..(l - (n + 1) + 1) : back[i] = p[n + 1 + i - 1]
  BY <1>2, SubSeqProperties
<1> HIDE DEF front, back, l
<1>5. Len(front) = n /\ Len(back) = l - n
  BY <1>1, <1>3, <1>4
<1>6. ASSUME NEW i \in 1..n
      PROVE  front[i] = p[i]
  <2>1. i \in 1..(n - 1 + 1) /\ 1 + i - 1 = i
    BY <1>1
  <2> QED BY <1>3, <2>1
<1>7. ASSUME NEW i \in 1..(l - n)
      PROVE  back[i] = p[n + i]
  <2>1. i \in 1..(l - (n + 1) + 1) /\ n + 1 + i - 1 = n + i
    BY <1>1
  <2> QED BY <1>4, <2>1
<1> QED BY <1>3, <1>4, <1>5, <1>6, <1>7 DEF front, back, l

(* The last entry adds its own weight to that of the others.               *)
LEMMA WeighedLast ==
  ASSUME NEW T, NEW g \in [T -> Nat], NEW p \in Seq(T), Len(p) > 0
  PROVE  /\ SubSeq(p, 1, Len(p) - 1) \in Seq(T)
         /\ Weighed(p, g) = Weighed(SubSeq(p, 1, Len(p) - 1), g) + g[p[Len(p)]]
<1>1. Len(p) - 1 \in 0..Len(p) /\ Len(p) \in Nat /\ p[Len(p)] \in T
  BY ElementOfSeq
<1> DEFINE q == SubSeq(p, 1, Len(p) - 1)
<1>2. q \in Seq(T)
  BY <1>1, WeighedSplit
<1>3. Len(q) = Len(p) - 1 /\ \A i \in 1..(Len(p) - 1) : q[i] = p[i]
  <2>1. Len(p) - 1 \in 0..Len(p)
    BY <1>1
  <2> QED BY <2>1, CutFacts
<1> HIDE DEF q
<1>4. Append(q, p[Len(p)]) \in Seq(T) /\ Len(Append(q, p[Len(p)])) = Len(p)
      /\ \A i \in 1..Len(p) : Append(q, p[Len(p)])[i] = p[i]
  BY <1>1, <1>2, <1>3
<1>5. Append(q, p[Len(p)]) = p
  BY <1>4, SeqEqual
<1>6. Weighed(Append(q, p[Len(p)]), g) = Weighed(q, g) + g[p[Len(p)]]
  BY <1>1, <1>2, WeighedAppend
<1> QED BY <1>2, <1>5, <1>6 DEF q

(* Only the weight of the last entry changes.                              *)
SameButLast(p, g, h) == \A i \in 1..(Len(p) - 1) : g[p[i]] = h[p[i]]

LEMMA WeighedReweighed ==
  ASSUME NEW T, NEW g \in [T -> Nat], NEW h \in [T -> Nat], NEW p \in Seq(T), Len(p) > 0,
         SameButLast(p, g, h)
  PROVE  Weighed(p, h) = Weighed(p, g) - g[p[Len(p)]] + h[p[Len(p)]]
<1> DEFINE q == SubSeq(p, 1, Len(p) - 1)
<1>1. Len(p) - 1 \in 0..Len(p) /\ Len(p) \in Nat /\ p[Len(p)] \in T
  BY ElementOfSeq
<1>2. q \in Seq(T)
      /\ Weighed(p, g) = Weighed(q, g) + g[p[Len(p)]]
      /\ Weighed(p, h) = Weighed(q, h) + h[p[Len(p)]]
  BY WeighedLast
<1>3. Len(q) = Len(p) - 1 /\ \A i \in 1..(Len(p) - 1) : q[i] = p[i]
  <2>1. Len(p) - 1 \in 0..Len(p)
    BY <1>1
  <2> QED BY <2>1, CutFacts
<1> HIDE DEF q
<1>4. \A i \in 1..Len(q) : g[q[i]] = h[q[i]]
  BY <1>3 DEF SameButLast
<1>5. Weights(q, g) = Weights(q, h)
  BY <1>4 DEF Weights
<1>6. Weighed(q, g) = Weighed(q, h)
  BY <1>5 DEF Weighed
<1>7. Weighed(q, g) \in Nat /\ g[p[Len(p)]] \in Nat /\ h[p[Len(p)]] \in Nat
  BY <1>1, <1>2, WeighedType
<1> QED BY <1>2, <1>6, <1>7

------------------------------------------------------------------------------
(* Lists without repetition.                                               *)

NoneTwice(p) == \A i, j \in 1..Len(p) : p[i] = p[j] => i = j

(* One entry is moved to the end, or added there.                          *)
MovedLast(T, p, t) == Append(Among(p, T \ {t}), t)

LEMMA MovedLastFacts ==
  ASSUME NEW T, NEW p \in Seq(T), NoneTwice(p), NEW t \in T
  PROVE  LET q == MovedLast(T, p, t) IN
           /\ q \in Seq(T) /\ Len(q) > 0 /\ q[Len(q)] = t
           /\ NoneTwice(q)
           /\ ToSet(q) = ToSet(p) \cup {t}
<1> DEFINE kept == T \ {t}
           a == Among(p, kept)
           q == Append(a, t)
<1> HIDE DEF kept
<1>1. LET b == Among(p, kept) IN
        /\ b \in Seq(T)
        /\ ToSet(b) = ToSet(p) \cap kept
        /\ \A i, j \in 1..Len(b) : i < j =>
             \E k, l \in 1..Len(p) : k < l /\ p[k] = b[i] /\ p[l] = b[j]
  BY AmongFacts
<1> HIDE DEF a
<1>2. a \in Seq(T) /\ ToSet(a) = ToSet(p) \cap kept
  BY <1>1 DEF a
<1>3. \A i, j \in 1..Len(a) : i < j => a[i] # a[j]
  <2> TAKE i, j \in 1..Len(a)
  <2> HAVE i < j
  <2>1. PICK k \in 1..Len(p), l \in 1..Len(p) : k < l /\ p[k] = a[i] /\ p[l] = a[j]
    BY <1>1 DEF a
  <2> QED BY <2>1 DEF NoneTwice
<1>4. /\ q \in Seq(T) /\ Len(a) \in Nat /\ Len(q) = Len(a) + 1
      /\ q[Len(a) + 1] = t /\ \A i \in 1..Len(a) : q[i] = a[i]
  BY <1>2
<1>5. \A i \in 1..Len(a) : a[i] # t
  <2>1. \A i \in 1..Len(a) : a[i] \in ToSet(a)
    BY <1>2, LenProperties DEF ToSet
  <2> QED BY <1>2, <2>1 DEF kept
<1>6. ToSet(q) = ToSet(p) \cup {t}
  <2>1. ToSet(q) = ToSet(a) \cup {t}
    BY <1>2, ToSetAppend
  <2>2. ToSet(p) \subseteq T
    BY ElementOfSeq, LenProperties DEF ToSet
  <2> QED BY <1>2, <2>1, <2>2 DEF kept
<1> HIDE DEF q
<1>7. \A i, j \in 1..Len(q) : q[i] = q[j] => i = j
  <2>1. \A i, j \in 1..Len(a) : a[i] = a[j] => i = j
    BY <1>3, <1>4
  <2> QED BY <1>4, <1>5, <2>1
<1>8. Len(q) > 0 /\ q[Len(q)] = t
  BY <1>4
<1>9. MovedLast(T, p, t) = q
  BY DEF MovedLast, q, a, kept
<1> QED BY <1>4, <1>6, <1>7, <1>8, <1>9 DEF NoneTwice

LEMMA MovedLastWeighed ==
  ASSUME NEW T, NEW p \in Seq(T), NoneTwice(p), NEW t \in T, NEW g \in [T -> Nat]
  PROVE  Weighed(MovedLast(T, p, t), g) = Weighed(p, g) + (IF t \in ToSet(p) THEN 0 ELSE g[t])
<1> DEFINE kept == T \ {t}
           a == Among(p, kept)
<1>1. Weighed(p, g) = Weighed(a, g) + (IF t \in ToSet(p) THEN g[t] ELSE 0)
  BY WeighedWithout DEF NoneTwice
<1> HIDE DEF kept
<1>2. LET b == Among(p, kept) IN
        /\ b \in Seq(T)
        /\ ToSet(b) = ToSet(p) \cap kept
        /\ \A i, j \in 1..Len(b) : i < j =>
             \E k, l \in 1..Len(p) : k < l /\ p[k] = b[i] /\ p[l] = b[j]
  BY AmongFacts
<1>3. a \in Seq(T)
  BY <1>2
<1> HIDE DEF a
<1>4. Weighed(Append(a, t), g) = Weighed(a, g) + g[t]
  BY <1>3, WeighedAppend
<1>5. Weighed(a, g) \in Nat /\ g[t] \in Nat
  BY <1>3, WeighedType
<1>6. MovedLast(T, p, t) = Append(a, t)
  BY DEF MovedLast, a, kept
<1> QED BY <1>1, <1>4, <1>5, <1>6

(* What is cut off and what is left have nothing in common.                *)
LEMMA CutApart ==
  ASSUME NEW T, NEW p \in Seq(T), NoneTwice(p), NEW n \in 0..Len(p)
  PROVE  LET front == SubSeq(p, 1, n)
             back == SubSeq(p, n + 1, Len(p))
         IN  /\ NoneTwice(back)
             /\ ToSet(front) \cap ToSet(back) = {}
             /\ ToSet(front) \cup ToSet(back) = ToSet(p)
<1> DEFINE front == SubSeq(p, 1, n)
           back == SubSeq(p, n + 1, Len(p))
           l == Len(p)
<1>1. /\ front \in Seq(T) /\ Len(front) = n /\ \A i \in 1..n : front[i] = p[i]
      /\ back \in Seq(T) /\ Len(back) = l - n /\ \A i \in 1..(l - n) : back[i] = p[n + i]
  BY CutFacts
<1>2. l \in Nat /\ n \in Nat /\ n <= l
  OBVIOUS
<1>3. p \in Seq(T) /\ \A i, j \in 1..l : p[i] = p[j] => i = j
  BY DEF NoneTwice
<1> HIDE DEF front, back
<1>4. ToSet(front) = {front[i] : i \in 1..n} /\ ToSet(back) = {back[i] : i \in 1..(l - n)}
      /\ ToSet(p) = {p[i] : i \in 1..l}
  BY <1>1, LenProperties DEF ToSet
<1> HIDE DEF l
<1>5. \A i \in 1..(l - n) : n + i \in 1..l /\ n + i \notin 1..n
  BY <1>2
<1>6. NoneTwice(back)
  <2> SUFFICES ASSUME NEW i \in 1..(l - n), NEW j \in 1..(l - n), back[i] = back[j]
               PROVE  i = j
    BY <1>1 DEF NoneTwice
  <2>1. n + i = n + j
    BY <1>1, <1>3, <1>5
  <2> QED BY <1>2, <2>1
<1>7. ToSet(front) \cap ToSet(back) = {}
  <2>1. \A i \in 1..n, j \in 1..(l - n) : front[i] # back[j]
    <3> TAKE i \in 1..n, j \in 1..(l - n)
    <3>1. i \in 1..l /\ n + j \in 1..l /\ i # n + j
      BY <1>2, <1>5
    <3> QED BY <1>1, <1>3, <3>1
  <2> QED BY <1>4, <2>1
<1>8. ToSet(front) \cup ToSet(back) = ToSet(p)
  <2>1. \A i \in 1..l : i \in 1..n \/ (i - n \in 1..(l - n) /\ n + (i - n) = i)
    BY <1>2
  <2>2. \A i \in 1..l : p[i] \in ToSet(front) \/ p[i] \in ToSet(back)
    <3> TAKE i \in 1..l
    <3>1. CASE i \in 1..n
      BY <1>1, <1>4, <3>1
    <3>2. CASE i - n \in 1..(l - n) /\ n + (i - n) = i
      <4>1. back[i - n] = p[i]
        BY <1>1, <3>2
      <4> QED BY <1>4, <3>2, <4>1
    <3> QED BY <2>1, <3>1, <3>2
  <2>3. \A i \in 1..n : front[i] \in ToSet(p)
    <3>1. \A i \in 1..n : i \in 1..l
      BY <1>2
    <3> QED BY <1>1, <1>4, <3>1
  <2>4. \A i \in 1..(l - n) : back[i] \in ToSet(p)
    BY <1>1, <1>4, <1>5
  <2> QED BY <1>4, <2>2, <2>3, <2>4
<1> QED BY <1>6, <1>7, <1>8 DEF front, back
==============================================================================
