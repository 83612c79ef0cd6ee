---------------------------- MODULE StringsProofs ----------------------------
(***************************************************************************)
(* STRING and UNSTRING move what they promise, for all fields, delimiters  *)
(* and pointers; INSPECT takes what its phrases promise, for all fields    *)
(* and operands; and what a function returns stands as long as the         *)
(* expression needs it, for every depth of the ring and whatever the       *)
(* functions compute.                                                      *)
(***************************************************************************)
EXTENDS Strings, Intrinsics, SequenceTheorems, FiniteSetTheorems, WellFoundedInduction, TLAPS

(* A nonempty set of numbers has a least one. *)
LEMMA LeastExists ==
  ASSUME NEW S \in SUBSET Nat, S # {}
  PROVE  \E n \in S : \A m \in S : n <= m
<1> DEFINE R == OpToRel(<, Nat)
<1>1. PICK n \in S : \A m \in S : ~ (<<m, n>> \in R)
  BY NatLessThanWellFounded, WFMin, Zenon
<1>2. ASSUME NEW m \in S PROVE n <= m
  <2>1. <<m, n>> \notin {pair \in Nat \X Nat : pair[1] < pair[2]}
    BY <1>1 DEF OpToRel
  <2>2. <<m, n>> \in Nat \X Nat
    OBVIOUS
  <2>3. ~(m < n)
    BY <2>1, <2>2
  <2> QED
    BY <2>3
<1> QED
  BY <1>2

(* A nonempty set of numbers below a bound has a greatest one. *)
LEMMA GreatestExists ==
  ASSUME NEW n \in Nat, NEW S \in SUBSET (0..n), S # {}
  PROVE  \E g \in S : \A m \in S : g >= m
<1> DEFINE T == {n - i : i \in S}
<1>1. T \in SUBSET Nat /\ T # {}
  <2>1. ASSUME NEW i \in S PROVE n - i \in Nat
    BY SMT
  <2>2. PICK i \in S : TRUE
    OBVIOUS
  <2>3. n - i \in T
    OBVIOUS
  <2> QED
    BY <2>1, <2>3
<1>2. PICK t \in T : \A m \in T : t <= m
  <2> HIDE DEF T
  <2> QED
    BY <1>1, LeastExists
<1>3. PICK g \in S : t = n - g
  OBVIOUS
<1>4. ASSUME NEW m \in S PROVE g >= m
  <2>1. n - m \in T
    OBVIOUS
  <2>2. n - g <= n - m
    BY <1>2, <1>3, <2>1
  <2> QED
    BY <2>2
<1> QED
  BY <1>4

(* A set of the first numbers that has 0, and with each number the next. *)
LEMMA UpTo ==
  ASSUME NEW n \in Nat, NEW S, 0 \in S,
         \A i \in 1..n : i - 1 \in S => i \in S
  PROVE  \A i \in 0..n : i \in S
<1> DEFINE Bad == {i \in 0..n : i \notin S}
<1> SUFFICES ASSUME Bad # {} PROVE FALSE
  OBVIOUS
<1>1. Bad \in SUBSET Nat
  OBVIOUS
<1>2. PICK m \in Bad : \A k \in Bad : m <= k
  <2> HIDE DEF Bad
  <2> QED
    BY <1>1, LeastExists
<1>3. m \in 0..n /\ m \notin S
  OBVIOUS
<1>4. m # 0
  BY <1>3
<1>5. m - 1 \in 0..n /\ m \in 1..n
  BY <1>3, <1>4
<1>6. m - 1 \notin Bad
  <2>1. ~(m <= m - 1)
    BY <1>3
  <2> QED
    BY <1>2, <2>1
<1> QED
  BY <1>3, <1>5, <1>6

FoundInSteps(g, n, b, step) == g[0] = b /\ \A i \in 1..n : g[i] = step[i][g[i - 1]]

(* A value for each number, found from the value before it. *)
LEMMA RecursionExists ==
  ASSUME NEW n \in Nat, NEW S, NEW b \in S, NEW step \in [1..n -> [S -> S]]
  PROVE  \E g \in [0..n -> S] : FoundInSteps(g, n, b, step)
<1> DEFINE Done == {k \in 0..n :
                      \E g \in [0..k -> S] : /\ g[0] = b
                                             /\ \A i \in 1..k : g[i] = step[i][g[i - 1]]}
<1>1. 0 \in Done
  <2> DEFINE g == [i \in 0..0 |-> b]
  <2>1. g \in [0..0 -> S] /\ g[0] = b /\ 0 \in 0..n
    OBVIOUS
  <2>2. \A i \in 1..0 : g[i] = step[i][g[i - 1]]
    OBVIOUS
  <2> QED
    BY <2>1, <2>2
<1>2. ASSUME NEW k \in 1..n, k - 1 \in Done PROVE k \in Done
  <2>1. PICK g \in [0..(k - 1) -> S] : /\ g[0] = b
                                      /\ \A i \in 1..(k - 1) : g[i] = step[i][g[i - 1]]
    BY <1>2
  <2> DEFINE h == [i \in 0..k |-> IF i = k THEN step[k][g[k - 1]] ELSE g[i]]
  <2>2. k \in 1..n /\ k - 1 \in 0..(k - 1) /\ \A i \in 0..k : i # k => i \in 0..(k - 1)
    OBVIOUS
  <2>3. step[k] \in [S -> S] /\ g[k - 1] \in S
    BY <2>2
  <2>4. step[k][g[k - 1]] \in S
    BY <2>3
  <2>5. h \in [0..k -> S]
    BY <2>2, <2>4
  <2>6. h[0] = b
    BY <2>1, <2>2
  <2>7. ASSUME NEW i \in 1..k PROVE h[i] = step[i][h[i - 1]]
    <3>1. i \in 0..k /\ i - 1 \in 0..k /\ i - 1 # k
      OBVIOUS
    <3>2. h[i - 1] = g[i - 1]
      BY <3>1
    <3>3. CASE i = k
      BY <3>1, <3>2, <3>3
    <3>4. CASE i # k
      <4>1. i \in 1..(k - 1) /\ h[i] = g[i]
        BY <3>1, <3>4
      <4> QED
        BY <2>1, <4>1, <3>2
    <3> QED
      BY <3>3, <3>4
  <2>8. k \in 0..n
    OBVIOUS
  <2> QED
    BY <2>5, <2>6, <2>7, <2>8
<1>3. n \in Done
  <2> HIDE DEF Done
  <2>1. \A i \in 0..n : i \in Done
    BY <1>1, <1>2, UpTo
  <2> QED
    BY <2>1
<1> QED
  BY <1>3 DEF FoundInSteps

-----------------------------------------------------------------------------
(* Texts put one behind the other. *)

(* the texts of s, joined one after the other, give the stages g *)
Joins(g, s) == g[0] = <<>> /\ \A i \in 1..Len(s) : g[i] = g[i - 1] \o s[i]

(* Any texts have such stages. *)
LEMMA JoinsExist ==
  ASSUME NEW T, NEW s \in Seq(Seq(T))
  PROVE  \E g \in [0..Len(s) -> Seq(T)] : Joins(g, s)
<1> DEFINE n == Len(s)
           S == Seq(T)
           step == [i \in 1..n |-> [x \in S |-> x \o s[i]]]
<1>1. n \in Nat /\ (\A i \in 1..n : s[i] \in S) /\ <<>> \in S
  OBVIOUS
<1>2. \A i \in 1..n, x \in S : x \o s[i] \in S
  BY <1>1
<1> HIDE DEF n, S
<1>3. step \in [1..n -> [S -> S]]
  BY <1>2
<1> HIDE DEF step
<1>4. PICK g \in [0..n -> S] : FoundInSteps(g, n, <<>>, step)
  BY <1>1, <1>3, RecursionExists
<1>5. ASSUME NEW i \in 1..n
      PROVE  g[i] = g[i - 1] \o s[i]
  <2>1. i - 1 \in 0..n
    BY <1>1
  <2>2. g[i - 1] \in S
    BY <2>1
  <2>3. step[i][g[i - 1]] = g[i - 1] \o s[i]
    BY <2>2 DEF step
  <2> QED
    BY <1>4, <2>3 DEF FoundInSteps
<1> QED
  BY <1>4, <1>5 DEF FoundInSteps, Joins, n, S

(* FlattenSeq gives the last stage. *)
LEMMA FlattenIs ==
  ASSUME NEW T, NEW s \in Seq(Seq(T)), NEW g \in [0..Len(s) -> Seq(T)], Joins(g, s)
  PROVE  FlattenSeq(s) = g[Len(s)]
<1> DEFINE n == Len(s)
           Body(h) == [i \in 1..n |-> IF i = 1 THEN s[i] ELSE h[i - 1] \o s[i]]
           flatten == CHOOSE flatten : flatten = Body(flatten)
<1>1. n \in Nat /\ (\A i \in 1..n : s[i] \in Seq(T)) /\ (n = 0 => s = <<>>)
  OBVIOUS
<1>2. FlattenSeq(s) = IF n = 0 THEN s ELSE flatten[n]
  BY DEF FlattenSeq
<1>3. g[0] = <<>> /\ \A i \in 1..n : g[i] = g[i - 1] \o s[i]
  BY DEF Joins
<1>4. g \in [0..n -> Seq(T)]
  OBVIOUS
<1> HIDE DEF n
<1>5. CASE n = 0
  BY <1>1, <1>2, <1>3, <1>5 DEF n
<1>7. n # 0 => g[1] = s[1]
  <2>1. n # 0 => g[1] = <<>> \o s[1] /\ s[1] \in Seq(T)
    <3>1. n # 0 => 1 \in 1..n /\ 1 - 1 = 0
      BY <1>1
    <3> QED
      BY <3>1, <1>1, <1>3
  <2> QED
    BY <2>1, ConcatEmptySeq
<1>6. CASE n # 0
  <2> DEFINE h == [i \in 1..n |-> g[i]]
  <2>1. \A i \in 1..n : h[i] = IF i = 1 THEN s[i] ELSE h[i - 1] \o s[i]
    <3> TAKE i \in 1..n
    <3>1. CASE i = 1
      BY <3>1, <1>6, <1>7
    <3>2. CASE i # 1
      <4>1. i - 1 \in 1..n
        BY <3>2, <1>1
      <4> QED
        BY <4>1, <3>2, <1>3
    <3> QED
      BY <3>1, <3>2
  <2>2. h = Body(h)
    BY <2>1
  <2>3. flatten = Body(flatten)
    <3> HIDE DEF Body, h
    <3> QED
      BY <2>2
  <2> HIDE DEF flatten, h
  <2>4. \A i \in 1..n : flatten[i] = IF i = 1 THEN s[i] ELSE flatten[i - 1] \o s[i]
    BY <2>3
  <2> HIDE DEF Body
  <2> DEFINE Same == {0} \cup {i \in 1..n : flatten[i] = g[i]}
  <2>5. ASSUME NEW i \in 1..n, i - 1 \in Same PROVE i \in Same
    <3>1. CASE i = 1
      BY <3>1, <2>4, <1>6, <1>7
    <3>2. CASE i # 1
      <4>1. flatten[i - 1] = g[i - 1]
        BY <2>5, <3>2, <1>1
      <4> QED
        BY <4>1, <3>2, <2>4, <1>3
    <3> QED
      BY <3>1, <3>2
  <2>6. \A i \in 0..n : i \in Same
    <3>1. 0 \in Same
      OBVIOUS
    <3> HIDE DEF Same
    <3> QED
      BY <1>1, <2>5, <3>1, UpTo
  <2>7. n \in Same /\ n \in 1..n
    BY <2>6, <1>1, <1>6
  <2> QED
    BY <2>7, <1>2, <1>6 DEF n
<1> QED
  BY <1>5, <1>6

(* Another one behind them. *)
LEMMA FlattenAppend ==
  ASSUME NEW T, NEW s \in Seq(Seq(T)), NEW x \in Seq(T)
  PROVE  /\ FlattenSeq(s) \in Seq(T)
         /\ FlattenSeq(Append(s, x)) = FlattenSeq(s) \o x
<1> DEFINE r == Append(s, x)
           n == Len(s)
<1>1. /\ r \in Seq(Seq(T)) /\ n \in Nat /\ Len(r) = n + 1 /\ r[n + 1] = x
      /\ \A i \in 1..n : r[i] = s[i]
  OBVIOUS
<1> HIDE DEF r
<1>2. PICK g \in [0..Len(r) -> Seq(T)] : Joins(g, r)
  BY <1>1, JoinsExist
<1>3. FlattenSeq(r) = g[n + 1]
  BY <1>1, <1>2, FlattenIs
<1> DEFINE h == [i \in 0..n |-> g[i]]
<1>4. h \in [0..n -> Seq(T)] /\ h[n] = g[n] /\ g[n] \in Seq(T)
  BY <1>1
<1>5. h[0] = <<>> /\ \A i \in 1..n : h[i] = h[i - 1] \o s[i]
  <2>1. g[0] = <<>> /\ \A i \in 1..(n + 1) : g[i] = g[i - 1] \o r[i]
    BY <1>1, <1>2 DEF Joins
  <2>2. ASSUME NEW i \in 1..n PROVE h[i] = h[i - 1] \o s[i]
    <3>1. i \in 1..(n + 1) /\ i \in 0..n /\ i - 1 \in 0..n
      BY <1>1
    <3> QED
      BY <2>1, <3>1, <1>1
  <2>3. 0 \in 0..n
    BY <1>1
  <2> QED
    BY <2>1, <2>2, <2>3
<1> HIDE DEF h
<1>6. Joins(h, s)
  BY <1>5 DEF Joins, n
<1>7. FlattenSeq(s) = g[n]
  BY <1>4, <1>6, FlattenIs DEF n
<1>8. g[n + 1] = g[n] \o x
  <2>1. n + 1 \in 1..Len(r) /\ (n + 1) - 1 = n
    BY <1>1
  <2> QED
    BY <1>1, <1>2, <2>1 DEF Joins
<1> QED
  BY <1>3, <1>4, <1>7, <1>8 DEF r

(* Of no texts there is nothing. *)
LEMMA FlattenNone == FlattenSeq(<<>>) = <<>>
  BY DEF FlattenSeq

-----------------------------------------------------------------------------
(* A run of one text, again and again. *)

(* Counting on from k until a number outside W. *)
CountsOn(f, n, W) == f = [k \in 0..n |-> IF k \in W THEN f[k + 1] ELSE k]

(* There is such a count. *)
LEMMA CountingExists ==
  ASSUME NEW n \in Nat, NEW W \in SUBSET (0..(n - 1))
  PROVE  \E f : CountsOn(f, n, W)
<1> DEFINE Ends(k) == {j \in 0..n : j >= k /\ j \notin W}
           f == [k \in 0..n |-> CHOOSE j \in Ends(k) : \A m \in Ends(k) : j <= m]
<1>1. ASSUME NEW k \in 0..n, k \in W PROVE k + 1 \in 0..n /\ Ends(k) = Ends(k + 1)
  <2>1. k + 1 \in 0..n
    BY <1>1
  <2>2. \A j \in 0..n : j >= k /\ j \notin W <=> j >= k + 1 /\ j \notin W
    BY <1>1
  <2> QED
    BY <2>1, <2>2
<1>2. ASSUME NEW k \in 0..n, k \notin W PROVE f[k] = k
  <2>1. k \in Ends(k) /\ \A m \in Ends(k) : k <= m
    BY <1>2
  <2>2. \A j \in Ends(k) : (\A m \in Ends(k) : j <= m) => j = k
    BY <2>1
  <2> HIDE DEF Ends
  <2>3. (CHOOSE j \in Ends(k) : \A m \in Ends(k) : j <= m) = k
    BY <2>1, <2>2
  <2> QED
    BY <2>3
<1>3. ASSUME NEW k \in 0..n, k \in W PROVE f[k] = f[k + 1]
  BY <1>1, <1>3
<1>4. f = [k \in 0..n |-> f[k]]
  OBVIOUS
<1> HIDE DEF f
<1>5. f = [k \in 0..n |-> IF k \in W THEN f[k + 1] ELSE k]
  BY <1>2, <1>3, <1>4
<1> QED
  BY <1>5 DEF CountsOn

(* It ends at the first number outside W. *)
LEMMA CountingIs ==
  ASSUME NEW n \in Nat, NEW W \in SUBSET (0..(n - 1)), NEW f, CountsOn(f, n, W)
  PROVE  f[0] \in 0..n /\ f[0] \notin W /\ \A k \in 0..(f[0] - 1) : k \in W
<1>1. \A k \in 0..n : f[k] = IF k \in W THEN f[k + 1] ELSE k
  BY DEF CountsOn
<1> DEFINE Ends == {j \in 0..n : j \notin W}
<1>2. Ends \in SUBSET Nat /\ Ends # {}
  <2>1. n \in Ends
    OBVIOUS
  <2> QED
    BY <2>1
<1>3. PICK r \in Ends : \A m \in Ends : r <= m
  <2> HIDE DEF Ends
  <2> QED
    BY <1>2, LeastExists
<1>4. r \in 0..n /\ r \notin W /\ \A k \in 0..(r - 1) : k \in W
  <2>1. ASSUME NEW k \in 0..(r - 1) PROVE k \in W
    <3>1. k \in 0..n /\ ~(r <= k)
      BY <1>3
    <3> QED
      BY <3>1, <1>3
  <2> QED
    BY <2>1
<1> HIDE DEF Ends
<1> DEFINE Same == {i \in 0..r : f[r - i] = r}
<1>5. 0 \in Same
  <2>1. r - 0 = r /\ 0 \in 0..r
    BY <1>4
  <2> QED
    BY <2>1, <1>1, <1>4
<1>6. ASSUME NEW i \in 1..r, i - 1 \in Same PROVE i \in Same
  <2>1. r - i \in 0..(r - 1) /\ r - i \in 0..n /\ (r - i) + 1 = r - (i - 1)
    BY <1>4
  <2>2. f[r - i] = f[(r - i) + 1]
    BY <2>1, <1>1, <1>4
  <2>3. f[r - (i - 1)] = r
    BY <1>6
  <2> QED
    BY <2>1, <2>2, <2>3
<1>7. r \in Same
  <2> HIDE DEF Same
  <2>1. r \in Nat /\ r \in 0..r
    BY <1>4
  <2> QED
    BY <1>5, <1>6, <2>1, UpTo
<1>8. f[0] = r
  <2>1. r - r = 0
    BY <1>4
  <2> QED
    BY <1>7, <2>1
<1> QED
  BY <1>4, <1>8

(* How often d stands from p on. *)
LEMMA RunIs ==
  ASSUME Len(data) \in Nat, NEW d, Len(d) \in Nat \ {0}, NEW p \in Nat \ {0}
  PROVE  /\ Run(d, p) \in Nat
         /\ ~At(data, d, p + Run(d, p) * Len(d), Len(data))
         /\ \A k \in 0..(Run(d, p) - 1) : At(data, d, p + k * Len(d), Len(data))
<1> DEFINE n == Len(d)
           m == Len(data)
           W == {k \in 0..m : At(data, d, p + k * n, m)}
           Body(h) == [k \in 0..m |-> IF At(data, d, p + k * n, m) THEN h[k + 1] ELSE k]
           times == CHOOSE times : times = Body(times)
<1>1. Run(d, p) = times[0]
  BY DEF Run
<1>2. ~At(data, d, p + m * n, m)
  <2>1. n \in Nat /\ n >= 1 /\ m \in Nat /\ p \in Nat /\ p >= 1
    OBVIOUS
  <2> HIDE DEF n, m
  <2>2. m * n \in Nat /\ m * n >= m
    BY <2>1
  <2> DEFINE q == p + m * n
  <2>3. q \in Nat /\ q >= m + 1
    BY <2>1, <2>2
  <2> HIDE DEF q
  <2>4. q + n - 1 > m
    BY <2>1, <2>3
  <2>5. ~At(data, d, q, m)
    BY <2>1, <2>3, <2>4 DEF At, n
  <2> QED
    BY <2>5 DEF q
<1>3. W \in SUBSET (0..(m - 1))
  <2>1. \A k \in 0..m : k \in 0..(m - 1) \/ k = m
    OBVIOUS
  <2> QED
    BY <2>1, <1>2
<1>4. m \in Nat
  OBVIOUS
<1> HIDE DEF m
<1>5. PICK h : CountsOn(h, m, W)
  <2> HIDE DEF W
  <2> QED
    BY <1>3, <1>4, CountingExists
<1>6. \A k \in 0..m : k \in W <=> At(data, d, p + k * n, m)
  OBVIOUS
<1> HIDE DEF W
<1>7. h = Body(h)
  BY <1>5, <1>6 DEF CountsOn
<1>8. times = Body(times)
  <2> HIDE DEF Body
  <2> QED
    BY <1>7
<1> HIDE DEF times
<1>9. CountsOn(times, m, W)
  BY <1>6, <1>8 DEF CountsOn
<1> HIDE DEF Body, n
<1>10. times[0] \in 0..m /\ times[0] \notin W /\ \A k \in 0..(times[0] - 1) : k \in W
  BY <1>3, <1>4, <1>9, CountingIs
<1>11. \A k \in 0..(times[0] - 1) : k \in 0..m
  BY <1>10, <1>4
<1>12. /\ times[0] \in Nat /\ ~At(data, d, p + times[0] * n, m)
       /\ \A k \in 0..(times[0] - 1) : At(data, d, p + k * n, m)
  BY <1>6, <1>10, <1>11, <1>4
<1> QED
  BY <1>1, <1>12 DEF n, m

(* behind k times d from p on *)
After(d, p, k) == p + k * Len(d)

(* d stands in t at p, r times one behind the other *)
Repeats(t, d, p, r) == \A k \in 0..(r - 1) : At(t, d, After(d, p, k), Len(t))

(* Where the next one stands. *)
LEMMA AfterSteps ==
  ASSUME NEW d, Len(d) \in Nat, NEW p \in Nat
  PROVE  /\ After(d, p, 0) = p /\ After(d, p, 1) = p + Len(d)
         /\ \A k \in Nat : /\ After(d, p, k) \in Nat /\ After(d, p, k) >= p
                           /\ After(d, p, k + 1) = After(d, p, k) + Len(d)
<1> DEFINE n == Len(d)
<1>1. n \in Nat
  OBVIOUS
<1> HIDE DEF n
<1>2. \A k \in Nat : k * n \in Nat /\ (k + 1) * n = k * n + n
  BY <1>1
<1>3. 0 * n = 0 /\ 1 * n = n
  BY <1>1
<1>4. \A k \in Nat : After(d, p, k) = p + k * n
  BY DEF After, n
<1>5. After(d, p, 0) = p /\ After(d, p, 1) = p + n
  BY <1>1, <1>3, <1>4
<1>6. ASSUME NEW k \in Nat
      PROVE  /\ After(d, p, k) \in Nat /\ After(d, p, k) >= p
             /\ After(d, p, k + 1) = After(d, p, k) + n
  <2>1. k + 1 \in Nat /\ After(d, p, k) = p + k * n /\ After(d, p, k + 1) = p + (k + 1) * n
    BY <1>4
  <2> DEFINE m == k * n
  <2>2. m \in Nat /\ (k + 1) * n = m + n
    BY <1>2
  <2> HIDE DEF m
  <2>3. After(d, p, k) = p + m /\ After(d, p, k + 1) = p + (m + n)
    BY <2>1, <2>2 DEF m
  <2> QED
    BY <1>1, <2>2, <2>3
<1> QED
  BY <1>5, <1>6 DEF n

(* d, r times *)
Times(d, r) == [k \in 1..r |-> d]

(* Put together, they are what stands there. *)
LEMMA RunJoined ==
  ASSUME NEW t \in Seq(Nat), NEW d \in Seq(Nat), d # <<>>, NEW p \in 1..(Len(t) + 1), NEW r \in Nat,
         Repeats(t, d, p, r)
  PROVE  LET e == After(d, p, r)
         IN  e \in 1..(Len(t) + 1) /\ FlattenSeq(Times(d, r)) = SubSeq(t, p, e - 1)
<1> DEFINE n == Len(d)
           m == Len(t)
           at(k) == After(d, p, k)
           e == at(r)
<1>1. n \in Nat /\ n >= 1 /\ m \in Nat /\ p \in Nat /\ p \in 1..(m + 1)
  OBVIOUS
<1>2. at(0) = p /\ \A k \in Nat : at(k) \in Nat /\ at(k) >= p /\ at(k + 1) = at(k) + n
  BY <1>1, AfterSteps, Zenon
<1>3. e = at(r) /\ \A k \in 0..(r - 1) : At(t, d, at(k), m)
  BY DEF Repeats
<1> HIDE DEF at, m, e
<1>4. ASSUME NEW k \in 0..r PROVE at(k) \in 1..(m + 1)
  <2>1. CASE k = 0
    BY <2>1, <1>1, <1>2
  <2>2. CASE k # 0
    <3>1. k - 1 \in 0..(r - 1) /\ k - 1 \in Nat /\ (k - 1) + 1 = k
      BY <2>2
    <3>2. at(k - 1) + n - 1 <= m /\ at(k) = at(k - 1) + n /\ at(k - 1) \in Nat /\ at(k - 1) >= p
      BY <3>1, <1>2, <1>3 DEF At
    <3> HIDE DEF n
    <3> QED
      BY <3>2, <1>1
  <2> QED
    BY <2>1, <2>2
<1> DEFINE s == Times(d, r)
           g == [k \in 0..r |-> SubSeq(t, p, at(k) - 1)]
<1>5. s \in Seq(Seq(Nat)) /\ Len(s) = r /\ \A k \in 1..r : s[k] = d
  BY DEF Times
<1>6. ASSUME NEW k \in 0..r PROVE SubSeq(t, p, at(k) - 1) \in Seq(Nat)
  <2> DEFINE z == at(k) - 1
  <2>1. p \in Int /\ z \in Int /\ \A i \in p..z : i \in 1..m
    BY <1>4, <1>1
  <2>2. \A i \in p..z : t[i] \in Nat
    BY <2>1 DEF m
  <2> HIDE DEF z
  <2>3. SubSeq(t, p, z) \in Seq(Nat)
    BY <2>1, <2>2, SubSeqProperties
  <2> QED
    BY <2>3 DEF z
<1>7. g \in [0..r -> Seq(Nat)]
  BY <1>6
<1>8. g[0] = <<>>
  <2>1. at(0) - 1 < p /\ at(0) - 1 \in Int /\ p \in Int
    <3>1. at(0) = p
      BY <1>2
    <3> QED
      BY <3>1, <1>1
  <2> QED
    BY <2>1, SubSeqEmpty
<1>9. ASSUME NEW i \in 1..r PROVE g[i] = g[i - 1] \o s[i]
  <2> DEFINE k == i - 1
             a == at(k)
             b == at(i)
  <2>1. k \in 0..r /\ k \in 0..(r - 1) /\ k \in Nat /\ k + 1 = i /\ i \in 0..r
    OBVIOUS
  <2>2. a \in 1..(m + 1) /\ b \in 1..(m + 1) /\ b = a + n /\ a >= p
    BY <2>1, <1>2, <1>4
  <2>3. SubSeq(t, a, a + n - 1) = d
    BY <2>1, <1>3 DEF At, n
  <2> HIDE DEF a, b
  <2>4. p \in 1..(m + 1) /\ a - 1 \in (p - 1)..m /\ b - 1 \in (a - 1)..m /\ (a - 1) + 1 = a /\ a + n - 1 = b - 1
    BY <2>2, <1>1 DEF m
  <2> DEFINE y == a - 1
             z == b - 1
  <2>5. SubSeq(t, p, y) \o SubSeq(t, y + 1, z) = SubSeq(t, p, z)
    <3>1. p \in 1..(Len(t) + 1) /\ y \in (p - 1)..Len(t) /\ z \in y..Len(t)
      BY <2>4 DEF m
    <3> HIDE DEF y, z
    <3> QED
      BY <3>1, ConcatAdjacentSubSeq
  <2>6. g[i] = SubSeq(t, p, z) /\ g[i - 1] = SubSeq(t, p, y)
    BY <2>1 DEF a, b
  <2>7. SubSeq(t, y + 1, z) = d
    BY <2>3, <2>4
  <2>8. s[i] = d
    BY <1>5
  <2> HIDE DEF s
  <2> QED
    BY <2>5, <2>6, <2>7, <2>8
<1> HIDE DEF g
<1>10. Joins(g, s)
  BY <1>5, <1>8, <1>9 DEF Joins
<1> HIDE DEF s
<1>11. FlattenSeq(s) = g[r]
  BY <1>5, <1>7, <1>10, FlattenIs
<1>12. g[r] = SubSeq(t, p, at(r) - 1)
  <2>1. r \in 0..r
    OBVIOUS
  <2> QED
    BY <2>1 DEF g
<1>13. at(r) \in 1..(m + 1)
  BY <1>4
<1> QED
  BY <1>3, <1>11, <1>12, <1>13 DEF m, s, e, at

-----------------------------------------------------------------------------
(* The pieces of UNSTRING. *)

Delims == [d : Patterns, all : BOOLEAN]
CutPiece  == [from : Nat, size : Nat, by : Nat, times : Nat]

(* a piece of the field t, cut at the delimiters dl *)
HitsIn(t, dl, p)    == {i \in DOMAIN dl : At(t, dl[i].d, p, Len(t))}
SizeIn(dl, piece)   == piece.size + IF piece.by = 0 THEN 0 ELSE piece.times * Len(dl[piece.by].d)
JoinedIn(t, dl, piece) ==
  SubSeq(t, piece.from, piece.from + piece.size - 1)
    \o (IF piece.by = 0 THEN <<>> ELSE FlattenSeq(Times(dl[piece.by].d, piece.times)))
NoneLeft(t, dl, piece) ==
  dl # <<>> =>
    /\ \A q \in piece.from..(piece.from + piece.size - 1) : HitsIn(t, dl, q) = {}
    /\ piece.by = 0 => piece.from + piece.size = Len(t) + 1
    /\ piece.by # 0 =>
         /\ \A i \in 1..(piece.by - 1) : i \notin HitsIn(t, dl, piece.from + piece.size)
         /\ dl[piece.by].all => piece.by \notin HitsIn(t, dl, piece.from + SizeIn(dl, piece))

(* ... of the characters from first on *)
CutSound(t, dl, first, piece) ==
  /\ piece \in CutPiece /\ SizeIn(dl, piece) \in Nat
  /\ first + SizeIn(dl, piece) \in first..(Len(t) + 1)
  /\ JoinedIn(t, dl, piece) = SubSeq(t, first, first + SizeIn(dl, piece) - 1)
  /\ NoneLeft(t, dl, piece)

(* What is looked for has characters. *)
LEMMA PatternsAre == \A d \in Patterns : d \in Seq(Nat) /\ d # <<>> /\ Len(d) \in Nat \ {0}
  BY StringsAssumption

(* Up to the end, or to where the receiving field is full. *)
LEMMA RestSound ==
  ASSUME NEW t \in Seq(Nat), NEW dl, NEW first \in 1..Len(t), NEW n \in 0..(Len(t) + 1 - first),
         dl # <<>> => n = Len(t) + 1 - first /\ \A q \in first..Len(t) : HitsIn(t, dl, q) = {}
  PROVE  CutSound(t, dl, first, [from |-> first, size |-> n, by |-> 0, times |-> 0])
<1> DEFINE piece == [from |-> first, size |-> n, by |-> 0, times |-> 0]
<1>1. /\ piece \in CutPiece /\ piece.from = first /\ piece.size = n /\ piece.by = 0
  BY DEF CutPiece
<1> HIDE DEF piece
<1>2. SizeIn(dl, piece) = n /\ n \in Nat
  BY <1>1 DEF SizeIn
<1>3. first + n \in first..(Len(t) + 1)
  OBVIOUS
<1>4. SubSeq(t, first, first + n - 1) \in Seq(Nat)
  <2> DEFINE z == first + n - 1
  <2>1. first \in Int /\ z \in Int /\ \A i \in first..z : t[i] \in Nat
    OBVIOUS
  <2> HIDE DEF z
  <2>2. SubSeq(t, first, z) \in Seq(Nat)
    BY <2>1, SubSeqProperties
  <2> QED
    BY <2>2 DEF z
<1>5. JoinedIn(t, dl, piece) = SubSeq(t, first, first + n - 1)
  BY <1>1, <1>4, ConcatEmptySeq DEF JoinedIn
<1>6. NoneLeft(t, dl, piece)
  <2> SUFFICES ASSUME dl # <<>> PROVE NoneLeft(t, dl, piece)
    BY DEF NoneLeft
  <2>1. first + n = Len(t) + 1 /\ first + n - 1 = Len(t)
    OBVIOUS
  <2> QED
    BY <1>1, <2>1 DEF NoneLeft
<1>7. CutSound(t, dl, first, piece)
  BY <1>1, <1>2, <1>3, <1>5, <1>6 DEF CutSound
<1> QED
  BY <1>7 DEF piece

(* the first delimiter behind first is i, at p, and is taken r times *)
StopsAt(t, dl, first, p, i, r) ==
  /\ \A q \in first..(p - 1) : HitsIn(t, dl, q) = {}
  /\ i \in HitsIn(t, dl, p) /\ \A j \in HitsIn(t, dl, p) : i <= j
  /\ Repeats(t, dl[i].d, p, r)
  /\ dl[i].all => ~At(t, dl[i].d, After(dl[i].d, p, r), Len(t))

(* Up to the first delimiter. *)
LEMMA HitSound ==
  ASSUME NEW t \in Seq(Nat), NEW dl \in Seq(Delims), NEW first \in 1..Len(t),
         NEW p \in first..Len(t), NEW i, NEW r \in Nat, StopsAt(t, dl, first, p, i, r)
  PROVE  CutSound(t, dl, first, [from |-> first, size |-> p - first, by |-> i, times |-> r])
<1> DEFINE piece == [from |-> first, size |-> p - first, by |-> i, times |-> r]
           d == dl[i].d
<1>1. i \in DOMAIN dl /\ i \in Nat \ {0} /\ dl[i] \in Delims
  BY DEF HitsIn, StopsAt
<1>2. d \in Seq(Nat) /\ d # <<>> /\ Len(d) \in Nat \ {0}
  BY <1>1, PatternsAre DEF Delims
<1>3. p \in Nat /\ p \in 1..(Len(t) + 1) /\ first \in Nat /\ p - first \in Nat /\ first + (p - first) = p
  OBVIOUS
<1>4. /\ piece \in CutPiece /\ piece.from = first /\ piece.size = p - first /\ piece.by = i /\ piece.times = r
  BY <1>1, <1>3 DEF CutPiece
<1> HIDE DEF piece
<1> DEFINE e == After(d, p, r)
<1>5. first + SizeIn(dl, piece) = e /\ e \in Nat /\ e >= p /\ SizeIn(dl, piece) \in Nat
  <2> DEFINE m == r * Len(d)
  <2>1. SizeIn(dl, piece) = (p - first) + m
    BY <1>1, <1>4 DEF SizeIn
  <2>2. m \in Nat
    BY <1>2
  <2>3. e = p + m
    BY DEF After
  <2> HIDE DEF m, e
  <2> QED
    BY <1>3, <2>1, <2>2, <2>3
<1>6. Repeats(t, d, p, r)
  BY DEF StopsAt
<1> HIDE DEF d
<1> DEFINE run == Times(d, r)
<1>7. e \in 1..(Len(t) + 1) /\ FlattenSeq(run) = SubSeq(t, p, e - 1)
  BY <1>2, <1>3, <1>6, RunJoined
<1> HIDE DEF e
<1>8. JoinedIn(t, dl, piece) = SubSeq(t, first, p - 1) \o FlattenSeq(run)
  <2>1. first + (p - first) - 1 = p - 1
    BY <1>3
  <2> QED
    BY <1>1, <1>4, <2>1 DEF JoinedIn, d
<1> HIDE DEF run
<1>9. e >= p
  BY <1>5
<1>10. SubSeq(t, first, p - 1) \o SubSeq(t, p, e - 1) = SubSeq(t, first, e - 1)
  <2> DEFINE y == p - 1
             z == e - 1
  <2>1. first \in 1..(Len(t) + 1) /\ y \in (first - 1)..Len(t) /\ z \in y..Len(t) /\ y + 1 = p
    BY <1>7, <1>9, <1>3
  <2> HIDE DEF y, z
  <2>2. SubSeq(t, first, y) \o SubSeq(t, y + 1, z) = SubSeq(t, first, z)
    BY <2>1, ConcatAdjacentSubSeq
  <2> QED
    BY <2>1, <2>2 DEF y, z
<1>11. first + SizeIn(dl, piece) = e
  BY <1>5
<1>12. NoneLeft(t, dl, piece)
  <2>1. piece.from + piece.size = p /\ piece.from + SizeIn(dl, piece) = e
    BY <1>3, <1>4, <1>11
  <2>2. \A j \in 1..(i - 1) : j \notin HitsIn(t, dl, p)
    BY <1>1 DEF StopsAt
  <2>3. dl[i].all => i \notin HitsIn(t, dl, e)
    BY DEF HitsIn, d, e, StopsAt
  <2>4. \A q \in first..(p - 1) : HitsIn(t, dl, q) = {}
    BY DEF StopsAt
  <2> QED
    BY <1>1, <1>4, <2>1, <2>2, <2>3, <2>4 DEF NoneLeft
<1>13. CutSound(t, dl, first, piece)
  <2>1. first + SizeIn(dl, piece) \in first..(Len(t) + 1)
    BY <1>7, <1>9, <1>11, <1>3
  <2>2. JoinedIn(t, dl, piece) = SubSeq(t, first, first + SizeIn(dl, piece) - 1)
    <3>1. JoinedIn(t, dl, piece) = SubSeq(t, first, e - 1)
      BY <1>7, <1>8, <1>10
    <3>2. first + SizeIn(dl, piece) - 1 = e - 1
      <4>1. ASSUME NEW x \in Nat, NEW y \in Nat, first + x = y PROVE first + x - 1 = y - 1
        BY <4>1
      <4> QED
        BY <1>5, <4>1
    <3> QED
      BY <3>1, <3>2
  <2> QED
    BY <1>4, <1>5, <1>12, <2>1, <2>2, Zenon DEF CutSound
<1> QED
  BY <1>13 DEF piece

(* Cut finds a piece. *)
LEMMA CutIsSound ==
  ASSUME text \in Seq(Nat), data = text, delims \in Seq(Delims), delims # <<>>,
         NEW first \in 1..Len(text)
  PROVE  CutSound(text, delims, first, Cut(first))
<1> DEFINE stops == {p \in first..Len(data) : Hits(p) # {}}
           p == CHOOSE q \in stops : \A r \in stops : q <= r
           i == CHOOSE j \in Hits(p) : \A k \in Hits(p) : j <= k
<1>1. \A q : Hits(q) = HitsIn(text, delims, q)
  BY DEF Hits, HitsIn
<1>2. CASE stops = {}
  <2>1. Cut(first) = [from |-> first, size |-> Len(text) + 1 - first, by |-> 0, times |-> 0]
    BY <1>2 DEF Cut
  <2>2. \A q \in first..Len(text) : HitsIn(text, delims, q) = {}
    BY <1>1, <1>2
  <2> DEFINE n == Len(text) + 1 - first
  <2>3. n \in 0..(Len(text) + 1 - first) /\ n = Len(text) + 1 - first
    OBVIOUS
  <2> HIDE DEF n
  <2>4. CutSound(text, delims, first, [from |-> first, size |-> n, by |-> 0, times |-> 0])
    BY <2>2, <2>3, RestSound
  <2> QED
    BY <2>1, <2>4 DEF n
<1>3. CASE stops # {}
  <2>1. stops \in SUBSET Nat
    OBVIOUS
  <2>2. p \in stops /\ \A r \in stops : p <= r
    <3> HIDE DEF stops
    <3> QED
      BY <1>3, <2>1, LeastExists
  <2>3. /\ Cut(first) = [from |-> first, size |-> p - first, by |-> i,
                         times |-> IF delims[i].all THEN Run(delims[i].d, p) ELSE 1]
    BY <1>3 DEF Cut
  <2> HIDE DEF p
  <2>4. p \in first..Len(text) /\ p \in Nat \ {0} /\ Hits(p) # {} /\ \A q \in first..(p - 1) : Hits(q) = {}
    <3>1. p \in first..Len(text) /\ p \in Nat \ {0} /\ Hits(p) # {}
      BY <2>2
    <3>2. ASSUME NEW q \in first..(p - 1) PROVE Hits(q) = {}
      <4>1. q \in first..Len(data) /\ ~(p <= q)
        BY <3>1
      <4> QED
        BY <4>1, <2>2
    <3> QED
      BY <3>1, <3>2
  <2>5. Hits(p) \in SUBSET Nat
    BY DEF Hits
  <2>6. i \in Hits(p) /\ \A k \in Hits(p) : i <= k
    <3> HIDE DEF stops
    <3> QED
      BY <2>4, <2>5, LeastExists
  <2> HIDE DEF i, stops
  <2> DEFINE d == delims[i].d
             r == IF delims[i].all THEN Run(d, p) ELSE 1
  <2>7. i \in DOMAIN delims /\ At(text, d, p, Len(text))
    BY <2>6 DEF Hits
  <2>8. d \in Patterns /\ Len(d) \in Nat \ {0}
    <3>1. delims[i] \in Delims
      BY <2>7
    <3>2. d \in Patterns
      BY <3>1 DEF Delims
    <3> QED
      BY <3>2, PatternsAre
  <2> HIDE DEF d
  <2>9. /\ Run(d, p) \in Nat
        /\ ~At(text, d, p + Run(d, p) * Len(d), Len(text))
        /\ \A k \in 0..(Run(d, p) - 1) : At(text, d, p + k * Len(d), Len(text))
    <3>1. Len(data) \in Nat
      OBVIOUS
    <3> QED
      BY <2>4, <2>8, <3>1, RunIs
  <2>10. /\ r \in Nat /\ Repeats(text, d, p, r)
         /\ delims[i].all => ~At(text, d, After(d, p, r), Len(text))
    <3>1. CASE delims[i].all
      BY <3>1, <2>9 DEF Repeats, After
    <3>2. CASE ~delims[i].all
      <4>1. r = 1 /\ After(d, p, 0) = p
        BY <3>2, <2>8, <2>4, AfterSteps
      <4>2. \A k \in 0..(1 - 1) : k = 0
        OBVIOUS
      <4> QED
        BY <3>2, <4>1, <4>2, <2>7 DEF Repeats
    <3> QED
      BY <3>1, <3>2
  <2> HIDE DEF r
  <2>11. CutSound(text, delims, first, [from |-> first, size |-> p - first, by |-> i, times |-> r])
    <3>1. /\ \A q \in first..(p - 1) : HitsIn(text, delims, q) = {}
          /\ i \in HitsIn(text, delims, p) /\ \A j \in HitsIn(text, delims, p) : i <= j
      BY <1>1, <2>4, <2>6
    <3>2. StopsAt(text, delims, first, p, i, r)
      BY <2>10, <3>1 DEF StopsAt, d
    <3> QED
      BY <2>4, <2>10, <3>2, HitSound
  <2> QED
    BY <2>3, <2>11 DEF r, d
<1> QED
  BY <1>2, <1>3

-----------------------------------------------------------------------------
(* What STRING has put into its field. *)

(* how much of all is put into t, from st on *)
PutIn(t, st, all) ==
  IF st \notin 0..(Len(t) - 1) THEN 0 ELSE IF Len(all) < Len(t) - st THEN Len(all) ELSE Len(t) - st
FilledWith(t, st, all) ==
  [i \in DOMAIN t |-> IF i - st \in 1..PutIn(t, st, all) THEN all[i - st] ELSE t[i]]

(* of the m places from st on, a are taken, and then n more, behind o *)
PlacesAre(m, a, n, st, o) ==
  LET more == a + (IF n <= m - o THEN n ELSE m - o)
  IN  /\ (IF a < m - st THEN a ELSE m - st) = a
      /\ (IF a + n < m - st THEN a + n ELSE m - st) = more
      /\ \A i \in 1..m : i - st \in 1..a => ~(i > o) /\ i - st \in 1..more
      /\ \A i \in 1..m : i > o /\ i - o <= n =>
            i - o \in 1..n /\ a + (i - o) = i - st /\ i - st \notin 1..a /\ i - st \in 1..more
      /\ \A i \in 1..m : i - st \notin 1..a /\ ~(i > o /\ i - o <= n) => i - st \notin 1..more

(* Those of the second text are the n behind those of the first. *)
LEMMA PlacesMore ==
  ASSUME NEW m \in Nat, NEW a \in Nat, NEW n \in Nat, NEW st \in 0..(m - 1), a <= m - st, NEW o, o = st + a
  PROVE  PlacesAre(m, a, n, st, o)
<1>1. st \in Int /\ 0 <= st /\ st < m /\ o \in Int
  OBVIOUS
<1>2. (IF a < m - st THEN a ELSE m - st) = a
  BY <1>1
<1>3. (IF a + n < m - st THEN a + n ELSE m - st) = a + (IF n <= m - o THEN n ELSE m - o)
  BY <1>1
<1>4. ASSUME NEW i \in 1..m, i - st \in 1..a
      PROVE  ~(i > o) /\ i - st \in 1..(a + (IF n <= m - o THEN n ELSE m - o))
  BY <1>1, <1>4
<1>5. ASSUME NEW i \in 1..m, i > o, i - o <= n
      PROVE  /\ i - o \in 1..n /\ a + (i - o) = i - st /\ i - st \notin 1..a
             /\ i - st \in 1..(a + (IF n <= m - o THEN n ELSE m - o))
  BY <1>1, <1>5
<1>6. ASSUME NEW i \in 1..m, i - st \notin 1..a, ~(i > o /\ i - o <= n)
      PROVE  i - st \notin 1..(a + (IF n <= m - o THEN n ELSE m - o))
  BY <1>1, <1>6
<1> QED
  BY <1>2, <1>3, <1>4, <1>5, <1>6 DEF PlacesAre

(* Another text is put behind those that are in the field. *)
FilledOn(t, st, all, new, o) ==
  [i \in DOMAIN t |-> IF i > o /\ i - o <= Len(new) THEN new[i - o] ELSE FilledWith(t, st, all)[i]]

(* the texts all fit in from st on, new is the next one, at o *)
MoreToFill(t, st, all, new, o) ==
  /\ t \in Seq(Nat) /\ st \in 0..(Len(t) - 1) /\ all \in Seq(Nat) /\ new \in Seq(Nat)
  /\ Len(all) <= Len(t) - st /\ o = st + Len(all)

(* What one more text puts in. *)
LEMMA FillMore ==
  ASSUME NEW t, NEW st, NEW all, NEW new, NEW o, MoreToFill(t, st, all, new, o)
  PROVE  /\ PutIn(t, st, all) = Len(all)
         /\ PutIn(t, st, all \o new) = Len(all) + IF Len(new) <= Len(t) - o THEN Len(new) ELSE Len(t) - o
         /\ Len(all \o new) = Len(all) + Len(new)
         /\ FilledWith(t, st, all \o new) = FilledOn(t, st, all, new, o)
<1> /\ t \in Seq(Nat) /\ st \in 0..(Len(t) - 1) /\ all \in Seq(Nat) /\ new \in Seq(Nat)
    /\ Len(all) <= Len(t) - st /\ o = st + Len(all)
  BY DEF MoreToFill
<1> DEFINE m == Len(t)
           a == Len(all)
           n == Len(new)
           both == all \o new
           more == a + (IF n <= m - o THEN n ELSE m - o)
<1>1. m \in Nat /\ a \in Nat /\ n \in Nat /\ DOMAIN t = 1..m /\ st \in 0..(m - 1) /\ a <= m - st /\ o = st + a
  OBVIOUS
<1>2. /\ Len(both) = a + n
      /\ \A k \in 1..a : both[k] = all[k]
      /\ \A k \in 1..n : both[a + k] = new[k]
  BY ConcatProperties
<1> HIDE DEF both
<1>3. PutIn(t, st, all) = IF a < m - st THEN a ELSE m - st
  BY DEF PutIn
<1>4. PutIn(t, st, both) = IF a + n < m - st THEN a + n ELSE m - st
  BY <1>2 DEF PutIn
<1> HIDE DEF m, a, n
<1>5. PlacesAre(m, a, n, st, o)
  BY <1>1, PlacesMore
<1> HIDE DEF more
<1>6. PutIn(t, st, all) = a /\ PutIn(t, st, both) = more
  BY <1>3, <1>4, <1>5 DEF PlacesAre, more
<1>7. ASSUME NEW i \in 1..m
      PROVE  (IF i - st \in 1..more THEN both[i - st] ELSE t[i])
               = IF i > o /\ i - o <= n THEN new[i - o]
                 ELSE IF i - st \in 1..a THEN all[i - st] ELSE t[i]
  <2>1. CASE i - st \in 1..a
    BY <2>1, <1>2, <1>5 DEF PlacesAre, more
  <2>2. CASE i > o /\ i - o <= n
    <3>1. i - o \in 1..n /\ a + (i - o) = i - st /\ i - st \in 1..more
      BY <2>2, <1>5 DEF PlacesAre, more
    <3>2. both[i - st] = new[i - o]
      BY <3>1, <1>2
    <3> QED
      BY <3>1, <3>2, <2>2
  <2>3. CASE i - st \notin 1..a /\ ~(i > o /\ i - o <= n)
    BY <2>3, <1>5 DEF PlacesAre, more
  <2> QED
    BY <2>1, <2>2, <2>3
<1>8. \A i \in DOMAIN t : FilledWith(t, st, all)[i] = IF i - st \in 1..a THEN all[i - st] ELSE t[i]
  BY <1>6 DEF FilledWith
<1>9. FilledWith(t, st, both) = [i \in DOMAIN t |-> IF i > o /\ i - o <= n THEN new[i - o] ELSE FilledWith(t, st, all)[i]]
  BY <1>1, <1>6, <1>7, <1>8 DEF FilledWith
<1> QED
  BY <1>2, <1>6, <1>9 DEF FilledOn, both, more, m, a, n

(* Where the field is full, or was never entered, it stays as it is. *)
LEMMA FillNoMore ==
  ASSUME NEW t \in Seq(Nat), NEW st \in Int, NEW all \in Seq(Nat), NEW new \in Seq(Nat),
         PutIn(t, st, all) < Len(all) \/ st \notin 0..(Len(t) - 1)
  PROVE  /\ PutIn(t, st, all \o new) = PutIn(t, st, all)
         /\ FilledWith(t, st, all \o new) = FilledWith(t, st, all)
         /\ PutIn(t, st, all \o new) < Len(all \o new) \/ st \notin 0..(Len(t) - 1)
<1> DEFINE m == Len(t)
           a == Len(all)
           n == Len(new)
           both == all \o new
<1>1. m \in Nat /\ a \in Nat /\ n \in Nat
  OBVIOUS
<1>2. Len(both) = a + n /\ \A k \in 1..a : both[k] = all[k]
  BY ConcatProperties
<1> HIDE DEF both
<1>3. CASE st \notin 0..(m - 1)
  BY <1>3 DEF PutIn, FilledWith, both
<1>4. CASE st \in 0..(m - 1)
  <2>1. PutIn(t, st, all) < a /\ PutIn(t, st, all) = IF a < m - st THEN a ELSE m - st
    BY <1>4 DEF PutIn
  <2>2. PutIn(t, st, both) = IF a + n < m - st THEN a + n ELSE m - st
    BY <1>2, <1>4 DEF PutIn
  <2> HIDE DEF m, a, n
  <2>3. PutIn(t, st, both) = m - st /\ PutIn(t, st, all) = m - st /\ m - st < a /\ m - st < a + n
    BY <1>1, <1>4, <2>1, <2>2
  <2>4. \A i : i \in 1..(m - st) => both[i] = all[i]
    BY <1>1, <1>2, <1>4, <2>3
  <2>5. FilledWith(t, st, both) = FilledWith(t, st, all)
    BY <2>3, <2>4 DEF FilledWith
  <2> QED
    BY <1>2, <2>3, <2>5 DEF both, a, n
<1> QED
  BY <1>3, <1>4

-----------------------------------------------------------------------------
(* STRING and UNSTRING: the invariant. *)

Fits == start \in 0..(Len(text) - 1)

StringFilled ==
  LET all == FlattenSeq(pieces)
  IN  /\ data = FilledWith(text, start, all)
      /\ offset = start + PutIn(text, start, all)
      /\ exc \in {"none", "OVERFLOW"}
      /\ exc = "OVERFLOW" <=> PutIn(text, start, all) < Len(all) \/ ~Fits

StringState ==
  stmt = "STRING" =>
    /\ pieces \in Seq(Seq(Nat)) /\ start \in Int /\ offset \in Int
    /\ data \in Seq(Nat) /\ Len(data) = Len(text)
    /\ delims = <<>> \/ \E d \in Patterns : delims = <<d>>
    /\ ~disturbed => StringFilled

Whole(t, dl, ps) == FlattenSeq([n \in DOMAIN ps |-> JoinedIn(t, dl, ps[n])])

UnstringState ==
  stmt = "UNSTRING" =>
    /\ data = text /\ start \in Int /\ offset \in Int
    /\ delims \in Seq(Delims) /\ pieces \in Seq(CutPiece)
    /\ pieces = <<>> => offset = start
    /\ pieces # <<>> =>
         /\ start \in Nat /\ offset \in start..Len(text)
         /\ Whole(text, delims, pieces) = SubSeq(text, start + 1, offset)
         /\ \A n \in DOMAIN pieces : /\ JoinedIn(text, delims, pieces[n]) \in Seq(Nat)
                                     /\ NoneLeft(text, delims, pieces[n])
    /\ ~disturbed =>
         /\ exc \in {"none", "OVERFLOW"}
         /\ pc = "calls" => (exc = "OVERFLOW" <=> ~Fits)
         /\ pc = "end" => (exc = "OVERFLOW" <=> offset < Len(text) \/ ~Fits)

Control ==
  /\ text \in Seq(Nat) /\ text # <<>>
  /\ pc = "idle" => stmt = "none" /\ data = text /\ pieces = <<>> /\ delims = <<>>
  /\ pc = "astray" => disturbed

TransferInv == Control /\ StringState /\ UnstringState

(* A step that is about another verb, or about none of this. *)
LEMMA TransferUnchanged ==
  ASSUME TransferInv, UNCHANGED <<stmt, pc, data, text, exc, disturbed, stringing>>
  PROVE  TransferInv'
  BY DEF TransferInv, Control, StringState, StringFilled, UnstringState, Fits, stringing

(* The invariant holds to begin with, and every call keeps it. *)
LEMMA TransferInit == Init => TransferInv
<1> SUFFICES ASSUME Init PROVE TransferInv
  OBVIOUS
<1>1. text \in Texts
  BY DEF Init
<1>2. text \in Seq(Nat) /\ text # <<>>
  BY <1>1, StringsAssumption
<1> QED
  BY <1>2 DEF Init, TransferInv, Control, StringState, UnstringState

(* cob_string_init, cob_unstring_init: where the pointer points to. *)
LEMMA BeginKeeps ==
  ASSUME TransferInv, NEW verb \in {"STRING", "UNSTRING"}, NEW p \in Pointers, Begin(verb, p)
  PROVE  TransferInv'
<1>1. /\ pc = "idle" /\ pc' = "calls" /\ stmt' = verb
      /\ offset' = (IF p = -1 THEN 0 ELSE p - 1) /\ start' = offset'
      /\ exc' = IF offset' \in 0..(Len(data) - 1) THEN "none" ELSE "OVERFLOW"
      /\ data' = data /\ text' = text /\ delims' = delims /\ pieces' = pieces
  BY DEF Begin
<1>2. text \in Seq(Nat) /\ text # <<>> /\ data = text /\ pieces = <<>> /\ delims = <<>>
  BY <1>1 DEF TransferInv, Control
<1>3. offset' \in Int /\ start' \in Int
  BY <1>1, StringsAssumption DEF Pointers
<1>4. Control'
  BY <1>1, <1>2 DEF Control
<1>5. exc' \in {"none", "OVERFLOW"} /\ (exc' = "OVERFLOW" <=> ~Fits')
  BY <1>1, <1>2 DEF Fits
<1>6. Len(<<>>) = 0 /\ \A st \in Int : PutIn(text, st, <<>>) = 0
  <2>1. Len(text) \in Nat /\ Len(<<>>) = 0
    BY <1>2
  <2> QED
    BY <2>1 DEF PutIn
<1>7. FilledWith(text, start', <<>>) = text
  <2>1. \A i : i \notin 1..0
    OBVIOUS
  <2>2. text = [i \in DOMAIN text |-> text[i]]
    BY <1>2
  <2> QED
    BY <1>3, <1>6, <2>1, <2>2 DEF FilledWith
<1>8. StringFilled'
  <2>1. PutIn(text, start', <<>>) = 0
    BY <1>3, <1>6
  <2>2. offset' = start' + 0
    BY <1>1, <1>3
  <2> QED
    BY <1>1, <1>2, <1>5, <1>6, <1>7, <2>1, <2>2, FlattenNone DEF StringFilled
<1>9. StringState'
  BY <1>1, <1>2, <1>3, <1>8 DEF StringState
<1>10. UnstringState'
  BY <1>1, <1>2, <1>3, <1>5 DEF UnstringState
<1> QED
  BY <1>4, <1>9, <1>10 DEF TransferInv

(* An operand that keeps the code keeps it as it is. *)
LEMMA OperandKept ==
  ASSUME NEW e, Operand(e), ~disturbed'
  PROVE  e = exc /\ ~disturbed
  BY DEF Operand

(* What is taken of a field is a text. *)
LEMMA TakenIs ==
  ASSUME NEW src \in Seq(Nat)
  PROVE  Taken(src) \in Seq(Nat)
<1> DEFINE found == {i \in 1..Len(src) : At(src, delims[1], i, Len(src))}
           first == FirstAt(src, delims[1], 1, Len(src))
<1>1. first \in 0..Len(src)
  <2>1. CASE found = {}
    BY <2>1 DEF FirstAt
  <2>2. CASE found # {}
    <3>1. first = CHOOSE i \in found : \A j \in found : i <= j
      BY <2>2 DEF FirstAt
    <3>2. found \in SUBSET Nat /\ found \in SUBSET (0..Len(src))
      OBVIOUS
    <3> HIDE DEF found, first
    <3>3. PICK i \in found : \A j \in found : i <= j
      BY <2>2, <3>2, LeastExists
    <3>4. first \in found
      BY <3>1, <3>3
    <3> QED
      BY <3>2, <3>4
  <2> QED
    BY <2>1, <2>2
<1> DEFINE z == first - 1
<1>2. first # 0 => SubSeq(src, 1, z) \in Seq(Nat)
  <2> HIDE DEF first
  <2> SUFFICES ASSUME first # 0 PROVE SubSeq(src, 1, z) \in Seq(Nat)
    OBVIOUS
  <2>1. z \in Int /\ z <= Len(src)
    BY <1>1
  <2> HIDE DEF z
  <2>2. \A i \in 1..z : src[i] \in Nat
    BY <2>1
  <2> QED
    BY <2>1, <2>2, SubSeqProperties
<1>3. Taken(src) = src \/ (first # 0 /\ Taken(src) = SubSeq(src, 1, z))
  BY DEF Taken
<1> QED
  BY <1>2, <1>3

(* cob_string_delimited. *)
LEMMA StringDelimitedKeeps ==
  ASSUME TransferInv, NEW d \in Patterns \cup {<<>>}, StringDelimited(d)
  PROVE  TransferInv'
<1>1. /\ stmt = "STRING" /\ stmt' = "STRING" /\ pc = "calls" /\ pc' = "calls"
      /\ data' = data /\ text' = text /\ start' = start /\ offset' = offset /\ pieces' = pieces
      /\ delims' = IF d = <<>> THEN <<>> ELSE <<d>>
  BY DEF StringDelimited, Running
<1>2. PICK e \in {"none", "OVERFLOW", "ARGUMENT"} : Operand(e) /\ exc' = e
  BY DEF StringDelimited
<1>3. delims' = <<>> \/ \E b \in Patterns : delims' = <<b>>
  BY <1>1
<1>4. Control' /\ UnstringState'
  BY <1>1 DEF TransferInv, Control, UnstringState
<1>5. ASSUME ~disturbed' PROVE StringFilled'
  <2>1. e = exc /\ ~disturbed
    BY <1>2, <1>5, OperandKept
  <2> QED
    BY <1>1, <1>2, <2>1 DEF TransferInv, StringState, StringFilled, Fits
<1>6. StringState'
  BY <1>1, <1>3, <1>5 DEF TransferInv, StringState
<1> QED
  BY <1>4, <1>6 DEF TransferInv

(* The text that is put in, where there was room for those before it. *)
LEMMA StringPut ==
  ASSUME StringFilled, exc = "none", text \in Seq(Nat), pieces \in Seq(Seq(Nat)),
         NEW new \in Seq(Nat), Strung(new, Len(data) - offset),
         Len(data) = Len(text), text' = text, start' = start, pieces' = Append(pieces, new),
         exc' = IF Len(new) <= Len(data) - offset THEN "none" ELSE "OVERFLOW"
  PROVE  StringFilled'
<1> DEFINE all == FlattenSeq(pieces)
           o == offset
<1>1. all \in Seq(Nat) /\ FlattenSeq(pieces') = all \o new
  BY FlattenAppend
<1>2. Fits /\ PutIn(text, start, all) >= Len(all) /\ data = FilledWith(text, start, all)
      /\ offset = start + PutIn(text, start, all)
  <2> HIDE DEF all
  <2>1. ~(PutIn(text, start, all) < Len(all)) /\ Fits
    BY DEF StringFilled, all
  <2>2. PutIn(text, start, all) \in Nat /\ Len(all) \in Nat
    BY <1>1, <2>1 DEF PutIn, Fits
  <2> QED
    BY <2>1, <2>2 DEF StringFilled, all
<1> HIDE DEF all
<1>3. start \in 0..(Len(text) - 1) /\ Len(all) \in Nat /\ Len(text) \in Nat /\ Len(new) \in Nat
  BY <1>1, <1>2 DEF Fits
<1>4. Len(all) <= Len(text) - start /\ PutIn(text, start, all) = Len(all)
  BY <1>2, <1>3 DEF PutIn
<1>5. o = start + Len(all)
  BY <1>2, <1>4
<1> HIDE DEF o
<1>6. /\ PutIn(text, start, all \o new) = Len(all) + IF Len(new) <= Len(text) - o THEN Len(new) ELSE Len(text) - o
      /\ Len(all \o new) = Len(all) + Len(new)
      /\ FilledWith(text, start, all \o new) = FilledOn(text, start, all, new, o)
  <2>1. MoreToFill(text, start, all, new, o)
    BY <1>1, <1>3, <1>4, <1>5 DEF MoreToFill
  <2> QED
    BY <2>1, FillMore
<1>7. DOMAIN data = DOMAIN text
  BY <1>2 DEF FilledWith
<1>8. data' = FilledWith(text, start, all \o new)
  BY <1>2, <1>6, <1>7 DEF Strung, FilledOn, o
<1>9. offset' = start + PutIn(text, start, all \o new)
  <2>1. offset' = o + IF Len(new) <= Len(text) - o THEN Len(new) ELSE Len(text) - o
    BY DEF Strung, o
  <2>2. ASSUME NEW l \in Nat, NEW n \in Int
        PROVE  (start + l) + n = start + (l + n)
    BY <1>3
  <2>3. (IF Len(new) <= Len(text) - o THEN Len(new) ELSE Len(text) - o) \in Int
    BY <1>3, <1>5
  <2> QED
    BY <1>3, <1>5, <1>6, <2>1, <2>2, <2>3
<1>10. exc' = "OVERFLOW" <=> PutIn(text, start, all \o new) < Len(all \o new)
  <2>1. exc' = "OVERFLOW" <=> ~(Len(new) <= Len(text) - o)
    BY DEF o
  <2>2. ASSUME NEW l \in Nat, NEW n \in Nat, NEW r \in Int
        PROVE  ~(n <= r) <=> l + (IF n <= r THEN n ELSE r) < l + n
    OBVIOUS
  <2>3. Len(text) - o \in Int
    BY <1>3, <1>5
  <2> QED
    BY <1>3, <1>6, <2>1, <2>2, <2>3
<1> QED
  BY <1>1, <1>2, <1>8, <1>9, <1>10 DEF StringFilled, Fits, all

(* cob_string_append: put in, refused because the code is set, or astray. *)
LEMMA StringAppendKeeps ==
  ASSUME TransferInv, NEW src \in Patterns, StringAppend(src)
  PROVE  TransferInv'
<1> DEFINE new == Taken(src)
           all == FlattenSeq(pieces)
<1>1. new \in Seq(Nat)
  BY TakenIs, PatternsAre
<1> HIDE DEF new
<1>2. stmt = "STRING" /\ pc = "calls" /\ text \in Seq(Nat) /\ text # <<>>
  BY DEF StringAppend, Running, TransferInv, Control
<1>3. /\ pieces \in Seq(Seq(Nat)) /\ start \in Int /\ offset \in Int
      /\ data \in Seq(Nat) /\ Len(data) = Len(text)
      /\ delims = <<>> \/ \E d \in Patterns : delims = <<d>>
      /\ ~disturbed => StringFilled
  BY <1>2 DEF TransferInv, StringState
<1>4. Append(pieces, new) \in Seq(Seq(Nat))
  BY <1>1, <1>3
<1>5. PICK e \in {"none", "OVERFLOW", "ARGUMENT"} :
        /\ Operand(e)
        /\ \/ /\ e # "none"
              /\ exc' = e
              /\ pieces' = Append(pieces, new)
              /\ UNCHANGED <<stmt, pc, data, text, inspecting, pointer, start, offset, delims>>
           \/ /\ e = "none" /\ offset \in 0..Len(data)
              /\ Strung(new, Len(data) - offset)
              /\ exc' = IF Len(new) <= Len(data) - offset THEN "none" ELSE "OVERFLOW"
              /\ pieces' = Append(pieces, new)
              /\ UNCHANGED <<stmt, pc, text, inspecting, pointer, start, delims>>
           \/ e = "none" /\ offset \notin 0..Len(data) /\ exc' = e /\ Astray
  BY DEF StringAppend, new
<1>6. ~disturbed' => e = exc /\ ~disturbed
  BY <1>5, OperandKept
<1>7. CASE /\ e # "none" /\ exc' = e /\ pieces' = Append(pieces, new)
           /\ UNCHANGED <<stmt, pc, data, text, inspecting, pointer, start, offset, delims>>
  <2>1. ASSUME ~disturbed' PROVE StringFilled'
    <3>1. StringFilled /\ exc = "OVERFLOW" /\ exc' = "OVERFLOW"
      <4>1. StringFilled /\ e = exc
        BY <1>3, <1>6, <2>1
      <4> QED
        BY <4>1, <1>7 DEF StringFilled
    <3>2. all \in Seq(Nat) /\ FlattenSeq(pieces') = all \o new
      BY <1>1, <1>3, <1>7, FlattenAppend
    <3> HIDE DEF all
    <3>3. PutIn(text, start, all) < Len(all) \/ start \notin 0..(Len(text) - 1)
      BY <3>1 DEF StringFilled, Fits, all
    <3>4. /\ PutIn(text, start, all \o new) = PutIn(text, start, all)
          /\ FilledWith(text, start, all \o new) = FilledWith(text, start, all)
          /\ PutIn(text, start, all \o new) < Len(all \o new) \/ start \notin 0..(Len(text) - 1)
      BY <1>1, <1>2, <1>3, <3>2, <3>3, FillNoMore
    <3>5. data = FilledWith(text, start, all) /\ offset = start + PutIn(text, start, all)
      BY <3>1 DEF StringFilled, all
    <3>6. data' = data /\ offset' = offset /\ start' = start /\ text' = text
      BY <1>7
    <3> QED
      BY <3>1, <3>2, <3>4, <3>5, <3>6 DEF StringFilled, Fits
  <2>2. Control' /\ UnstringState'
    BY <1>2, <1>7 DEF TransferInv, Control, UnstringState
  <2>3. StringState'
    BY <1>3, <1>4, <1>7, <2>1 DEF StringState
  <2> QED
    BY <2>2, <2>3 DEF TransferInv
<1>8. CASE /\ e = "none" /\ offset \in 0..Len(data)
           /\ Strung(new, Len(data) - offset)
           /\ exc' = IF Len(new) <= Len(data) - offset THEN "none" ELSE "OVERFLOW"
           /\ pieces' = Append(pieces, new)
           /\ UNCHANGED <<stmt, pc, text, inspecting, pointer, start, delims>>
  <2>1. ASSUME ~disturbed' PROVE StringFilled'
    <3>1. StringFilled /\ exc = "none"
      BY <1>3, <1>6, <1>8, <2>1
    <3>2. text' = text /\ start' = start
      BY <1>8
    <3> QED
      BY <1>1, <1>2, <1>3, <1>8, <3>1, <3>2, StringPut
  <2>2. Control' /\ UnstringState'
    BY <1>2, <1>8 DEF TransferInv, Control, UnstringState
  <2>3. offset' \in Int
    BY <1>1, <1>3, <1>8 DEF Strung
  <2>4. data' \in Seq(Nat) /\ Len(data') = Len(text)
    <3> DEFINE n == Len(data)
    <3>1. n \in Nat /\ DOMAIN data = 1..n
      BY <1>3
    <3>2. data' = [i \in 1..n |-> IF i > offset /\ i - offset <= Len(new) THEN new[i - offset] ELSE data[i]]
      BY <1>8, <3>1 DEF Strung
    <3>3. ASSUME NEW i \in 1..n
          PROVE  (IF i > offset /\ i - offset <= Len(new) THEN new[i - offset] ELSE data[i]) \in Nat
      <4>1. data[i] \in Nat
        BY <1>3
      <4>2. i > offset /\ i - offset <= Len(new) => i - offset \in 1..Len(new)
        <5>1. Len(new) \in Nat
          BY <1>1
        <5> QED
          BY <5>1, <1>3, <3>1
      <4>3. \A k \in 1..Len(new) : new[k] \in Nat
        BY <1>1
      <4> QED
        BY <4>1, <4>2, <4>3
    <3> HIDE DEF n
    <3>4. data' \in [1..n -> Nat]
      BY <3>2, <3>3
    <3>5. data' \in Seq(Nat) /\ Len(data') = n
      BY <3>1, <3>4
    <3> QED
      BY <3>5, <1>3 DEF n
  <2>5. StringState'
    BY <1>3, <1>4, <1>8, <2>1, <2>3, <2>4 DEF StringState
  <2> QED
    BY <2>2, <2>5 DEF TransferInv
<1>9. CASE e = "none" /\ offset \notin 0..Len(data) /\ exc' = e /\ Astray
  <2>1. disturbed'
    <3> SUFFICES ASSUME ~disturbed' PROVE FALSE
      OBVIOUS
    <3>1. StringFilled /\ exc = "none"
      BY <1>3, <1>6, <1>9
    <3>2. ~(PutIn(text, start, all) < Len(all)) /\ Fits /\ offset = start + PutIn(text, start, all)
      BY <3>1 DEF StringFilled
    <3>3. all \in Seq(Nat)
      BY <1>1, <1>3, FlattenAppend
    <3> HIDE DEF all
    <3>4. start \in 0..(Len(text) - 1) /\ Len(all) \in Nat /\ Len(text) \in Nat
      BY <1>2, <3>2, <3>3 DEF Fits
    <3>5. offset \in 0..Len(text)
      BY <3>2, <3>4 DEF PutIn
    <3> QED
      BY <1>3, <1>9, <3>5
  <2> QED
    BY <1>2, <1>3, <1>9, <2>1 DEF TransferInv, Control, StringState, UnstringState, Astray, stringing
<1> QED
  BY <1>5, <1>7, <1>8, <1>9

(* cob_string_finish. *)
LEMMA StringFinishKeeps ==
  ASSUME TransferInv, StringFinish
  PROVE  TransferInv'
<1>1. /\ stmt = "STRING" /\ pc' = "end"
      /\ UNCHANGED <<stmt, data, text, exc, disturbed, start, offset, delims, pieces>>
  BY DEF StringFinish, Running
<1> QED
  BY <1>1 DEF TransferInv, Control, StringState, StringFilled, UnstringState, Fits

(* cob_unstring_delimited: only before the first piece. *)
LEMMA UnstringDelimitedKeeps ==
  ASSUME TransferInv, NEW d \in Patterns, NEW all \in BOOLEAN, UnstringDelimited(d, all)
  PROVE  TransferInv'
<1>1. /\ stmt = "UNSTRING" /\ pc = "calls" /\ pieces = <<>>
      /\ delims' = Append(delims, [d |-> d, all |-> all])
      /\ UNCHANGED <<stmt, pc, data, text, start, offset, pieces>>
  BY DEF UnstringDelimited, Running
<1>2. PICK e \in {"none", "OVERFLOW", "ARGUMENT"} : Operand(e) /\ exc' = e
  BY DEF UnstringDelimited
<1>3. ~disturbed' => exc' = exc /\ ~disturbed
  BY <1>2, OperandKept
<1>4. delims' \in Seq(Delims)
  <2>1. [d |-> d, all |-> all] \in Delims
    BY DEF Delims
  <2>2. delims \in Seq(Delims)
    BY <1>1 DEF TransferInv, UnstringState
  <2> QED
    BY <1>1, <2>1, <2>2
<1>5. Control' /\ StringState'
  BY <1>1 DEF TransferInv, Control, StringState
<1>6. UnstringState'
  BY <1>1, <1>3, <1>4 DEF TransferInv, UnstringState, Fits
<1> QED
  BY <1>5, <1>6 DEF TransferInv

(* The pieces put together, with one more behind them. *)
LEMMA WholeAppend ==
  ASSUME NEW t \in Seq(Nat), NEW dl, NEW ps \in Seq(CutPiece), NEW piece \in CutPiece,
         NEW st \in Nat, NEW o \in st..(Len(t) - 1),
         CutSound(t, dl, o + 1, piece),
         ps = <<>> => o = st,
         ps # <<>> => /\ Whole(t, dl, ps) = SubSeq(t, st + 1, o)
                      /\ \A n \in DOMAIN ps : JoinedIn(t, dl, ps[n]) \in Seq(Nat)
  PROVE  /\ o + SizeIn(dl, piece) \in st..Len(t)
         /\ Whole(t, dl, Append(ps, piece)) = SubSeq(t, st + 1, o + SizeIn(dl, piece))
         /\ JoinedIn(t, dl, piece) \in Seq(Nat)
<1> DEFINE first == o + 1
           z == o + SizeIn(dl, piece)
           new == JoinedIn(t, dl, piece)
           parts == [n \in DOMAIN ps |-> JoinedIn(t, dl, ps[n])]
           more == [n \in DOMAIN Append(ps, piece) |-> JoinedIn(t, dl, Append(ps, piece)[n])]
<1>1. /\ first + SizeIn(dl, piece) \in first..(Len(t) + 1)
      /\ new = SubSeq(t, first, first + SizeIn(dl, piece) - 1)
  BY DEF CutSound
<1>2. Len(t) \in Nat /\ o \in Nat /\ st <= o /\ o < Len(t)
  OBVIOUS
<1>3. SizeIn(dl, piece) \in Nat
  BY DEF CutSound
<1>4. z \in o..Len(t) /\ first + SizeIn(dl, piece) - 1 = z
  <2>1. ASSUME NEW x \in Nat, o + 1 + x \in (o + 1)..(Len(t) + 1)
        PROVE  o + x \in o..Len(t) /\ o + 1 + x - 1 = o + x
    BY <1>2, <2>1
  <2> HIDE DEF new
  <2> QED
    BY <1>1, <1>3, <2>1
<1>5. new = SubSeq(t, o + 1, z)
  BY <1>1, <1>4
<1> HIDE DEF new, z
<1>6. new \in Seq(Nat)
  <2>1. \A i \in (o + 1)..z : t[i] \in Nat
    BY <1>2, <1>4
  <2>2. o + 1 \in Int /\ z \in Int
    BY <1>2, <1>4
  <2> QED
    BY <1>5, <2>1, <2>2, SubSeqProperties
<1>7. /\ parts \in Seq(Seq(Nat)) /\ more = Append(parts, new)
  <2> DEFINE n == Len(ps)
             all == Append(ps, piece)
  <2>1. n \in Nat /\ DOMAIN ps = 1..n /\ DOMAIN all = 1..(n + 1) /\ all[n + 1] = piece
        /\ \A k \in 1..n : all[k] = ps[k]
    OBVIOUS
  <2>2. ps # <<>> => \A k \in 1..n : JoinedIn(t, dl, ps[k]) \in Seq(Nat)
    BY <2>1
  <2>3. ps = <<>> => n = 0
    OBVIOUS
  <2> HIDE DEF n, all
  <2>4. \A k \in 1..n : JoinedIn(t, dl, ps[k]) \in Seq(Nat)
    BY <2>1, <2>2, <2>3
  <2>5. parts = [k \in 1..n |-> JoinedIn(t, dl, ps[k])]
    BY <2>1
  <2>6. parts \in [1..n -> Seq(Nat)]
    BY <2>4, <2>5
  <2>7. more = [k \in 1..(n + 1) |-> JoinedIn(t, dl, all[k])]
    BY <2>1 DEF all
  <2> HIDE DEF parts, more
  <2>8. parts \in Seq(Seq(Nat)) /\ Len(parts) = n
    BY <2>1, <2>6
  <2>9. \A k \in 1..(n + 1) : more[k] = IF k = n + 1 THEN new ELSE parts[k]
    <3> SUFFICES ASSUME NEW k \in 1..(n + 1) PROVE more[k] = IF k = n + 1 THEN new ELSE parts[k]
      OBVIOUS
    <3>1. CASE k = n + 1
      BY <2>1, <2>7, <3>1 DEF new
    <3>2. CASE k # n + 1
      <4>1. k \in 1..n
        BY <2>1, <3>2
      <4> QED
        BY <4>1, <2>1, <2>5, <2>7, <3>2
    <3> QED
      BY <3>1, <3>2
  <2>10. Append(parts, new) = [k \in 1..(n + 1) |-> IF k = n + 1 THEN new ELSE parts[k]]
    <3> DEFINE a == Append(parts, new)
    <3> HIDE DEF new
    <3>1. /\ a \in Seq(Seq(Nat)) /\ Len(a) = n + 1 /\ a[n + 1] = new
          /\ \A k \in 1..n : a[k] = parts[k]
      BY <2>8, <1>6
    <3> HIDE DEF a
    <3>2. a = [k \in 1..(n + 1) |-> a[k]]
      BY <3>1
    <3>3. \A k \in 1..(n + 1) : a[k] = IF k = n + 1 THEN new ELSE parts[k]
      BY <2>1, <3>1
    <3> QED
      BY <3>2, <3>3 DEF a
  <2> QED
    BY <2>7, <2>8, <2>9, <2>10
<1>8. FlattenSeq(more) = FlattenSeq(parts) \o new
  <2> HIDE DEF parts, more
  <2> QED
    BY <1>6, <1>7, FlattenAppend
<1>9. FlattenSeq(parts) = SubSeq(t, st + 1, o)
  <2>1. CASE ps = <<>>
    <3>1. parts = <<>>
      BY <2>1
    <3>2. SubSeq(t, st + 1, o) = <<>>
      BY <1>2, <2>1, SubSeqEmpty
    <3> QED
      BY <3>1, <3>2, FlattenNone
  <2>2. CASE ps # <<>>
    BY <2>2 DEF Whole
  <2> QED
    BY <2>1, <2>2
<1>10. SubSeq(t, st + 1, o) \o SubSeq(t, o + 1, z) = SubSeq(t, st + 1, z)
  <2>1. st + 1 \in 1..(Len(t) + 1) /\ o \in ((st + 1) - 1)..Len(t) /\ z \in o..Len(t)
    BY <1>2, <1>4
  <2> QED
    BY <2>1, ConcatAdjacentSubSeq
<1>11. Whole(t, dl, Append(ps, piece)) = SubSeq(t, st + 1, z)
  BY <1>5, <1>8, <1>9, <1>10 DEF Whole
<1>12. z \in st..Len(t)
  BY <1>2, <1>4
<1> QED
  BY <1>6, <1>11, <1>12 DEF z, new

(* The piece that a receiving field is given. *)
LEMMA NextPieceSound ==
  ASSUME text \in Seq(Nat), data = text, delims \in Seq(Delims), offset \in 0..(Len(data) - 1),
         NEW size \in Nat
  PROVE  LET rest == Len(data) - offset
             piece == IF delims # <<>> THEN Cut(offset + 1)
                      ELSE [from |-> offset + 1, size |-> IF size < rest THEN size ELSE rest,
                            by |-> 0, times |-> 0]
         IN  CutSound(text, delims, offset + 1, piece)
<1> DEFINE rest == Len(data) - offset
           n == IF size < rest THEN size ELSE rest
<1>1. Len(text) \in Nat /\ offset + 1 \in 1..Len(text)
  OBVIOUS
<1>2. CASE delims # <<>>
  BY <1>1, <1>2, CutIsSound
<1>3. CASE delims = <<>>
  <2>1. n \in 0..(Len(text) + 1 - (offset + 1))
    BY <1>1
  <2> HIDE DEF n
  <2>2. CutSound(text, delims, offset + 1, [from |-> offset + 1, size |-> n, by |-> 0, times |-> 0])
    BY <1>1, <1>3, <2>1, RestSound
  <2> QED
    BY <1>3, <2>2 DEF n
<1> QED
  BY <1>2, <1>3

(* cob_unstring_into: nothing, one more piece, or astray. *)
LEMMA UnstringIntoKeeps ==
  ASSUME TransferInv, NEW size \in Sizes, UnstringInto(size)
  PROVE  TransferInv'
<1> DEFINE rest == Len(data) - offset
           piece == IF delims # <<>> THEN Cut(offset + 1)
                    ELSE [from |-> offset + 1, size |-> IF size < rest THEN size ELSE rest,
                          by |-> 0, times |-> 0]
<1>1. stmt = "UNSTRING" /\ pc = "calls"
  BY DEF UnstringInto, Running
<1>2. /\ text \in Seq(Nat) /\ text # <<>> /\ data = text /\ start \in Int /\ offset \in Int
      /\ delims \in Seq(Delims) /\ pieces \in Seq(CutPiece)
      /\ pieces = <<>> => offset = start
      /\ pieces # <<>> =>
           /\ start \in Nat /\ offset \in start..Len(text)
           /\ Whole(text, delims, pieces) = SubSeq(text, start + 1, offset)
           /\ \A n \in DOMAIN pieces : /\ JoinedIn(text, delims, pieces[n]) \in Seq(Nat)
                                       /\ NoneLeft(text, delims, pieces[n])
      /\ ~disturbed => exc \in {"none", "OVERFLOW"} /\ (exc = "OVERFLOW" <=> ~Fits)
  BY <1>1 DEF TransferInv, Control, UnstringState
<1>3. PICK e \in {"none", "OVERFLOW", "ARGUMENT"} :
        /\ Operand(e)
        /\ exc' = e
        /\ \/ /\ e # "none" \/ offset >= Len(data)
              /\ UNCHANGED <<stmt, pc, data, text, inspecting, stringing>>
           \/ /\ e = "none" /\ offset \in 0..(Len(data) - 1)
              /\ pieces' = Append(pieces, piece)
              /\ offset' = offset + SizeOf(piece)
              /\ UNCHANGED <<stmt, pc, data, text, inspecting, pointer, start, delims>>
           \/ e = "none" /\ offset < 0 /\ Astray
  BY DEF UnstringInto
<1>4. ~disturbed' => exc' = exc /\ ~disturbed
  BY <1>3, OperandKept
<1>5. CASE UNCHANGED <<stmt, pc, data, text, inspecting, stringing>>
  <2>1. UNCHANGED <<stmt, pc, data, text, pointer, start, offset, delims, pieces>>
    BY <1>5 DEF stringing
  <2>2. Control' /\ StringState'
    BY <1>1, <2>1 DEF TransferInv, Control, StringState
  <2>3. UnstringState'
    BY <1>1, <1>4, <2>1 DEF TransferInv, UnstringState, Fits
  <2> QED
    BY <2>2, <2>3 DEF TransferInv
<1>6. CASE /\ e = "none" /\ offset \in 0..(Len(data) - 1)
           /\ pieces' = Append(pieces, piece)
           /\ offset' = offset + SizeOf(piece)
           /\ UNCHANGED <<stmt, pc, data, text, inspecting, pointer, start, delims>>
  <2>1. CutSound(text, delims, offset + 1, piece)
    <3>1. size \in Nat
      BY StringsAssumption
    <3> QED
      BY <1>2, <1>6, <3>1, NextPieceSound
  <2> HIDE DEF piece
  <2>2. piece \in CutPiece /\ NoneLeft(text, delims, piece) /\ SizeOf(piece) = SizeIn(delims, piece)
    BY <2>1 DEF CutSound, SizeOf, SizeIn
  <2>3. start \in Nat /\ offset \in start..(Len(text) - 1)
    BY <1>2, <1>6
  <2>4. /\ offset + SizeIn(delims, piece) \in start..Len(text)
        /\ Whole(text, delims, Append(pieces, piece)) = SubSeq(text, start + 1, offset + SizeIn(delims, piece))
        /\ JoinedIn(text, delims, piece) \in Seq(Nat)
    BY <1>2, <2>1, <2>2, <2>3, WholeAppend
  <2>5. /\ pieces' \in Seq(CutPiece) /\ pieces' # <<>>
        /\ offset' \in start..Len(text) /\ offset' \in Int
        /\ Whole(text, delims, pieces') = SubSeq(text, start + 1, offset')
    BY <1>2, <1>6, <2>2, <2>3, <2>4
  <2>6. ASSUME NEW n \in DOMAIN pieces'
        PROVE  JoinedIn(text, delims, pieces'[n]) \in Seq(Nat) /\ NoneLeft(text, delims, pieces'[n])
    <3>1. pieces'[n] = piece \/ (n \in DOMAIN pieces /\ pieces'[n] = pieces[n])
      BY <1>2, <1>6, <2>2
    <3>2. n \in DOMAIN pieces => pieces # <<>>
      OBVIOUS
    <3> QED
      BY <1>2, <2>2, <2>4, <3>1, <3>2
  <2>7. Control' /\ StringState'
    BY <1>1, <1>6 DEF TransferInv, Control, StringState
  <2>8. UNCHANGED <<stmt, pc, data, text, start, delims>>
    BY <1>6
  <2>9. UnstringState'
    BY <1>1, <1>2, <1>4, <2>3, <2>5, <2>6, <2>8 DEF UnstringState, Fits
  <2> QED
    BY <2>7, <2>9 DEF TransferInv
<1>7. CASE e = "none" /\ offset < 0 /\ Astray
  <2>1. disturbed'
    <3> SUFFICES ASSUME ~disturbed' PROVE FALSE
      OBVIOUS
    <3>1. Fits
      BY <1>2, <1>3, <1>4, <1>7
    <3>2. start \in Nat
      BY <1>2, <3>1 DEF Fits
    <3>3. offset >= start
      BY <1>2, <3>2
    <3> QED
      BY <1>2, <1>7, <3>2, <3>3
  <2>2. pc' = "astray" /\ UNCHANGED <<stmt, data, text, start, offset, delims, pieces>>
    BY <1>7 DEF Astray, stringing
  <2>3. Control' /\ StringState'
    BY <1>1, <1>2, <2>1, <2>2 DEF Control, StringState
  <2>4. UnstringState'
    BY <1>2, <2>1, <2>2 DEF UnstringState
  <2> QED
    BY <2>3, <2>4 DEF TransferInv
<1> QED
  BY <1>3, <1>5, <1>6, <1>7

(* cob_unstring_finish. *)
LEMMA UnstringFinishKeeps ==
  ASSUME TransferInv, UnstringFinish
  PROVE  TransferInv'
<1>1. /\ stmt = "UNSTRING" /\ pc = "calls" /\ pc' = "end"
      /\ exc' = IF offset < Len(data) THEN "OVERFLOW" ELSE exc
      /\ UNCHANGED <<stmt, data, text, disturbed, start, offset, delims, pieces>>
  BY DEF UnstringFinish, Running
<1>2. data = text
  BY <1>1 DEF TransferInv, UnstringState
<1>3. Control' /\ StringState'
  BY <1>1 DEF TransferInv, Control, StringState
<1>4. UnstringState'
  BY <1>1, <1>2 DEF TransferInv, UnstringState, Fits
<1> QED
  BY <1>3, <1>4 DEF TransferInv

(* INSPECT is another statement. *)
LEMMA InspectKeeps ==
  ASSUME TransferInv, stmt' = "INSPECT", pc' \in {"calls", "end"}, text' = text
  PROVE  TransferInv'
  BY DEF TransferInv, Control, StringState, UnstringState

(* So does every step. *)
LEMMA TransferNext == TransferInv /\ [Next]_vars => TransferInv'
<1> SUFFICES ASSUME TransferInv, [Next]_vars PROVE TransferInv'
  OBVIOUS
<1>1. ASSUME NEW m \in {"TALLYING", "REPLACING", "CONVERTING"}, InspectInit(m) PROVE TransferInv'
  BY <1>1, InspectKeeps DEF InspectInit
<1>2. ASSUME NEW r \in RegionLists, NEW kind \in Kinds, NEW d \in Patterns, Phrase(kind, d, r) PROVE TransferInv'
  <2>1. stmt' = "INSPECT" /\ pc' = "calls" /\ text' = text
    BY <1>2 DEF Phrase, Running
  <2> QED
    BY <2>1, InspectKeeps
<1>3. ASSUME NEW r \in RegionLists, Characters(r) PROVE TransferInv'
  <2>1. stmt' = "INSPECT" /\ pc' = "calls" /\ text' = text
    BY <1>3 DEF Characters, Running
  <2> QED
    BY <2>1, InspectKeeps
<1>4. ASSUME NEW r \in RegionLists, NEW d \in Patterns, NEW e \in Patterns, Converting(d, e, r) PROVE TransferInv'
  <2>1. stmt' = "INSPECT" /\ pc' = "calls" /\ text' = text
    BY <1>4 DEF Converting, Running
  <2> QED
    BY <2>1, InspectKeeps
<1>5. CASE SizeError
  BY <1>5, InspectKeeps DEF SizeError, Running
<1>6. CASE InspectFinish
  BY <1>6, InspectKeeps DEF InspectFinish, Running
<1>7. ASSUME NEW p \in Pointers, StringInit(p) PROVE TransferInv'
  BY <1>7, BeginKeeps DEF StringInit
<1>8. ASSUME NEW p \in Pointers, UnstringInit(p) PROVE TransferInv'
  BY <1>8, BeginKeeps DEF UnstringInit
<1>9. ASSUME NEW d \in Patterns \cup {<<>>}, StringDelimited(d) PROVE TransferInv'
  BY <1>9, StringDelimitedKeeps
<1>10. ASSUME NEW t \in Patterns, StringAppend(t) PROVE TransferInv'
  BY <1>10, StringAppendKeeps
<1>11. CASE StringFinish
  BY <1>11, StringFinishKeeps
<1>12. ASSUME NEW d \in Patterns, NEW all \in BOOLEAN, UnstringDelimited(d, all) PROVE TransferInv'
  BY <1>12, UnstringDelimitedKeeps
<1>13. ASSUME NEW n \in Sizes, UnstringInto(n) PROVE TransferInv'
  BY <1>13, UnstringIntoKeeps
<1>14. CASE UnstringFinish
  BY <1>14, UnstringFinishKeeps
<1>15. CASE UNCHANGED vars
  BY <1>15, TransferUnchanged DEF vars
<1> QED
  BY <1>1, <1>2, <1>3, <1>4, <1>5, <1>6, <1>7, <1>8, <1>9, <1>10, <1>11, <1>12, <1>13, <1>14, <1>15 DEF Next

(* The invariant says what the property says. *)
LEMMA TransferSound == TransferInv => TransfersSound
<1> SUFFICES ASSUME TransferInv PROVE TransfersSound
  OBVIOUS
<1>1. StringFills
  <2> SUFFICES ASSUME stmt = "STRING", ~disturbed PROVE StringFills
    BY DEF StringFills
  <2> DEFINE all == FlattenSeq(pieces)
             put == IF start \notin 0..(Len(data) - 1) THEN 0
                    ELSE IF Len(all) < Len(data) - start THEN Len(all) ELSE Len(data) - start
  <2>1. StringFilled /\ Len(data) = Len(text)
    BY DEF TransferInv, StringState
  <2>2. put = PutIn(text, start, all)
    BY <2>1 DEF PutIn
  <2>3. /\ data = FilledWith(text, start, all)
        /\ offset = start + put
        /\ exc = "OVERFLOW" <=> put < Len(all) \/ start \notin 0..(Len(data) - 1)
    BY <2>1, <2>2 DEF StringFilled, Fits
  <2>4. data = [i \in DOMAIN text |-> IF i - start \in 1..put THEN all[i - start] ELSE text[i]]
    BY <2>2, <2>3 DEF FilledWith
  <2> QED
    BY <2>3, <2>4 DEF StringFills
<1>2. UnstringSplits
  <2> SUFFICES ASSUME stmt = "UNSTRING", pieces # <<>> PROVE UnstringSplits
    BY DEF UnstringSplits
  <2>1. /\ data = text
        /\ Whole(text, delims, pieces) = SubSeq(text, start + 1, offset)
        /\ pieces \in Seq(CutPiece) /\ \A n \in DOMAIN pieces : NoneLeft(text, delims, pieces[n])
    BY DEF TransferInv, UnstringState
  <2>2. \A q : Hits(q) = HitsIn(text, delims, q)
    BY <2>1 DEF Hits, HitsIn
  <2>3. \A piece : SizeOf(piece) = SizeIn(delims, piece)
    BY DEF SizeOf, SizeIn
  <2>4. \A piece : Joined(piece) = JoinedIn(text, delims, piece)
    BY DEF Joined, JoinedIn, Times
  <2>5. [n \in DOMAIN pieces |-> Joined(pieces[n])] = [n \in DOMAIN pieces |-> JoinedIn(text, delims, pieces[n])]
    BY <2>4
  <2>6. FlattenSeq([n \in DOMAIN pieces |-> Joined(pieces[n])]) = SubSeq(text, start + 1, offset)
    BY <2>1, <2>5 DEF Whole
  <2>7. ASSUME NEW n \in DOMAIN pieces, delims # <<>>
        PROVE  LET piece == pieces[n]  stop == piece.from + piece.size
               IN  /\ \A q \in piece.from..(stop - 1) : Hits(q) = {}
                   /\ piece.by = 0 => stop = Len(text) + 1
                   /\ piece.by # 0 =>
                        /\ \A i \in 1..(piece.by - 1) : i \notin Hits(stop)
                        /\ delims[piece.by].all =>
                             piece.by \notin Hits(piece.from + SizeOf(piece))
    <3> DEFINE piece == pieces[n]
               stop == piece.from + piece.size
    <3>1. NoneLeft(text, delims, piece)
      BY <2>1
    <3> HIDE DEF piece
    <3>2. \A q \in piece.from..(stop - 1) : Hits(q) = {}
      <4>1. \A q \in piece.from..(piece.from + piece.size - 1) : HitsIn(text, delims, q) = {}
        BY <2>7, <3>1, Zenon DEF NoneLeft
      <4>2. piece \in CutPiece
        BY <2>1 DEF piece
      <4>3. piece.from + piece.size - 1 = stop - 1
        BY <4>2 DEF CutPiece
      <4> QED
        BY <2>2, <4>1, <4>3, Zenon
    <3>3. piece.by = 0 => stop = Len(text) + 1
      BY <2>7, <3>1 DEF NoneLeft
    <3>4. piece.by # 0 => \A i \in 1..(piece.by - 1) : i \notin Hits(stop)
      BY <2>2, <2>7, <3>1 DEF NoneLeft
    <3>5. piece.by # 0 /\ delims[piece.by].all => piece.by \notin Hits(piece.from + SizeOf(piece))
      BY <2>2, <2>3, <2>7, <3>1 DEF NoneLeft
    <3> QED
      BY <3>2, <3>3, <3>4, <3>5 DEF piece
  <2> QED
    BY <2>6, <2>7 DEF UnstringSplits
<1>3. OverflowTold
  BY DEF TransferInv, UnstringState, OverflowTold, Fits
<1>4. StaysInField
  BY DEF TransferInv, Control, StaysInField
<1> QED
  BY <1>1, <1>2, <1>3, <1>4 DEF TransfersSound, UnstringSound

(* However the operands of STRING and UNSTRING overlap the ends of the     *)
(* field, their delimiters and each other (cob_string_append,              *)
(* cob_unstring_into): STRING puts in as much of what is strung as fits    *)
(* and leaves the rest as it was, UNSTRING cuts at the first delimiter of  *)
(* the list and the pieces give the field again, both tell the overflow    *)
(* exactly when something is left over or the pointer was wrong, and only  *)
(* an operand that clears cob_exception_code takes them out of the field.  *)
THEOREM TransfersAreSound == Spec => []TransfersSound
<1>1. TransferInv /\ [Next]_vars => TransferInv'
  BY TransferNext
<1> QED
  BY TransferInit, <1>1, TransferSound, PTL DEF Spec

-----------------------------------------------------------------------------
(***************************************************************************)
(* INSPECT.  Found and FoldLeft are recursive functions: that there is a   *)
(* function with the values of the recursion is shown from a rank.         *)
(***************************************************************************)

(* The values of body at x depend on those at places of a lower rank. *)
Ranked(D, S, rank, body) ==
  \A f, g \in [D -> S] : \A x \in D :
    (\A y \in D : rank[y] < rank[x] => f[y] = g[y]) => body[f][x] = body[g][x]

Recursion(n, D, S, v, rank, body) ==
  /\ n \in Nat /\ v \in S /\ rank \in [D -> 0..n] /\ body \in [[D -> S] -> [D -> S]]
  /\ Ranked(D, S, rank, body)

(* Such a function. *)
LEMMA RankedRecursion ==
  ASSUME NEW n, NEW D, NEW S, NEW v, NEW rank, NEW body, Recursion(n, D, S, v, rank, body)
  PROVE  \E f \in [D -> S] : f = body[f]
<1> n \in Nat /\ v \in S /\ rank \in [D -> 0..n] /\ body \in [[D -> S] -> [D -> S]]
  BY DEF Recursion
<1> Ranked(D, S, rank, body)
  BY DEF Recursion
<1> DEFINE V == [D -> S]
           b == [x \in D |-> v]
           step == [k \in 1..(n + 2) |-> body]
<1>1. b \in V /\ n + 2 \in Nat
  OBVIOUS
<1>2. step \in [1..(n + 2) -> [V -> V]]
  OBVIOUS
<1> HIDE DEF V, b, step
<1>3. PICK g \in [0..(n + 2) -> V] : FoundInSteps(g, n + 2, b, step)
  BY <1>1, <1>2, RecursionExists
<1>4. ASSUME NEW k \in 1..(n + 2) PROVE g[k] = body[g[k - 1]]
  BY <1>3 DEF FoundInSteps, step
<1> DEFINE Stable == {k \in 0..(n + 1) : \A x \in D : rank[x] < k => g[k][x] = g[k + 1][x]}
<1>5. 0 \in Stable
  <2>1. \A x \in D : ~(rank[x] < 0)
    OBVIOUS
  <2> QED
    BY <2>1
<1>6. ASSUME NEW k \in 1..(n + 1), k - 1 \in Stable PROVE k \in Stable
  <2>1. k \in 1..(n + 2) /\ k + 1 \in 1..(n + 2) /\ k - 1 \in 0..(n + 2) /\ k \in 0..(n + 2) /\ k \in 0..(n + 1)
        /\ (k - 1) + 1 = k /\ (k + 1) - 1 = k
    OBVIOUS
  <2>2. \A x \in D : rank[x] < k - 1 => g[k - 1][x] = g[k][x]
    BY <1>6, <2>1
  <2>3. g[k - 1] \in V /\ g[k] \in V
    BY <2>1
  <2>4. g[k] = body[g[k - 1]] /\ g[k + 1] = body[g[k]]
    BY <1>4, <2>1
  <2>5. ASSUME NEW x \in D, rank[x] < k PROVE g[k][x] = g[k + 1][x]
    <3>1. \A y \in D : rank[y] < rank[x] => rank[y] < k - 1
      <4> SUFFICES ASSUME NEW y \in D, rank[y] < rank[x] PROVE rank[y] < k - 1
        OBVIOUS
      <4>1. rank[x] \in Nat /\ rank[y] \in Nat
        OBVIOUS
      <4> QED
        BY <2>5, <4>1
    <3>2. \A y \in D : rank[y] < rank[x] => g[k - 1][y] = g[k][y]
      BY <2>2, <3>1
    <3>3. body[g[k - 1]][x] = body[g[k]][x]
      BY <2>3, <3>2 DEF Ranked, V
    <3> QED
      BY <2>4, <3>3
  <2> QED
    BY <2>1, <2>5
<1>7. n + 1 \in Stable
  <2> HIDE DEF Stable
  <2>1. n + 1 \in Nat /\ n + 1 \in 0..(n + 1)
    OBVIOUS
  <2>2. \A k \in 0..(n + 1) : k \in Stable
    BY <1>5, <1>6, <2>1, UpTo
  <2> QED
    BY <2>1, <2>2
<1>8. g[n + 1] = body[g[n + 1]]
  <2>1. n + 1 \in 0..(n + 2) /\ n + 2 \in 1..(n + 2) /\ n + 2 \in 0..(n + 2) /\ (n + 2) - 1 = n + 1 /\ (n + 1) + 1 = n + 2
    OBVIOUS
  <2>2. \A x \in D : rank[x] < n + 1
    <3> SUFFICES ASSUME NEW x \in D PROVE rank[x] < n + 1
      OBVIOUS
    <3>1. rank[x] \in 0..n
      OBVIOUS
    <3> QED
      BY <3>1
  <2>3. \A x \in D : g[n + 1][x] = g[n + 2][x]
    BY <1>7, <2>1, <2>2
  <2>4. g[n + 1] \in V /\ g[n + 2] \in V
    BY <2>1
  <2>5. g[n + 1] = g[n + 2]
    BY <2>3, <2>4 DEF V
  <2> QED
    BY <1>4, <2>1, <2>5
<1>9. g[n + 1] \in V
  <2>1. n + 1 \in 0..(n + 2)
    OBVIOUS
  <2> QED
    BY <2>1
<1> QED
  BY <1>8, <1>9 DEF V

-----------------------------------------------------------------------------
(* INSPECT: the part of the field that a phrase looks at. *)

(* FirstAt gives a place where d stands, or 0. *)
LEMMA FirstAtIs ==
  ASSUME NEW s, NEW d, NEW from \in Nat, NEW stop \in Nat
  PROVE  FirstAt(s, d, from, stop) = 0
           \/ FirstAt(s, d, from, stop) \in {i \in from..stop : At(s, d, i, stop)}
<1> DEFINE found == {i \in from..stop : At(s, d, i, stop)}
           first == FirstAt(s, d, from, stop)
<1>1. CASE found = {}
  BY <1>1 DEF FirstAt
<1>2. CASE found # {}
  <2>1. first = CHOOSE i \in found : \A j \in found : i <= j
    BY <1>2 DEF FirstAt
  <2>2. found \in SUBSET Nat
    OBVIOUS
  <2> HIDE DEF found, first
  <2>3. PICK i \in found : \A j \in found : i <= j
    BY <1>2, <2>2, LeastExists
  <2>4. first \in found
    BY <2>1, <2>3
  <2> QED
    BY <2>4 DEF found, first
<1> QED
  BY <1>1, <1>2

(* a part of a field of n characters *)
IsPart(part, n) ==
  /\ part = <<part[1], part[2]>>
  /\ part[1] \in 1..(n + 1) /\ part[2] \in 0..n /\ part[2] >= part[1] - 1

(* BEFORE and AFTER leave a part of the field. *)
LEMMA RegionIsPart ==
  ASSUME data \in Seq(Nat), NEW r \in Regions
  PROVE  IsPart(Region(<<1, Len(data)>>, r), Len(data))
<1> DEFINE n == Len(data)
           d == r[2]
           i == FirstAt(data, d, 1, n)
<1>1. n \in Nat
  OBVIOUS
<1>2. d \in Patterns /\ Len(d) \in Nat \ {0}
  BY StringsAssumption DEF Regions
<1>3. i = 0 \/ (i \in 1..n /\ At(data, d, i, n))
  BY <1>1, FirstAtIs
<1>4. Region(<<1, n>>, r) = IF r[1] = "BEFORE" THEN <<1, IF i = 0 THEN n ELSE i - 1>>
                            ELSE <<IF i = 0 THEN n + 1 ELSE i + Len(d), n>>
  BY DEF Region
<1> HIDE DEF n, d, i
<1>5. i # 0 => i + Len(d) - 1 <= n
  BY <1>3 DEF At
<1>6. IsPart(<<1, IF i = 0 THEN n ELSE i - 1>>, n)
  BY <1>1, <1>3 DEF IsPart
<1>7. IsPart(<<IF i = 0 THEN n + 1 ELSE i + Len(d), n>>, n)
  BY <1>1, <1>2, <1>3, <1>5 DEF IsPart
<1> QED
  BY <1>4, <1>6, <1>7 DEF n

(* A phrase without a region looks at the whole field. *)
LEMMA FoldNone == ASSUME NEW b PROVE FoldLeft(Region, b, <<>>) = b
<1> DEFINE D == SUBSET DOMAIN <<>>
           Body(h) == [s \in D |-> IF s = {} THEN b
                         ELSE Region(h[s \ {CHOOSE x \in s : \A y \in s : x >= y}],
                                     <<>>[CHOOSE x \in s : \A y \in s : x >= y])]
           iter == CHOOSE iter : iter = Body(iter)
           h == [s \in D |-> b]
<1>1. FoldLeft(Region, b, <<>>) = iter[DOMAIN <<>>]
  BY DEF FoldLeft, MapThenFoldSet, Max
<1>2. D = {{}} /\ DOMAIN <<>> = {}
  OBVIOUS
<1>3. h = Body(h)
  BY <1>2
<1>4. iter = Body(iter)
  <2> HIDE DEF Body, h
  <2> QED
    BY <1>3
<1> HIDE DEF iter
<1>5. iter[{}] = b
  BY <1>2, <1>4
<1> QED
  BY <1>1, <1>2, <1>5

(* A phrase with one region looks at what that one leaves. *)
LEMMA FoldOne == ASSUME NEW b, NEW r PROVE FoldLeft(Region, b, <<r>>) = Region(b, r)
<1> DEFINE D == SUBSET DOMAIN <<r>>
           Body(h) == [s \in D |-> IF s = {} THEN b
                         ELSE Region(h[s \ {CHOOSE x \in s : \A y \in s : x >= y}],
                                     <<r>>[CHOOSE x \in s : \A y \in s : x >= y])]
           iter == CHOOSE iter : iter = Body(iter)
           h == [s \in D |-> IF s = {} THEN b ELSE Region(b, r)]
<1>1. FoldLeft(Region, b, <<r>>) = iter[DOMAIN <<r>>]
  BY DEF FoldLeft, MapThenFoldSet, Max
<1>2. DOMAIN <<r>> = {1} /\ D = {{}, {1}} /\ <<r>>[1] = r
  OBVIOUS
<1>3. (CHOOSE x \in {1} : \A y \in {1} : x >= y) = 1
  OBVIOUS
<1>4. {1} \ {1} = {}
  OBVIOUS
<1>5. h = Body(h)
  <2>1. {} \in D /\ {1} \in D /\ h[{}] = b /\ h[{1}] = Region(b, r) /\ {1} # {}
    BY <1>2
  <2>2. Body(h)[{}] = b
    BY <2>1
  <2>3. Body(h)[{1}] = Region(h[{1} \ {1}], <<r>>[1])
    BY <2>1, <1>3
  <2>4. \A s \in D : h[s] = Body(h)[s]
    BY <1>2, <1>4, <2>1, <2>2, <2>3
  <2> QED
    BY <2>4
<1>6. iter = Body(iter)
  <2> HIDE DEF Body, h
  <2> QED
    BY <1>5
<1> HIDE DEF iter
<1>7. iter[{}] = b
  BY <1>2, <1>6
<1>8. iter[{1}] = Region(iter[{}], r)
  <2>1. {1} \in D /\ {1} # {}
    BY <1>2
  <2>2. iter[{1}] = Region(iter[{1} \ {CHOOSE x \in {1} : \A y \in {1} : x >= y}],
                           <<r>>[CHOOSE x \in {1} : \A y \in {1} : x >= y])
    BY <1>6, <2>1
  <2> QED
    BY <1>2, <1>3, <1>4, <2>2
<1> QED
  BY <1>1, <1>2, <1>7, <1>8

(* So every phrase looks at a part of the field. *)
LEMMA PartIs ==
  ASSUME data \in Seq(Nat), NEW regions \in RegionLists
  PROVE  IsPart(PartOf(regions), Len(data))
<1>1. CASE regions = <<>>
  <2>1. PartOf(regions) = <<1, Len(data)>>
    BY <1>1, FoldNone DEF PartOf
  <2>2. Len(data) \in Nat
    OBVIOUS
  <2> QED
    BY <2>1, <2>2 DEF IsPart
<1>2. ASSUME NEW r \in Regions, regions = <<r>>
      PROVE  IsPart(PartOf(regions), Len(data))
  <2>1. PartOf(regions) = Region(<<1, Len(data)>>, r)
    BY <1>2, FoldOne DEF PartOf
  <2> QED
    BY <2>1, RegionIsPart
<1> QED
  BY <1>1, <1>2 DEF RegionLists

-----------------------------------------------------------------------------
(* INSPECT: the places that a phrase finds, from i on or before it. *)

(* d stands at q, on characters that are free *)
Takes(d, q, stop) == At(data, d, q, stop) /\ Free(q, Len(d))

UpBody(kind, d, from, stop, h) ==
  [i \in from..(stop + 1) |->
     IF i > stop THEN {}
     ELSE IF ~At(data, d, i, stop) THEN IF kind = "LEADING" THEN {} ELSE h[i + 1]
     ELSE IF ~Free(i, Len(d)) THEN h[i + 1]
     ELSE {i} \cup (IF kind = "FIRST" THEN {} ELSE h[i + Len(d)])]

DownBody(d, from, stop, h) ==
  [i \in (from - Len(d))..(stop - Len(d) + 1) |->
     IF i < from \/ ~At(data, d, i, stop) THEN {}
     ELSE IF Free(i, Len(d)) THEN {i} \cup h[i - Len(d)]
     ELSE h[i - 1]]

(* The places found from the left are well defined. *)
LEMMA UpExists ==
  ASSUME NEW kind, NEW d, Len(d) \in Nat \ {0}, NEW from \in Nat, NEW stop \in Nat, stop >= from - 1
  PROVE  \E h : h = UpBody(kind, d, from, stop, h)
<1> DEFINE D == from..(stop + 1)
           S == SUBSET Nat
           n == stop + 1 - from
           rank == [i \in D |-> stop + 1 - i]
           body == [h \in [D -> S] |-> UpBody(kind, d, from, stop, h)]
           m == Len(d)
<1>1. n \in Nat /\ rank \in [D -> 0..n] /\ {} \in S
  OBVIOUS
<1>2. ASSUME NEW i \in D, i <= stop
      PROVE  /\ i + 1 \in D /\ rank[i + 1] < rank[i] /\ i \in Nat
             /\ At(data, d, i, stop) => i + m \in D /\ rank[i + m] < rank[i]
  <2>1. m \in Nat \ {0} /\ i \in Nat
    OBVIOUS
  <2>2. At(data, d, i, stop) => i + m - 1 <= stop
    BY DEF At
  <2> HIDE DEF m
  <2> QED
    BY <1>2, <2>1, <2>2
<1>3. body \in [[D -> S] -> [D -> S]]
  <2> SUFFICES ASSUME NEW h \in [D -> S] PROVE UpBody(kind, d, from, stop, h) \in [D -> S]
    OBVIOUS
  <2> DEFINE b == UpBody(kind, d, from, stop, h)
  <2>1. ASSUME NEW i \in D PROVE b[i] \in S
    <3>1. CASE i > stop
      BY <3>1 DEF UpBody
    <3>2. CASE i <= stop /\ ~At(data, d, i, stop)
      <4>1. ~(i > stop) /\ h[i + 1] \in S
        <5>1. i + 1 \in D /\ ~(i > stop)
          BY <3>2, <1>2
        <5> QED
          BY <5>1
      <4>2. b[i] = IF kind = "LEADING" THEN {} ELSE h[i + 1]
        BY <3>2, <4>1 DEF UpBody
      <4> QED
        BY <4>1, <4>2
    <3>3. CASE i <= stop /\ At(data, d, i, stop)
      <4>1. ~(i > stop) /\ h[i + 1] \in S /\ h[i + m] \in S /\ i \in Nat
        <5>1. i \in Nat /\ i + 1 \in D /\ i + m \in D
          BY <3>3, <1>2
        <5>2. h[i + 1] \in S /\ h[i + m] \in S
          <6> HIDE DEF D, S, m
          <6> QED
            BY <5>1
        <5> QED
          BY <5>1, <5>2, <3>3
      <4>2. b[i] = IF ~Free(i, m) THEN h[i + 1] ELSE {i} \cup (IF kind = "FIRST" THEN {} ELSE h[i + m])
        BY <3>3, <4>1 DEF UpBody
      <4> QED
        BY <4>1, <4>2
    <3> QED
      BY <3>1, <3>2, <3>3
  <2>2. b = [i \in D |-> b[i]]
    BY DEF UpBody
  <2> QED
    BY <2>1, <2>2
<1>4. Ranked(D, S, rank, body)
  <2> SUFFICES ASSUME NEW f \in [D -> S], NEW g \in [D -> S], NEW i \in D,
                      \A y \in D : rank[y] < rank[i] => f[y] = g[y]
               PROVE  UpBody(kind, d, from, stop, f)[i] = UpBody(kind, d, from, stop, g)[i]
    BY DEF Ranked
  <2>1. i <= stop => f[i + 1] = g[i + 1] /\ (At(data, d, i, stop) => f[i + m] = g[i + m])
    BY <1>2
  <2>2. i > stop \/ i <= stop
    OBVIOUS
  <2>3. UpBody(kind, d, from, stop, f)[i] =
          IF i > stop THEN {}
          ELSE IF ~At(data, d, i, stop) THEN IF kind = "LEADING" THEN {} ELSE f[i + 1]
          ELSE IF ~Free(i, m) THEN f[i + 1] ELSE {i} \cup (IF kind = "FIRST" THEN {} ELSE f[i + m])
    BY DEF UpBody
  <2>4. UpBody(kind, d, from, stop, g)[i] =
          IF i > stop THEN {}
          ELSE IF ~At(data, d, i, stop) THEN IF kind = "LEADING" THEN {} ELSE g[i + 1]
          ELSE IF ~Free(i, m) THEN g[i + 1] ELSE {i} \cup (IF kind = "FIRST" THEN {} ELSE g[i + m])
    BY DEF UpBody
  <2> QED
    BY <2>1, <2>2, <2>3, <2>4
<1> HIDE DEF D, S, rank, body, n
<1>5. Recursion(n, D, S, {}, rank, body)
  BY <1>1, <1>3, <1>4 DEF Recursion
<1>6. PICK h \in [D -> S] : h = body[h]
  BY <1>5, RankedRecursion
<1> QED
  BY <1>6 DEF body

(* So are the places found from the right. *)
LEMMA DownExists ==
  ASSUME NEW d, Len(d) \in Nat \ {0}, NEW from \in Nat, NEW stop \in Nat, stop >= from - 1
  PROVE  \E h : h = DownBody(d, from, stop, h)
<1> DEFINE m == Len(d)
           D == (from - m)..(stop - m + 1)
           S == SUBSET Nat
           n == stop + 1 - from
           rank == [i \in D |-> i - (from - m)]
           body == [h \in [D -> S] |-> DownBody(d, from, stop, h)]
<1>1. m \in Nat \ {0}
  OBVIOUS
<1>3. n \in Nat /\ rank \in [D -> 0..n] /\ {} \in S
  <2> HIDE DEF m
  <2> QED
    BY <1>1
<1>4. ASSUME NEW i \in D, i >= from
      PROVE  i \in Nat /\ i - 1 \in D /\ rank[i - 1] < rank[i] /\ i - m \in D /\ rank[i - m] < rank[i]
  <2> HIDE DEF m
  <2> QED
    BY <1>1, <1>4
<1>5. body \in [[D -> S] -> [D -> S]]
  <2> SUFFICES ASSUME NEW h \in [D -> S] PROVE DownBody(d, from, stop, h) \in [D -> S]
    OBVIOUS
  <2> DEFINE b == DownBody(d, from, stop, h)
  <2>1. ASSUME NEW i \in D PROVE b[i] \in S
    <3>1. CASE i < from
      BY <3>1 DEF DownBody
    <3>2. CASE i >= from /\ ~At(data, d, i, stop)
      <4>1. ~(i < from)
        BY <3>2, <1>4
      <4> QED
        BY <3>2, <4>1 DEF DownBody
    <3>3. CASE i >= from /\ At(data, d, i, stop)
      <4>1. ~(i < from) /\ h[i - 1] \in S /\ h[i - m] \in S /\ i \in Nat
        BY <3>3, <1>4
      <4>2. b[i] = IF Free(i, m) THEN {i} \cup h[i - m] ELSE h[i - 1]
        BY <3>3, <4>1 DEF DownBody
      <4> QED
        BY <4>1, <4>2
    <3>4. i \in Int
      BY <1>1
    <3> QED
      BY <3>1, <3>2, <3>3, <3>4
  <2>2. b = [i \in D |-> b[i]]
    BY DEF DownBody
  <2> QED
    BY <2>1, <2>2
<1>6. Ranked(D, S, rank, body)
  <2> SUFFICES ASSUME NEW f \in [D -> S], NEW g \in [D -> S], NEW i \in D,
                      \A y \in D : rank[y] < rank[i] => f[y] = g[y]
               PROVE  DownBody(d, from, stop, f)[i] = DownBody(d, from, stop, g)[i]
    BY DEF Ranked
  <2>1. i >= from => f[i - 1] = g[i - 1] /\ f[i - m] = g[i - m]
    BY <1>4
  <2>2. i < from \/ i >= from
    BY <1>1
  <2>3. DownBody(d, from, stop, f)[i] =
          IF i < from \/ ~At(data, d, i, stop) THEN {}
          ELSE IF Free(i, m) THEN {i} \cup f[i - m] ELSE f[i - 1]
    BY DEF DownBody
  <2>4. DownBody(d, from, stop, g)[i] =
          IF i < from \/ ~At(data, d, i, stop) THEN {}
          ELSE IF Free(i, m) THEN {i} \cup g[i - m] ELSE g[i - 1]
    BY DEF DownBody
  <2> QED
    BY <2>1, <2>2, <2>3, <2>4
<1> HIDE DEF D, S, rank, body, n
<1>7. Recursion(n, D, S, {}, rank, body)
  BY <1>3, <1>5, <1>6 DEF Recursion
<1>8. PICK h \in [D -> S] : h = body[h]
  BY <1>7, RankedRecursion
<1> QED
  BY <1>8 DEF body

-----------------------------------------------------------------------------
(* INSPECT: what a phrase finds from i on. *)

(* Where the next one begins. *)
LEMMA AfterNext ==
  ASSUME NEW d, Len(d) \in Nat, NEW p \in Nat, NEW k \in Nat
  PROVE  After(d, p + Len(d), k) = After(d, p, k + 1)
<1> DEFINE n == Len(d)
           m == k * n
<1>1. n \in Nat /\ m \in Nat /\ (k + 1) * n = m + n
  OBVIOUS
<1>2. After(d, p + n, k) = (p + n) + m /\ After(d, p, k + 1) = p + (k + 1) * n
  BY DEF After
<1> HIDE DEF n, m
<1>3. After(d, p + n, k) = After(d, p, k + 1)
  BY <1>1, <1>2
<1> QED
  BY <1>3 DEF n

(* m places, one behind the other, the first at p *)
RunUp(d, p, m) == {After(d, p, k) : k \in 0..(m - 1)}

(* A run of one more place. *)
LEMMA RunUpMore ==
  ASSUME NEW d, Len(d) \in Nat, NEW p \in Nat, NEW m \in Nat
  PROVE  RunUp(d, p, m + 1) = {p} \cup RunUp(d, p + Len(d), m)
<1> DEFINE n == Len(d)
<1>1. n \in Nat /\ After(d, p, 0) = p
  BY AfterSteps
<1> HIDE DEF n
<1>2. \A k \in 0..(m - 1) : After(d, p + n, k) = After(d, p, k + 1) /\ k + 1 \in 0..((m + 1) - 1)
  BY <1>1, AfterNext DEF n
<1>3. \A k \in 0..((m + 1) - 1) : k # 0 => k - 1 \in 0..(m - 1) /\ (k - 1) + 1 = k
  OBVIOUS
<1>4. 0 \in 0..((m + 1) - 1)
  OBVIOUS
<1>5. ASSUME NEW x \in RunUp(d, p, m + 1) PROVE x \in {p} \cup RunUp(d, p + n, m)
  <2>1. PICK k \in 0..((m + 1) - 1) : x = After(d, p, k)
    BY DEF RunUp
  <2>2. CASE k = 0
    BY <1>1, <2>1, <2>2
  <2>3. CASE k # 0
    <3>1. x = After(d, p + n, k - 1) /\ k - 1 \in 0..(m - 1)
      BY <1>2, <1>3, <2>1, <2>3
    <3> QED
      BY <3>1 DEF RunUp
  <2> QED
    BY <2>2, <2>3
<1>6. ASSUME NEW x \in {p} \cup RunUp(d, p + n, m) PROVE x \in RunUp(d, p, m + 1)
  <2>1. CASE x = p
    BY <1>1, <1>4, <2>1 DEF RunUp
  <2>2. CASE x \in RunUp(d, p + n, m)
    <3>1. PICK k \in 0..(m - 1) : x = After(d, p + n, k)
      BY <2>2 DEF RunUp
    <3>2. x = After(d, p, k + 1) /\ k + 1 \in 0..((m + 1) - 1)
      BY <1>2, <3>1
    <3> QED
      BY <3>2 DEF RunUp
  <2> QED
    BY <2>1, <2>2
<1> QED
  BY <1>5, <1>6 DEF n

(* where d stands from i on, nothing has been taken *)
AllFree(d, i, stop) == \A q \in i..stop : At(data, d, q, stop) => Free(q, Len(d))

FirstOf(d, i, stop) ==
  {q \in i..stop : Takes(d, q, stop) /\ \A r \in i..stop : Takes(d, r, stop) => q <= r}

UpOK(kind, d, i, stop, P) ==
  /\ P \subseteq i..stop
  /\ \A q \in P : Takes(d, q, stop)
  /\ \A p, q \in P : p < q => p + Len(d) <= q
  /\ kind = "ALL" => \A q \in i..stop : Takes(d, q, stop) => \E p \in P : p <= q /\ q < p + Len(d)
  /\ kind = "FIRST" => P = FirstOf(d, i, stop)
  /\ kind = "LEADING" /\ AllFree(d, i, stop) =>
       \E m \in 0..(stop + 1 - i) : P = RunUp(d, i, m) /\ ~At(data, d, After(d, i, m), stop)

(* Behind the end there is nothing. *)
LEMMA UpEnd ==
  ASSUME NEW kind, NEW d, Len(d) \in Nat \ {0}, NEW stop \in Nat
  PROVE  UpOK(kind, d, stop + 1, stop, {})
<1> DEFINE n == Len(d)
           i == stop + 1
<1>1. n \in Nat \ {0} /\ i \in Nat /\ i..stop = {} /\ stop + 1 - i = 0
  OBVIOUS
<1>2. ~(i + n - 1 <= stop)
  <2> HIDE DEF n
  <2> QED
    BY <1>1
<1> HIDE DEF n, i
<1>6. After(d, i, 0) = i
  BY <1>1, AfterSteps DEF n
<1>3. RunUp(d, i, 0) = {} /\ ~At(data, d, After(d, i, 0), stop) /\ 0 \in 0..(stop + 1 - i)
  BY <1>1, <1>2, <1>6 DEF RunUp, At, n
<1>4. FirstOf(d, i, stop) = {}
  BY <1>1 DEF FirstOf
<1>5. UpOK(kind, d, i, stop, {})
  BY <1>1, <1>3, <1>4 DEF UpOK
<1> QED
  BY <1>5 DEF i

(* Nothing is taken at i. *)
LEMMA UpSkip ==
  ASSUME NEW kind, NEW d, Len(d) \in Nat \ {0}, NEW stop \in Nat, NEW i \in Nat, i <= stop,
         ~Takes(d, i, stop), kind = "LEADING" => ~AllFree(d, i, stop),
         NEW P, UpOK(kind, d, i + 1, stop, P)
  PROVE  UpOK(kind, d, i, stop, P)
<1>1. i..stop = {i} \cup (i + 1)..stop /\ \A q \in (i + 1)..stop : q \in i..stop
  OBVIOUS
<1>2. P \subseteq i..stop
  BY <1>1 DEF UpOK
<1>3. kind = "ALL" => \A q \in i..stop : Takes(d, q, stop) => \E p \in P : p <= q /\ q < p + Len(d)
  BY <1>1 DEF UpOK
<1>4. kind = "FIRST" => P = FirstOf(d, i, stop)
  <2>1. FirstOf(d, i, stop) = FirstOf(d, i + 1, stop)
    BY <1>1 DEF FirstOf
  <2> QED
    BY <2>1 DEF UpOK
<1> QED
  BY <1>2, <1>3, <1>4 DEF UpOK

(* LEADING ends where d does not stand. *)
LEMMA UpStop ==
  ASSUME NEW d, Len(d) \in Nat \ {0}, NEW stop \in Nat, NEW i \in Nat, i <= stop, ~At(data, d, i, stop)
  PROVE  UpOK("LEADING", d, i, stop, {})
<1>1. After(d, i, 0) = i
  BY AfterSteps
<1>2. RunUp(d, i, 0) = {} /\ 0 \in 0..(stop + 1 - i)
  BY DEF RunUp
<1> QED
  BY <1>1, <1>2 DEF UpOK

(* FIRST takes the first. *)
LEMMA UpFirst ==
  ASSUME NEW d, Len(d) \in Nat \ {0}, NEW stop \in Nat, NEW i \in Nat, i <= stop, Takes(d, i, stop)
  PROVE  UpOK("FIRST", d, i, stop, {i})
<1>1. i \in i..stop /\ \A q \in i..stop : i <= q /\ (q <= i => q = i)
  OBVIOUS
<1>2. FirstOf(d, i, stop) = {i}
  BY <1>1 DEF FirstOf
<1> QED
  BY <1>1, <1>2 DEF UpOK

(* The place i is taken, and then what is found behind it. *)
LEMMA UpTake ==
  ASSUME NEW kind, kind # "FIRST", NEW d, Len(d) \in Nat \ {0}, NEW stop \in Nat, NEW i \in Nat, i <= stop,
         Takes(d, i, stop), NEW P, UpOK(kind, d, i + Len(d), stop, P)
  PROVE  UpOK(kind, d, i, stop, {i} \cup P)
<1> DEFINE n == Len(d)
           j == i + n
           Q == {i} \cup P
<1>1. n \in Nat \ {0} /\ j \in Nat /\ j > i /\ j <= stop + 1 /\ At(data, d, i, stop)
  <2>1. n \in Nat \ {0} /\ i + n - 1 <= stop /\ At(data, d, i, stop)
    BY DEF Takes, At
  <2> HIDE DEF n
  <2> QED
    BY <2>1
<1>2. UpOK(kind, d, j, stop, P) /\ P \subseteq j..stop
  BY DEF UpOK
<1>3. RunUp(d, i, 0 + 1) = {i} \cup RunUp(d, j, 0) /\ \A m \in Nat : RunUp(d, i, m + 1) = {i} \cup RunUp(d, j, m)
  BY RunUpMore
<1>4. \A m \in Nat : After(d, j, m) = After(d, i, m + 1)
  BY AfterNext
<1> HIDE DEF j
<1>5. Q \subseteq i..stop
  BY <1>1, <1>2
<1>6. \A q \in Q : Takes(d, q, stop)
  BY <1>2 DEF UpOK
<1>7. ASSUME NEW p \in Q, NEW q \in Q, p < q PROVE p + n <= q
  <2>1. CASE p = i
    <3>1. q \in P
      BY <1>1, <2>1, <1>7
    <3>2. q \in j..stop
      BY <1>2, <3>1
    <3> HIDE DEF n
    <3> QED
      BY <1>1, <2>1, <3>2 DEF j
  <2>2. CASE p # i
    <3>1. p \in P /\ p \in j..stop
      BY <1>2, <2>2
    <3>2. q \in P
      <4>1. q # i
        BY <3>1, <1>1, <1>7
      <4> QED
        BY <4>1
    <3> QED
      BY <1>2, <1>7, <3>1, <3>2 DEF UpOK
  <2> QED
    BY <2>1, <2>2
<1>8. ASSUME kind = "ALL", NEW q \in i..stop, Takes(d, q, stop)
      PROVE  \E p \in Q : p <= q /\ q < p + n
  <2>1. CASE q < j
    <3>1. i <= q /\ q < i + n
      BY <2>1 DEF j
    <3> QED
      BY <3>1
  <2>2. CASE ~(q < j)
    <3>1. q \in j..stop
      BY <1>1, <2>2
    <3>2. \E p \in P : p <= q /\ q < p + n
      BY <1>2, <1>8, <3>1 DEF UpOK
    <3> QED
      BY <3>2
  <2> QED
    BY <2>1, <2>2
<1>9. ASSUME kind = "LEADING", AllFree(d, i, stop)
      PROVE  \E m \in 0..(stop + 1 - i) : Q = RunUp(d, i, m) /\ ~At(data, d, After(d, i, m), stop)
  <2>1. AllFree(d, j, stop)
    BY <1>1, <1>9 DEF AllFree
  <2>2. PICK m \in 0..(stop + 1 - j) : P = RunUp(d, j, m) /\ ~At(data, d, After(d, j, m), stop)
    BY <1>2, <1>9, <2>1 DEF UpOK
  <2>3. m \in Nat /\ m + 1 \in 0..(stop + 1 - i)
    BY <1>1
  <2>4. Q = RunUp(d, i, m + 1) /\ ~At(data, d, After(d, i, m + 1), stop)
    BY <1>3, <1>4, <2>2, <2>3
  <2> QED
    BY <2>3, <2>4
<1> HIDE DEF Q
<1>10. UpOK(kind, d, i, stop, Q)
  BY <1>5, <1>6, <1>7, <1>8, <1>9 DEF UpOK
<1> QED
  BY <1>10 DEF Q

(* What is found from the left is what is promised. *)
LEMMA UpIs ==
  ASSUME NEW kind \in {"ALL", "FIRST", "LEADING"}, NEW d, Len(d) \in Nat \ {0},
         NEW from \in Nat, NEW stop \in Nat, stop >= from - 1,
         NEW up, up = UpBody(kind, d, from, stop, up)
  PROVE  UpOK(kind, d, from, stop, up[from])
<1> DEFINE n == Len(d)
           Bad == {i \in from..(stop + 1) : ~UpOK(kind, d, i, stop, up[i])}
<1> SUFFICES ASSUME Bad # {} PROVE FALSE
  <2>1. from \in from..(stop + 1)
    OBVIOUS
  <2> QED
    BY <2>1
<1>1. stop + 1 \in Nat /\ Bad \in SUBSET (0..(stop + 1))
  OBVIOUS
<1>2. PICK i \in Bad : \A j \in Bad : i >= j
  <2> HIDE DEF Bad
  <2> QED
    BY <1>1, GreatestExists
<1>3. i \in from..(stop + 1) /\ i \in Nat /\ ~UpOK(kind, d, i, stop, up[i])
  BY <1>2
<1>4. ASSUME NEW j \in from..(stop + 1), j > i PROVE UpOK(kind, d, j, stop, up[j])
  <2>1. ~(i >= j)
    BY <1>3, <1>4
  <2> QED
    BY <1>2, <2>1
<1> HIDE DEF Bad
<1>5. up[i] = UpBody(kind, d, from, stop, up)[i]
  OBVIOUS
<1>6. CASE i > stop
  <2>1. i = stop + 1 /\ up[i] = {}
    BY <1>3, <1>5, <1>6 DEF UpBody
  <2> QED
    BY <1>3, <2>1, UpEnd
<1>7. CASE i <= stop /\ ~At(data, d, i, stop)
  <2>1. ~(i > stop) /\ i + 1 \in from..(stop + 1) /\ i + 1 > i
    BY <1>3, <1>7
  <2>2. up[i] = IF kind = "LEADING" THEN {} ELSE up[i + 1]
    BY <1>3, <1>5, <1>7, <2>1 DEF UpBody
  <2>3. CASE kind = "LEADING"
    BY <1>3, <1>7, <2>2, <2>3, UpStop
  <2>4. CASE kind # "LEADING"
    BY <1>3, <1>4, <1>7, <2>1, <2>2, <2>4, UpSkip DEF Takes
  <2> QED
    BY <2>3, <2>4
<1>8. CASE i <= stop /\ At(data, d, i, stop)
  <2>1. ~(i > stop) /\ i + 1 \in from..(stop + 1) /\ i + 1 > i
    BY <1>3, <1>8
  <2>2. up[i] = IF ~Free(i, n) THEN up[i + 1] ELSE {i} \cup (IF kind = "FIRST" THEN {} ELSE up[i + n])
    BY <1>3, <1>5, <1>8, <2>1 DEF UpBody
  <2>3. CASE ~Free(i, n)
    <3>1. ~Takes(d, i, stop) /\ ~AllFree(d, i, stop) /\ up[i] = up[i + 1]
      <4>1. i \in i..stop
        BY <1>3, <1>8
      <4> QED
        BY <1>8, <2>2, <2>3, <4>1 DEF Takes, AllFree
    <3>2. UpOK(kind, d, i + 1, stop, up[i])
      BY <1>4, <2>1, <3>1
    <3> QED
      BY <1>3, <1>8, <3>1, <3>2, UpSkip
  <2>4. CASE Free(i, n) /\ kind = "FIRST"
    <3>1. Takes(d, i, stop) /\ up[i] = {i}
      BY <1>8, <2>2, <2>4 DEF Takes
    <3> QED
      BY <1>3, <1>8, <2>4, <3>1, UpFirst
  <2>5. CASE Free(i, n) /\ kind # "FIRST"
    <3>1. Takes(d, i, stop) /\ up[i] = {i} \cup up[i + n]
      BY <1>8, <2>2, <2>5 DEF Takes
    <3>2. i + n \in from..(stop + 1) /\ i + n > i
      <4>1. n \in Nat \ {0} /\ i + n - 1 <= stop
        BY <1>8 DEF At
      <4> HIDE DEF n
      <4> QED
        BY <4>1, <1>3
    <3>3. UpOK(kind, d, i + n, stop, up[i + n])
      BY <1>4, <3>2
    <3> QED
      BY <1>3, <1>8, <2>5, <3>1, <3>3, UpTake
  <2> QED
    BY <2>3, <2>4, <2>5
<1> QED
  BY <1>3, <1>6, <1>7, <1>8

-----------------------------------------------------------------------------
(* INSPECT: what TRAILING finds from i back. *)

Before(d, p, k) == p - k * Len(d)

(* m places, one before the other, the last at p *)
RunDown(d, p, m) == {Before(d, p, k) : k \in 0..(m - 1)}

(* Where the places before p begin. *)
LEMMA BeforeSteps ==
  ASSUME NEW d, Len(d) \in Nat, NEW p \in Int
  PROVE  /\ Before(d, p, 0) = p
         /\ \A k \in Nat : Before(d, p - Len(d), k) = Before(d, p, k + 1)
<1> DEFINE n == Len(d)
<1>1. n \in Nat
  OBVIOUS
<1>2. \A k \in Nat : k * n \in Nat /\ (k + 1) * n = k * n + n
  BY <1>1
<1>3. 0 * n = 0
  BY <1>1
<1>4. \A k \in Nat : Before(d, p - n, k) = (p - n) - k * n /\ Before(d, p, k + 1) = p - (k + 1) * n
  BY DEF Before
<1>5. Before(d, p, 0) = p - 0 * n
  BY DEF Before
<1> HIDE DEF n
<1>6. ASSUME NEW k \in Nat PROVE Before(d, p - n, k) = Before(d, p, k + 1)
  <2> DEFINE m == k * n
  <2>1. m \in Nat /\ (k + 1) * n = m + n
    BY <1>2
  <2>2. Before(d, p - n, k) = (p - n) - m /\ Before(d, p, k + 1) = p - (m + n)
    BY <1>4, <2>1
  <2> HIDE DEF m
  <2> QED
    BY <1>1, <2>1, <2>2
<1>7. Before(d, p, 0) = p
  BY <1>3, <1>5
<1> QED
  BY <1>6, <1>7 DEF n

(* A run of one more place, downwards. *)
LEMMA RunDownMore ==
  ASSUME NEW d, Len(d) \in Nat, NEW p \in Int, NEW m \in Nat
  PROVE  RunDown(d, p, m + 1) = {p} \cup RunDown(d, p - Len(d), m)
<1> DEFINE n == Len(d)
<1>1. n \in Nat /\ Before(d, p, 0) = p
  BY BeforeSteps
<1> HIDE DEF n
<1>2. \A k \in 0..(m - 1) : Before(d, p - n, k) = Before(d, p, k + 1) /\ k + 1 \in 0..((m + 1) - 1)
  BY <1>1, BeforeSteps DEF n
<1>3. \A k \in 0..((m + 1) - 1) : k # 0 => k - 1 \in 0..(m - 1) /\ (k - 1) + 1 = k
  OBVIOUS
<1>4. 0 \in 0..((m + 1) - 1)
  OBVIOUS
<1>5. ASSUME NEW x \in RunDown(d, p, m + 1) PROVE x \in {p} \cup RunDown(d, p - n, m)
  <2>1. PICK k \in 0..((m + 1) - 1) : x = Before(d, p, k)
    BY DEF RunDown
  <2>2. CASE k = 0
    BY <1>1, <2>1, <2>2
  <2>3. CASE k # 0
    <3>1. x = Before(d, p - n, k - 1) /\ k - 1 \in 0..(m - 1)
      BY <1>2, <1>3, <2>1, <2>3
    <3> QED
      BY <3>1 DEF RunDown
  <2> QED
    BY <2>2, <2>3
<1>6. ASSUME NEW x \in {p} \cup RunDown(d, p - n, m) PROVE x \in RunDown(d, p, m + 1)
  <2>1. CASE x = p
    BY <1>1, <1>4, <2>1 DEF RunDown
  <2>2. CASE x \in RunDown(d, p - n, m)
    <3>1. PICK k \in 0..(m - 1) : x = Before(d, p - n, k)
      BY <2>2 DEF RunDown
    <3>2. x = Before(d, p, k + 1) /\ k + 1 \in 0..((m + 1) - 1)
      BY <1>2, <3>1
    <3> QED
      BY <3>2 DEF RunDown
  <2> QED
    BY <2>1, <2>2
<1> QED
  BY <1>5, <1>6 DEF n

DownOK(d, from, i, stop, P) ==
  /\ P \subseteq from..i
  /\ \A q \in P : Takes(d, q, stop)
  /\ \A p, q \in P : p < q => p + Len(d) <= q
  /\ AllFree(d, from, stop) =>
       \E m \in 0..(i - (from - Len(d))) :
         P = RunDown(d, i, m) /\ (Before(d, i, m) < from \/ ~At(data, d, Before(d, i, m), stop))

(* Before the part, or where d does not stand, there is nothing. *)
LEMMA DownStop ==
  ASSUME NEW d, Len(d) \in Nat \ {0}, NEW stop \in Nat, NEW from \in Nat, NEW i \in Int,
         i >= from - Len(d), i < from \/ ~At(data, d, i, stop)
  PROVE  DownOK(d, from, i, stop, {})
<1>1. Before(d, i, 0) = i
  BY BeforeSteps
<1>2. RunDown(d, i, 0) = {}
  BY DEF RunDown
<1>3. 0 \in 0..(i - (from - Len(d)))
  <2> DEFINE n == Len(d)
  <2>1. n \in Nat /\ i >= from - n
    OBVIOUS
  <2> HIDE DEF n
  <2>2. 0 \in 0..(i - (from - n))
    BY <2>1
  <2> QED
    BY <2>2 DEF n
<1> QED
  BY <1>1, <1>2, <1>3 DEF DownOK

(* d stands at i, on characters that are taken. *)
LEMMA DownSkip ==
  ASSUME NEW d, NEW stop \in Nat, NEW from \in Nat, NEW i \in from..stop,
         At(data, d, i, stop), ~Free(i, Len(d)), NEW P, DownOK(d, from, i - 1, stop, P)
  PROVE  DownOK(d, from, i, stop, P)
<1>1. ~AllFree(d, from, stop)
  BY DEF AllFree
<1>2. P \subseteq from..i
  <2>1. \A q \in from..(i - 1) : q \in from..i
    OBVIOUS
  <2> QED
    BY <2>1 DEF DownOK
<1> QED
  BY <1>1, <1>2 DEF DownOK

(* The place i is taken, and then what is found before it. *)
LEMMA DownTake ==
  ASSUME NEW d, Len(d) \in Nat \ {0}, NEW stop \in Nat, NEW from \in Nat, NEW i \in from..stop,
         Takes(d, i, stop), NEW P, DownOK(d, from, i - Len(d), stop, P)
  PROVE  DownOK(d, from, i, stop, {i} \cup P)
<1> DEFINE n == Len(d)
           j == i - n
           Q == {i} \cup P
<1>1. n \in Nat \ {0} /\ j \in Int /\ j < i /\ i \in Nat
  OBVIOUS
<1>2. DownOK(d, from, j, stop, P) /\ P \subseteq from..j
  BY DEF DownOK
<1>3. \A m \in Nat : RunDown(d, i, m + 1) = {i} \cup RunDown(d, j, m) /\ Before(d, j, m) = Before(d, i, m + 1)
  <2>1. i \in Int /\ Len(d) \in Nat
    OBVIOUS
  <2>2. \A m \in Nat : RunDown(d, i, m + 1) = {i} \cup RunDown(d, i - Len(d), m)
    BY <2>1, RunDownMore
  <2>3. \A m \in Nat : Before(d, i - Len(d), m) = Before(d, i, m + 1)
    BY <2>1, BeforeSteps
  <2> QED
    BY <2>2, <2>3
<1>4. Q \subseteq from..i
  <2>1. \A q \in from..j : q \in from..i
    BY <1>1
  <2>2. i \in from..i
    OBVIOUS
  <2> QED
    BY <1>2, <2>1, <2>2
<1> HIDE DEF j
<1>5. \A q \in Q : Takes(d, q, stop)
  BY <1>2 DEF DownOK
<1>6. ASSUME NEW p \in Q, NEW q \in Q, p < q PROVE p + n <= q
  <2>1. CASE q = i
    <3>1. p \in P /\ p \in from..j
      BY <1>1, <1>2, <1>6, <2>1
    <3>2. i - n = j
      BY DEF j
    <3> HIDE DEF n
    <3> QED
      BY <1>1, <2>1, <3>1, <3>2
  <2>2. CASE q # i
    <3>1. q \in P /\ q \in from..j
      BY <1>2, <2>2
    <3>2. p \in P
      <4>1. p # i
        BY <3>1, <1>1, <1>6
      <4> QED
        BY <4>1
    <3> QED
      BY <1>2, <1>6, <3>1, <3>2 DEF DownOK
  <2> QED
    BY <2>1, <2>2
<1>7. ASSUME AllFree(d, from, stop)
      PROVE  \E m \in 0..(i - (from - n)) :
               Q = RunDown(d, i, m) /\ (Before(d, i, m) < from \/ ~At(data, d, Before(d, i, m), stop))
  <2>1. PICK m \in 0..(j - (from - n)) :
          P = RunDown(d, j, m) /\ (Before(d, j, m) < from \/ ~At(data, d, Before(d, j, m), stop))
    BY <1>2, <1>7 DEF DownOK
  <2>2. m \in Nat /\ m + 1 \in 0..(i - (from - n))
    <3> HIDE DEF n
    <3> QED
      BY <1>1
  <2>3. Q = RunDown(d, i, m + 1) /\ Before(d, j, m) = Before(d, i, m + 1)
    BY <1>3, <2>1, <2>2
  <2> QED
    BY <2>1, <2>2, <2>3
<1> HIDE DEF Q
<1>8. DownOK(d, from, i, stop, Q)
  BY <1>4, <1>5, <1>6, <1>7 DEF DownOK
<1> QED
  BY <1>8 DEF Q

(* What is found from the right is what is promised. *)
LEMMA DownIs ==
  ASSUME NEW d, Len(d) \in Nat \ {0}, NEW from \in Nat, NEW stop \in Nat, stop >= from - 1,
         NEW down, down = DownBody(d, from, stop, down),
         NEW top, top = stop - Len(d) + 1
  PROVE  DownOK(d, from, top, stop, down[top])
<1> DEFINE n == Len(d)
           D == (from - n)..top
           Bad == {k \in 0..(stop + 1 - from) : ~DownOK(d, from, (from - n) + k, stop, down[(from - n) + k])}
<1>1. n \in Nat \ {0} /\ top \in Int /\ from - n \in Int
  OBVIOUS
<1>2. stop + 1 - from \in Nat /\ (from - n) + (stop + 1 - from) = top
  <2>1. n \in Nat
    OBVIOUS
  <2> HIDE DEF n
  <2>2. (from - n) + (stop + 1 - from) = stop - n + 1
    BY <2>1
  <2> QED
    BY <2>2 DEF n
<1> SUFFICES ASSUME Bad # {} PROVE FALSE
  <2>1. stop + 1 - from \in 0..(stop + 1 - from)
    BY <1>2
  <2> QED
    BY <1>2, <2>1
<1>3. Bad \in SUBSET Nat
  OBVIOUS
<1>4. PICK k \in Bad : \A m \in Bad : k <= m
  <2> HIDE DEF Bad
  <2> QED
    BY <1>3, LeastExists
<1> DEFINE i == (from - n) + k
<1>5. k \in 0..(stop + 1 - from) /\ ~DownOK(d, from, i, stop, down[i])
  BY <1>4
<1>6. ASSUME NEW j \in (from - n)..(i - 1) PROVE DownOK(d, from, j, stop, down[j])
  <2> DEFINE m == j - (from - n)
  <2>1. m \in 0..(stop + 1 - from) /\ (from - n) + m = j /\ ~(k <= m)
    <3> HIDE DEF n
    <3> QED
      BY <1>1, <1>5
  <2> QED
    BY <1>4, <2>1
<1> HIDE DEF Bad
<1>7. i \in (from - n)..top /\ i \in Int
  <2> HIDE DEF n
  <2> QED
    BY <1>1, <1>2, <1>5
<1> HIDE DEF i
<1>8. down[i] = DownBody(d, from, stop, down)[i] /\ i \in (from - n)..(stop - n + 1)
  BY <1>7
<1>9. i >= from => i \in from..stop
  <2>1. i >= from - n /\ i <= stop - n + 1
    BY <1>1, <1>7, <1>8
  <2> HIDE DEF n
  <2> QED
    BY <1>1, <1>7, <2>1
<1>10. i >= from - n
  BY <1>1, <1>7
<1>11. i < from \/ ~At(data, d, i, stop) => DownOK(d, from, i, stop, {})
  BY <1>7, <1>10, DownStop
<1>12. CASE i < from
  <2>1. down[i] = {}
    BY <1>8, <1>12 DEF DownBody
  <2> QED
    BY <1>5, <1>12, <1>11, <2>1
<1>13. CASE i >= from /\ ~At(data, d, i, stop)
  <2>1. ~(i < from)
    BY <1>7, <1>13
  <2>2. down[i] = {}
    BY <1>8, <1>13, <2>1 DEF DownBody
  <2> QED
    BY <1>5, <1>13, <1>11, <2>2
<1>14. CASE i >= from /\ At(data, d, i, stop)
  <2>1. ~(i < from)
    BY <1>7, <1>14
  <2>2. down[i] = IF Free(i, n) THEN {i} \cup down[i - n] ELSE down[i - 1]
    BY <1>8, <1>14, <2>1 DEF DownBody
  <2>3. i - 1 \in (from - n)..(i - 1) /\ i - n \in (from - n)..(i - 1)
    <3> HIDE DEF n
    <3> QED
      BY <1>1, <1>7, <1>14
  <2>4. CASE Free(i, n)
    BY <1>5, <1>6, <1>9, <1>14, <2>2, <2>3, <2>4, DownTake DEF Takes
  <2>5. CASE ~Free(i, n)
    BY <1>5, <1>6, <1>9, <1>14, <2>2, <2>3, <2>5, DownSkip
  <2> QED
    BY <2>4, <2>5
<1>15. i < from \/ i >= from
  BY <1>7
<1> QED
  BY <1>12, <1>13, <1>14, <1>15, Zenon

-----------------------------------------------------------------------------
(* INSPECT: what Found answers. *)

Elig(d, from, stop) == {q \in from..stop : Takes(d, q, stop)}

FoundOK(kind, d, from, stop, P) ==
  /\ P \subseteq Elig(d, from, stop)
  /\ \A p, q \in P : p < q => p + Len(d) <= q
  /\ kind = "ALL" => \A q \in Elig(d, from, stop) : \E p \in P : p <= q /\ q < p + Len(d)
  /\ kind = "FIRST" => P = {q \in Elig(d, from, stop) : \A r \in Elig(d, from, stop) : q <= r}
  /\ kind = "LEADING" /\ AllFree(d, from, stop) =>
       \E m \in 0..(stop + 1 - from) : P = RunUp(d, from, m) /\ ~At(data, d, After(d, from, m), stop)
  /\ kind = "TRAILING" /\ AllFree(d, from, stop) =>
       \E m \in 0..(stop + 1 - from) :
         /\ P = RunDown(d, stop - Len(d) + 1, m)
         /\ \/ Before(d, stop - Len(d) + 1, m) < from
            \/ ~At(data, d, Before(d, stop - Len(d) + 1, m), stop)

(* In a part that is too short there is nothing. *)
LEMMA FoundNone ==
  ASSUME NEW kind, NEW d, Len(d) \in Nat \ {0}, NEW from \in Nat, NEW stop \in Nat, stop >= from - 1,
         stop < from \/ stop - from + 1 < Len(d)
  PROVE  FoundOK(kind, d, from, stop, {})
<1> DEFINE n == Len(d)
           top == stop - n + 1
<1>1. n \in Nat \ {0} /\ top \in Int /\ (stop < from \/ stop - from + 1 < n)
  OBVIOUS
<1>2. \A q \in Nat : q >= from => ~(q + n - 1 <= stop)
  <2> HIDE DEF n
  <2> QED
    BY <1>1
<1>3. top < from
  <2> HIDE DEF n
  <2> QED
    BY <1>1
<1> HIDE DEF n
<1>4. Elig(d, from, stop) = {}
  <2> SUFFICES ASSUME NEW q \in from..stop, At(data, d, q, stop) PROVE FALSE
    BY DEF Elig, Takes
  <2>1. q \in Nat /\ q >= from
    OBVIOUS
  <2> QED
    BY <1>2, <2>1 DEF At, n
<1>5. After(d, from, 0) = from /\ ~At(data, d, from, stop)
  <2>1. ~At(data, d, from, stop)
    BY <1>2 DEF At, n
  <2> QED
    BY <2>1, AfterSteps
<1>6. Before(d, top, 0) = top
  BY <1>1, BeforeSteps DEF n
<1>7. RunUp(d, from, 0) = {} /\ RunDown(d, top, 0) = {}
  BY DEF RunUp, RunDown
<1>8. 0 \in 0..(stop + 1 - from)
  OBVIOUS
<1> HIDE DEF top
<1>9. top = stop - Len(d) + 1
  BY DEF top, n
<1> QED
  BY <1>3, <1>4, <1>5, <1>6, <1>7, <1>8, <1>9 DEF FoundOK

(* What inspect_common finds is what the phrase promises. *)
LEMMA FoundIs ==
  ASSUME NEW kind \in Kinds, NEW d, Len(d) \in Nat \ {0}, NEW from \in Nat, NEW stop \in Nat, stop >= from - 1
  PROVE  FoundOK(kind, d, from, stop, Found(kind, d, from, stop))
<1> DEFINE n == Len(d)
           up == CHOOSE up : up = UpBody(kind, d, from, stop, up)
           down == CHOOSE down : down = DownBody(d, from, stop, down)
           top == stop - n + 1
<1>1. n \in Nat \ {0} /\ top \in Int
  OBVIOUS
<1>2. Found(kind, d, from, stop) =
        IF stop < from \/ stop - from + 1 < n THEN {}
        ELSE IF kind = "TRAILING" THEN down[top] ELSE up[from]
  BY DEF Found, UpBody, DownBody
<1>3. up = UpBody(kind, d, from, stop, up)
  BY UpExists
<1>4. down = DownBody(d, from, stop, down)
  BY DownExists
<1> HIDE DEF up, down
<1>5. CASE stop < from \/ stop - from + 1 < n
  <2>1. Found(kind, d, from, stop) = {}
    BY <1>2, <1>5
  <2> QED
    BY <1>5, <2>1, FoundNone
<1>6. CASE ~(stop < from \/ stop - from + 1 < n) /\ kind # "TRAILING"
  <2> DEFINE P == up[from]
  <2>1. Found(kind, d, from, stop) = P
    BY <1>2, <1>6
  <2>2. UpOK(kind, d, from, stop, P)
    <3>1. kind \in {"ALL", "FIRST", "LEADING"}
      BY <1>6 DEF Kinds
    <3> QED
      BY <1>3, <3>1, UpIs
  <2> HIDE DEF P
  <2>3. FirstOf(d, from, stop) = {q \in Elig(d, from, stop) : \A r \in Elig(d, from, stop) : q <= r}
    BY DEF FirstOf, Elig
  <2>4. FoundOK(kind, d, from, stop, P)
    BY <1>6, <2>2, <2>3 DEF UpOK, FoundOK, Elig
  <2> QED
    BY <2>1, <2>4
<1>7. CASE ~(stop < from \/ stop - from + 1 < n) /\ kind = "TRAILING"
  <2> DEFINE P == down[top]
  <2>1. Found(kind, d, from, stop) = P
    BY <1>2, <1>7
  <2>2. DownOK(d, from, top, stop, P)
    BY <1>4, DownIs
  <2>3. top <= stop /\ top - (from - n) = stop + 1 - from
    <3> HIDE DEF n
    <3> QED
      BY <1>1
  <2> HIDE DEF P, top
  <2>4. P \subseteq Elig(d, from, stop)
    <3>1. \A q \in from..top : q \in from..stop
      BY <1>1, <2>3
    <3> QED
      BY <2>2, <3>1 DEF DownOK, Elig
  <2>5. top = stop - Len(d) + 1
    BY DEF top
  <2>6. AllFree(d, from, stop) =>
          \E m \in 0..(stop + 1 - from) :
            P = RunDown(d, top, m) /\ (Before(d, top, m) < from \/ ~At(data, d, Before(d, top, m), stop))
    BY <2>2, <2>3 DEF DownOK
  <2>7. \A p, q \in P : p < q => p + Len(d) <= q
    BY <2>2 DEF DownOK
  <2>8. FoundOK(kind, d, from, stop, P)
    BY <1>7, <2>4, <2>5, <2>6, <2>7 DEF FoundOK
  <2> QED
    BY <2>1, <2>8
<1> QED
  BY <1>5, <1>6, <1>7

-----------------------------------------------------------------------------
(* INSPECT: what the phrases have taken. *)

IsClaim(c, N, L) ==
  /\ c = [phrase |-> c.phrase, at |-> c.at, size |-> c.size]
  /\ c.phrase \in 1..N /\ c.at \in 1..L /\ c.size \in Nat \ {0} /\ c.at + c.size <= L + 1

Disjoint(c, e) == c.at + c.size <= e.at \/ e.at + e.size <= c.at

Covered(cl, j) == \E c \in cl : Covers(c, j)

(* the claims of N phrases on a field of L characters *)
ClaimsOK(cl, N, L) ==
  /\ IsFiniteSet(cl)
  /\ \A c \in cl : IsClaim(c, N, L)
  /\ \A c, e \in cl : c # e => Disjoint(c, e)

MarksOK(mk, cl, md, L) ==
  /\ DOMAIN mk = 1..L
  /\ \A j \in 1..L : mk[j] = -1 <=> ~Covered(cl, j)
  /\ md = "REPLACING" => \A j \in 1..L : \A c \in cl : Covers(c, j) => mk[j] = 99 + c.phrase

(* places that the next phrase may take, n characters each *)
Placed(P, n, mk, L) ==
  /\ n \in Nat \ {0} /\ P \subseteq 1..L
  /\ \A p \in P : p + n <= L + 1
  /\ \A p \in P : \A j \in p..(p + n - 1) : mk[j] = -1
  /\ \A p, q \in P : p < q => p + n <= q

ClaimOf(N, n, i) == [phrase |-> N + 1, at |-> i, size |-> n]
NewClaims(P, n, N) == {ClaimOf(N, n, i) : i \in P}

MarkAll(mk, P, n, v) == [j \in DOMAIN mk |-> IF \E i \in P : j \in i..(i + n - 1) THEN v ELSE mk[j]]

(* A claim and places on characters that it has not taken do not meet. *)
LEMMA ClaimApart ==
  ASSUME NEW L \in Nat, NEW N \in Nat, NEW c, IsClaim(c, N, L), NEW p \in 1..L, NEW n \in Nat \ {0},
         \A j \in p..(p + n - 1) : ~Covers(c, j)
  PROVE  c.at + c.size <= p \/ p + n <= c.at
<1> DEFINE a == c.at
           s == c.size
<1>1. a \in 1..L /\ s \in Nat \ {0}
  BY DEF IsClaim
<1>2. \A j \in p..(p + n - 1) : ~(j \in a..(a + s - 1))
  BY DEF Covers
<1> HIDE DEF a, s
<1>3. ~(p \in a..(a + s - 1))
  <2>1. p \in p..(p + n - 1)
    OBVIOUS
  <2> QED
    BY <1>2, <2>1
<1>4. a \in p..(p + n - 1) => ~(a \in a..(a + s - 1))
  BY <1>2
<1>5. a + s <= p \/ p + n <= a
  BY <1>1, <1>3, <1>4
<1> QED
  BY <1>5 DEF a, s

(* A phrase takes as many times as it finds places. *)
LEMMA CardinalityOfNew ==
  ASSUME NEW L \in Nat, NEW P \in SUBSET (1..L), NEW n, NEW N
  PROVE  /\ IsFiniteSet(P) /\ IsFiniteSet(NewClaims(P, n, N))
         /\ Cardinality(NewClaims(P, n, N)) = Cardinality(P)
<1> DEFINE new == NewClaims(P, n, N)
           g == [i \in P |-> ClaimOf(N, n, i)]
<1>1. IsFiniteSet(P)
  <2>1. IsFiniteSet(1..L)
    BY FS_Interval
  <2> QED
    BY <2>1, FS_Subset
<1>2. g \in Bijection(P, new)
  <2>1. \A i, j \in P : g[i] = g[j] => i = j
    <3> SUFFICES ASSUME NEW i \in P, NEW j \in P, g[i] = g[j] PROVE i = j
      OBVIOUS
    <3>1. g[i].at = i /\ g[j].at = j
      BY DEF ClaimOf
    <3> QED
      BY <3>1
  <2>2. g \in [P -> new] /\ \A c \in new : \E i \in P : g[i] = c
    BY DEF NewClaims
  <2> HIDE DEF g, new
  <2> QED
    BY <2>1, <2>2 DEF Bijection, Injection, Surjection, IsInjective
<1>3. IsFiniteSet(new) /\ Cardinality(new) = Cardinality(P)
  <2> HIDE DEF g, new
  <2>1. ExistsBijection(P, new)
    BY <1>2 DEF ExistsBijection
  <2> QED
    BY <1>1, <2>1, FS_Bijection
<1> QED
  BY <1>1, <1>3

(* What the next phrase takes is kept apart from what is taken. *)
LEMMA NewClaimsOK ==
  ASSUME NEW L \in Nat, NEW N \in Nat, NEW cl, NEW mk, NEW md, NEW P, NEW n,
         ClaimsOK(cl, N, L), MarksOK(mk, cl, md, L), Placed(P, n, mk, L)
  PROVE  /\ ClaimsOK(cl \cup NewClaims(P, n, N), N + 1, L)
         /\ Cardinality(cl \cup NewClaims(P, n, N)) = Cardinality(cl) + Cardinality(P)
<1> DEFINE new == NewClaims(P, n, N)
<1>1. n \in Nat \ {0} /\ P \in SUBSET (1..L)
  BY DEF Placed
<1>2. IsFiniteSet(P) /\ IsFiniteSet(new) /\ Cardinality(new) = Cardinality(P)
  BY <1>1, CardinalityOfNew
<1>3. IsFiniteSet(cl)
  BY DEF ClaimsOK
<1>4. ASSUME NEW c \in cl PROVE IsClaim(c, N + 1, L)
  <2>1. IsClaim(c, N, L)
    BY DEF ClaimsOK
  <2>2. c.phrase \in 1..N => c.phrase \in 1..(N + 1)
    OBVIOUS
  <2> QED
    BY <2>1, <2>2 DEF IsClaim
<1>5. ASSUME NEW i \in P PROVE IsClaim(ClaimOf(N, n, i), N + 1, L)
  <2> DEFINE c == ClaimOf(N, n, i)
  <2>1. c.phrase = N + 1 /\ c.at = i /\ c.size = n /\ c = [phrase |-> c.phrase, at |-> c.at, size |-> c.size]
    BY DEF ClaimOf
  <2>2. i \in 1..L /\ i + n <= L + 1
    BY DEF Placed
  <2>3. N + 1 \in 1..(N + 1)
    OBVIOUS
  <2> HIDE DEF c
  <2>4. IsClaim(c, N + 1, L)
    BY <1>1, <2>1, <2>2, <2>3 DEF IsClaim
  <2> QED
    BY <2>4 DEF c
<1>6. \A e \in new : IsClaim(e, N + 1, L) /\ e.phrase = N + 1 /\ e.size = n /\ e.at \in P
  BY <1>5 DEF NewClaims, ClaimOf
<1>7. ASSUME NEW c \in cl, NEW e \in new PROVE Disjoint(c, e)
  <2>1. e.at \in P /\ e.size = n /\ IsClaim(c, N, L)
    BY <1>6 DEF ClaimsOK
  <2> DEFINE p == e.at
  <2> HIDE DEF p
  <2>2. p \in P /\ p \in 1..L /\ p + n <= L + 1
    BY <1>1, <2>1 DEF Placed, p
  <2>3. ASSUME NEW j \in p..(p + n - 1) PROVE ~Covers(c, j)
    <3>1. mk[j] = -1
      BY <2>2 DEF Placed
    <3>2. j \in 1..L
      BY <1>1, <2>2
    <3>3. ~Covered(cl, j)
      BY <3>1, <3>2 DEF MarksOK
    <3> QED
      BY <3>3 DEF Covered
  <2>4. c.at + c.size <= p \/ p + n <= c.at
    BY <1>1, <2>1, <2>2, <2>3, ClaimApart
  <2> QED
    BY <2>1, <2>4 DEF Disjoint, p
<1>8. ASSUME NEW c \in new, NEW e \in new, c # e PROVE Disjoint(c, e)
  <2>1. PICK p \in P : c = ClaimOf(N, n, p)
    BY DEF NewClaims
  <2>2. PICK q \in P : e = ClaimOf(N, n, q)
    BY DEF NewClaims
  <2>3. p # q /\ c.at = p /\ c.size = n /\ e.at = q /\ e.size = n
    BY <1>8, <2>1, <2>2 DEF ClaimOf
  <2>4. p \in 1..L /\ q \in 1..L
    BY <1>1
  <2>5. p < q \/ q < p
    BY <2>3, <2>4
  <2>6. p + n <= q \/ q + n <= p
    BY <2>5 DEF Placed
  <2> QED
    BY <2>3, <2>6 DEF Disjoint
<1>9. cl \cap new = {}
  <2> SUFFICES ASSUME NEW c \in cl, c \in new PROVE FALSE
    OBVIOUS
  <2>1. c.phrase \in 1..N /\ c.phrase = N + 1
    BY <1>6 DEF ClaimsOK, IsClaim
  <2> QED
    BY <2>1
<1>10. \A c, e : Disjoint(c, e) <=> Disjoint(e, c)
  BY DEF Disjoint
<1> HIDE DEF new
<1>11. \A c, e \in cl \cup new : c # e => Disjoint(c, e)
  BY <1>7, <1>8, <1>10 DEF ClaimsOK
<1>12. IsFiniteSet(cl \cup new) /\ Cardinality(cl \cup new) = Cardinality(cl) + Cardinality(P)
  <2>1. /\ IsFiniteSet(cl \cup new)
        /\ Cardinality(cl \cup new) = Cardinality(cl) + Cardinality(new) - Cardinality(cl \cap new)
    BY <1>2, <1>3, FS_Union
  <2>2. Cardinality(cl \cap new) = 0
    BY <1>9, FS_EmptySet
  <2>3. Cardinality(cl) \in Nat /\ Cardinality(new) \in Nat
    BY <1>2, <1>3, FS_CardinalityType
  <2> QED
    BY <1>2, <2>1, <2>2, <2>3
<1>13. \A c \in cl \cup new : IsClaim(c, N + 1, L)
  BY <1>4, <1>6
<1> QED
  BY <1>11, <1>12, <1>13 DEF ClaimsOK, new

(* The marks say what is taken, after a phrase as before it. *)
LEMMA NewMarksOK ==
  ASSUME NEW L \in Nat, NEW N \in Nat, NEW cl, NEW mk, NEW md, NEW P, NEW n, NEW v,
         ClaimsOK(cl, N, L), MarksOK(mk, cl, md, L), Placed(P, n, mk, L),
         v # -1, md = "REPLACING" => v = 100 + N
  PROVE  MarksOK(MarkAll(mk, P, n, v), cl \cup NewClaims(P, n, N), md, L)
<1> DEFINE new == NewClaims(P, n, N)
           both == cl \cup new
           nk == MarkAll(mk, P, n, v)
<1>1. n \in Nat \ {0} /\ P \in SUBSET (1..L)
  BY DEF Placed
<1>2. \A i \in P : \A j : Covers(ClaimOf(N, n, i), j) <=> j \in i..(i + n - 1)
  BY DEF Covers, ClaimOf
<1>3. ASSUME NEW j PROVE Covered(new, j) <=> \E i \in P : j \in i..(i + n - 1)
  BY <1>2 DEF Covered, NewClaims
<1>4. \A j : Covered(both, j) <=> Covered(cl, j) \/ Covered(new, j)
  BY DEF Covered
<1>5. DOMAIN nk = 1..L /\ \A j \in 1..L : nk[j] = IF \E i \in P : j \in i..(i + n - 1) THEN v ELSE mk[j]
  BY DEF MarkAll, MarksOK
<1> HIDE DEF nk
<1>6. ASSUME NEW j \in 1..L PROVE nk[j] = -1 <=> ~Covered(both, j)
  <2>1. mk[j] = -1 <=> ~Covered(cl, j)
    BY DEF MarksOK
  <2>2. CASE Covered(new, j)
    <3>1. nk[j] = v
      BY <1>3, <1>5, <2>2
    <3> QED
      BY <1>4, <2>2, <3>1
  <2>3. CASE ~Covered(new, j)
    <3>1. nk[j] = mk[j]
      BY <1>3, <1>5, <2>3
    <3> QED
      BY <1>4, <2>1, <2>3, <3>1
  <2> QED
    BY <2>2, <2>3
<1>7. ASSUME md = "REPLACING", NEW j \in 1..L, NEW c \in both, Covers(c, j) PROVE nk[j] = 99 + c.phrase
  <2>1. CASE c \in new
    <3>1. c.phrase = N + 1
      BY <2>1 DEF NewClaims, ClaimOf
    <3>2. Covered(new, j)
      BY <1>7, <2>1 DEF Covered
    <3>3. nk[j] = v
      BY <1>3, <1>5, <3>2
    <3> QED
      BY <1>7, <3>1, <3>3
  <2>2. CASE c \in cl
    <3>1. Covered(cl, j)
      BY <1>7, <2>2 DEF Covered
    <3>2. mk[j] # -1
      BY <3>1 DEF MarksOK
    <3>3. ~(\E i \in P : j \in i..(i + n - 1))
      BY <3>2 DEF Placed
    <3>4. nk[j] = mk[j]
      BY <1>5, <3>3
    <3> QED
      BY <1>7, <2>2, <3>4 DEF MarksOK
  <2> QED
    BY <2>1, <2>2
<1>8. MarksOK(nk, both, md, L)
  BY <1>5, <1>6, <1>7 DEF MarksOK
<1> QED
  BY <1>8 DEF nk

-----------------------------------------------------------------------------
(* INSPECT: what a phrase has taken is what the statement promises. *)

PlacesIn(cl, n) == {c.at : c \in {e \in cl : e.phrase = n}}

EligibleIn(cl, t, n, d, part) ==
  {q \in part[1]..part[2] :
     /\ At(t, d, q, part[2])
     /\ \A c \in cl : c.phrase < n => c.at + c.size <= q \/ q + Len(d) <= c.at}

LeftIn(cl, n, part) == {j \in part[1]..part[2] : \A c \in cl : c.phrase < n => ~Covers(c, j)}

Leads(P, E, part, size, m) ==
  P = {part[1] + k * size : k \in 0..(m - 1)} /\ part[1] + m * size \notin E
Trails(P, E, part, size, m) ==
  P = {part[2] + 1 - k * size : k \in 1..m} /\ part[2] + 1 - (m + 1) * size \notin E

(* P is what phrase ph, the n-th, is to take where it may take E, or as CHARACTERS Z. *)
TakesWhat(P, E, Z, n, ph, L) ==
  /\ ph.kind # "CHARACTERS" => P \subseteq E
  /\ ph.kind = "ALL" => \A q \in E : \E i \in P : i <= q /\ q < i + Len(ph.d)
  /\ ph.kind = "FIRST" => P = {q \in E : \A r \in E : q <= r}
  /\ ph.kind = "LEADING" /\ n = 1 => \E m \in 0..L : Leads(P, E, ph.part, Len(ph.d), m)
  /\ ph.kind = "TRAILING" /\ n = 1 => \E m \in 0..L : Trails(P, E, ph.part, Len(ph.d), m)
  /\ ph.kind = "CHARACTERS" => P = Z

PhraseOK(cl, t, n, ph) ==
  /\ ph.kind \in Kinds \cup {"CHARACTERS"}
  /\ TakesWhat(PlacesIn(cl, n), EligibleIn(cl, t, n, ph.d, ph.part), LeftIn(cl, n, ph.part), n, ph, Len(t))

(* A later phrase changes nothing of it. *)
LEMMA PhraseStays ==
  ASSUME NEW cl, NEW t, NEW ph, NEW N \in Nat, NEW n \in 1..N, NEW P, NEW size, PhraseOK(cl, t, n, ph)
  PROVE  PhraseOK(cl \cup NewClaims(P, size, N), t, n, ph)
<1> DEFINE new == NewClaims(P, size, N)
<1>1. \A c \in new : c.phrase = N + 1
  BY DEF NewClaims, ClaimOf
<1>2. N + 1 # n /\ ~(N + 1 < n)
  OBVIOUS
<1> HIDE DEF new
<1>3. PlacesIn(cl \cup new, n) = PlacesIn(cl, n)
  BY <1>1, <1>2 DEF PlacesIn
<1>4. EligibleIn(cl \cup new, t, n, ph.d, ph.part) = EligibleIn(cl, t, n, ph.d, ph.part)
  BY <1>1, <1>2 DEF EligibleIn
<1>5. LeftIn(cl \cup new, n, ph.part) = LeftIn(cl, n, ph.part)
  BY <1>1, <1>2 DEF LeftIn
<1>6. PhraseOK(cl \cup new, t, n, ph)
  BY <1>3, <1>4, <1>5 DEF PhraseOK
<1> QED
  BY <1>6 DEF new

(* Free characters are those that no claim covers. *)
LEMMA FreeIs ==
  ASSUME NEW L \in Nat, NEW N \in Nat, NEW cl, NEW md, ClaimsOK(cl, N, L), MarksOK(mark, cl, md, L),
         NEW q \in 1..L, NEW n \in Nat \ {0}, q + n <= L + 1
  PROVE  Free(q, n) <=> \A c \in cl : c.at + c.size <= q \/ q + n <= c.at
<1>1. ASSUME NEW j \in q..(q + n - 1) PROVE mark[j] = -1 <=> ~Covered(cl, j)
  <2>1. j \in 1..L
    OBVIOUS
  <2> QED
    BY <2>1 DEF MarksOK
<1>2. ASSUME Free(q, n), NEW c \in cl PROVE c.at + c.size <= q \/ q + n <= c.at
  <2>1. \A j \in q..(q + n - 1) : ~Covers(c, j)
    BY <1>1, <1>2 DEF Free, Covered
  <2>2. IsClaim(c, N, L)
    BY DEF ClaimsOK
  <2> QED
    BY <2>1, <2>2, ClaimApart
<1>3. ASSUME \A c \in cl : c.at + c.size <= q \/ q + n <= c.at, NEW j \in q..(q + n - 1), NEW c \in cl
      PROVE  ~Covers(c, j)
  <2> DEFINE a == c.at
             s == c.size
  <2>1. a \in 1..L /\ s \in Nat \ {0} /\ (a + s <= q \/ q + n <= a)
    BY <1>3 DEF ClaimsOK, IsClaim
  <2>2. Covers(c, j) <=> j \in a..(a + s - 1)
    BY DEF Covers
  <2> HIDE DEF a, s
  <2> QED
    BY <2>1, <2>2
<1>4. (\A c \in cl : c.at + c.size <= q \/ q + n <= c.at) => Free(q, n)
  BY <1>1, <1>3 DEF Free, Covered
<1> QED
  BY <1>2, <1>4

IsNew(new, P, size, N) == new = NewClaims(P, size, N)

NewIsLast(cl, new, P, N) ==
  /\ PlacesIn(cl \cup new, N + 1) = P
  /\ \A c \in cl : c.phrase < N + 1
  /\ \A c \in new : ~(c.phrase < N + 1)

(* Where the next phrase takes the places P. *)
LEMMA PlacesNew ==
  ASSUME NEW N \in Nat, NEW L, NEW cl, ClaimsOK(cl, N, L), NEW P, NEW size, NEW new, IsNew(new, P, size, N)
  PROVE  NewIsLast(cl, new, P, N)
<1> new = NewClaims(P, size, N)
  BY DEF IsNew
<1>1. \A c \in new : c.phrase = N + 1 /\ c.at \in P
  BY DEF NewClaims, ClaimOf
<1>2. ASSUME NEW i \in P PROVE \E c \in new : c.at = i
  <2>1. ClaimOf(N, size, i) \in NewClaims(P, size, N) /\ ClaimOf(N, size, i).at = i
    BY DEF NewClaims, ClaimOf
  <2> QED
    BY <2>1
<1>3. ASSUME NEW c \in cl PROVE c.phrase < N + 1 /\ c.phrase # N + 1
  <2>1. c.phrase \in 1..N
    BY DEF ClaimsOK, IsClaim
  <2> QED
    BY <2>1
<1>4. ~(N + 1 < N + 1)
  OBVIOUS
<1>5. PlacesIn(cl \cup new, N + 1) = P
  BY <1>1, <1>2, <1>3 DEF PlacesIn
<1> QED
  BY <1>1, <1>3, <1>4, <1>5 DEF NewIsLast

(* d is to be looked for in part, when N phrases have taken the claims cl *)
LooksFor(N, L, cl, md, d, part) ==
  /\ N \in Nat /\ L \in Nat /\ Len(data) = L /\ ClaimsOK(cl, N, L) /\ MarksOK(mark, cl, md, L)
  /\ Len(d) \in Nat \ {0} /\ IsPart(part, L)

(* What a phrase may take are the free places where its operand stands. *)
LEMMA EligibleNew ==
  ASSUME NEW N \in Nat, NEW L \in Nat, NEW cl, NEW md, NEW d, NEW part, LooksFor(N, L, cl, md, d, part),
         NEW P, NEW new, IsNew(new, P, Len(d), N)
  PROVE  EligibleIn(cl \cup new, data, N + 1, d, part) = Elig(d, part[1], part[2])
<1> /\ N \in Nat /\ L \in Nat /\ Len(data) = L /\ ClaimsOK(cl, N, L) /\ MarksOK(mark, cl, md, L)
    /\ Len(d) \in Nat \ {0} /\ IsPart(part, L)
  BY DEF LooksFor
<1> DEFINE n == Len(d)
<1>1. (\A c \in cl : c.phrase < N + 1) /\ (\A c \in new : ~(c.phrase < N + 1))
  BY PlacesNew DEF NewIsLast
<1>2. n \in Nat \ {0} /\ part[1] \in 1..(L + 1) /\ part[2] \in 0..L
  BY DEF IsPart
<1>3. ASSUME NEW q \in part[1]..part[2], At(data, d, q, part[2])
      PROVE  Free(q, n) <=> \A c \in cl : c.at + c.size <= q \/ q + n <= c.at
  <2>1. q + n - 1 <= part[2]
    BY <1>3 DEF At
  <2> HIDE DEF n
  <2>2. q \in 1..L /\ q + n <= L + 1
    BY <1>2, <2>1
  <2> QED
    BY <1>2, <2>2, FreeIs
<1>4. EligibleIn(cl \cup new, data, N + 1, d, part) =
        {q \in part[1]..part[2] : At(data, d, q, part[2]) /\ \A c \in cl : c.at + c.size <= q \/ q + Len(d) <= c.at}
  BY <1>1 DEF EligibleIn
<1> QED
  BY <1>3, <1>4 DEF Elig, Takes

(* What Found answers may be taken. *)
LEMMA FoundPlaced ==
  ASSUME NEW L \in Nat, NEW d, Len(d) \in Nat \ {0}, NEW part, IsPart(part, L),
         NEW kind, NEW P, FoundOK(kind, d, part[1], part[2], P)
  PROVE  Placed(P, Len(d), mark, L)
<1> DEFINE n == Len(d)
<1>1. n \in Nat \ {0} /\ part[1] \in 1..(L + 1) /\ part[2] \in 0..L
  BY DEF IsPart
<1>2. ASSUME NEW p \in P
      PROVE  p \in 1..L /\ p + n <= L + 1 /\ \A j \in p..(p + n - 1) : mark[j] = -1
  <2>1. p \in part[1]..part[2] /\ p + n - 1 <= part[2] /\ Free(p, n)
    BY DEF FoundOK, Elig, Takes, At
  <2>2. \A j \in p..(p + n - 1) : mark[j] = -1
    BY <2>1 DEF Free
  <2> HIDE DEF n
  <2> QED
    BY <1>1, <2>1, <2>2
<1>3. \A p, q \in P : p < q => p + n <= q
  BY DEF FoundOK
<1> QED
  BY <1>1, <1>2, <1>3 DEF Placed

(* A run that begins at the end of the part, counted the other way. *)
LEMMA RunDownIs ==
  ASSUME NEW d, Len(d) \in Nat, NEW stop \in Nat, NEW m \in Nat
  PROVE  /\ RunDown(d, stop - Len(d) + 1, m) = {stop + 1 - k * Len(d) : k \in 1..m}
         /\ Before(d, stop - Len(d) + 1, m) = stop + 1 - (m + 1) * Len(d)
<1> DEFINE n == Len(d)
           top == stop - n + 1
<1>1. n \in Nat
  OBVIOUS
<1> HIDE DEF n
<1>2. ASSUME NEW k \in Nat PROVE top - k * n = stop + 1 - (k + 1) * n
  <2> DEFINE x == k * n
             y == (k + 1) * n
  <2>1. x \in Nat /\ y = x + n
    BY <1>1
  <2> HIDE DEF x, y
  <2>2. top - x = stop + 1 - y
    BY <1>1, <2>1
  <2> QED
    BY <2>2 DEF x, y
<1> HIDE DEF top
<1>3. \A k \in Nat : Before(d, top, k) = stop + 1 - (k + 1) * n
  BY <1>2 DEF Before, n
<1>4. RunDown(d, top, m) = {Before(d, top, k) : k \in 0..(m - 1)}
  BY DEF RunDown
<1>5. ASSUME NEW k \in 0..(m - 1) PROVE k \in Nat /\ k + 1 \in 1..m
  OBVIOUS
<1>6. ASSUME NEW k \in 1..m PROVE k - 1 \in 0..(m - 1) /\ k - 1 \in Nat /\ (k - 1) + 1 = k
  OBVIOUS
<1>7. ASSUME NEW k \in 1..m PROVE stop + 1 - k * n \in RunDown(d, top, m)
  <2>1. Before(d, top, k - 1) = stop + 1 - k * n
    BY <1>3, <1>6
  <2> QED
    BY <1>4, <1>6, <2>1
<1>8. ASSUME NEW x \in RunDown(d, top, m) PROVE x \in {stop + 1 - k * n : k \in 1..m}
  <2>1. PICK k \in 0..(m - 1) : x = Before(d, top, k)
    BY <1>4
  <2>2. x = stop + 1 - (k + 1) * n
    BY <1>3, <1>5, <2>1
  <2> QED
    BY <1>5, <2>2
<1>9. RunDown(d, top, m) = {stop + 1 - k * n : k \in 1..m}
  BY <1>7, <1>8
<1> QED
  BY <1>3, <1>9 DEF top, n

(* The places that the next phrase finds are what it promises. *)
LEMMA FoundPhraseOK ==
  ASSUME NEW N \in Nat, NEW L \in Nat, NEW cl, NEW md, NEW d, NEW part, LooksFor(N, L, cl, md, d, part),
         NEW kind \in Kinds, NEW P, FoundOK(kind, d, part[1], part[2], P)
  PROVE  PhraseOK(cl \cup NewClaims(P, Len(d), N), data, N + 1, [kind |-> kind, d |-> d, part |-> part])
<1> DEFINE n == Len(d)
           new == NewClaims(P, n, N)
           both == cl \cup new
           ph == [kind |-> kind, d |-> d, part |-> part]
           from == part[1]
           stop == part[2]
           E == Elig(d, from, stop)
           Z == LeftIn(both, N + 1, part)
<1>0. IsNew(new, P, n, N)
  BY DEF IsNew
<1> HIDE DEF new
<1>a. /\ N \in Nat /\ L \in Nat /\ Len(data) = L /\ ClaimsOK(cl, N, L) /\ MarksOK(mark, cl, md, L)
      /\ n \in Nat \ {0} /\ IsPart(part, L)
  BY DEF LooksFor
<1>1. PlacesIn(both, N + 1) = P
  <2>1. NewIsLast(cl, new, P, N)
    BY <1>0, <1>a, PlacesNew, Zenon
  <2> QED
    BY <2>1 DEF NewIsLast
<1>2. EligibleIn(both, data, N + 1, d, part) = E
  BY <1>0, EligibleNew
<1>3. ph.kind = kind /\ ph.d = d /\ ph.part = part /\ kind \in Kinds /\ kind # "CHARACTERS"
  BY DEF Kinds
<1>4. from \in 1..(L + 1) /\ stop \in 0..L /\ stop >= from - 1
  BY <1>a DEF IsPart
<1>5. \A m \in 0..(stop + 1 - from) : m \in 0..L
  BY <1>a, <1>4
<1>6. ASSUME N + 1 = 1 PROVE AllFree(d, from, stop)
  <2>1. cl = {}
    <3> SUFFICES ASSUME NEW c \in cl PROVE FALSE
      OBVIOUS
    <3>1. c.phrase \in 1..0
      BY <1>a, <1>6 DEF ClaimsOK, IsClaim
    <3> QED
      BY <3>1
  <2>2. \A j \in 1..L : mark[j] = -1
    BY <1>a, <2>1 DEF MarksOK, Covered
  <2>3. ASSUME NEW q \in from..stop, At(data, d, q, stop), NEW j \in q..(q + n - 1) PROVE j \in 1..L
    <3>1. n \in Nat \ {0} /\ q + n - 1 <= stop
      BY <1>a, <2>3 DEF At
    <3> HIDE DEF n, from, stop
    <3> QED
      BY <1>a, <1>4, <2>3, <3>1
  <2> QED
    BY <2>2, <2>3 DEF AllFree, Free
<1>7. ASSUME kind = "LEADING", N + 1 = 1 PROVE \E m \in 0..L : Leads(P, E, part, n, m)
  <2>1. PICK m \in 0..(stop + 1 - from) : P = RunUp(d, from, m) /\ ~At(data, d, After(d, from, m), stop)
    BY <1>6, <1>7 DEF FoundOK
  <2>2. After(d, from, m) \notin E
    BY <2>1 DEF Elig, Takes
  <2>3. Leads(P, E, part, n, m)
    BY <2>1, <2>2 DEF Leads, RunUp, After
  <2> QED
    BY <1>5, <2>3
<1>8. ASSUME kind = "TRAILING", N + 1 = 1 PROVE \E m \in 0..L : Trails(P, E, part, n, m)
  <2>1. PICK m \in 0..(stop + 1 - from) :
          /\ P = RunDown(d, stop - n + 1, m)
          /\ \/ Before(d, stop - n + 1, m) < from
             \/ ~At(data, d, Before(d, stop - n + 1, m), stop)
    BY <1>6, <1>8 DEF FoundOK
  <2>2. m \in Nat /\ n \in Nat /\ stop \in Nat
    BY <1>a, <1>4
  <2>3. P = {stop + 1 - k * n : k \in 1..m} /\ Before(d, stop - n + 1, m) = stop + 1 - (m + 1) * n
    <3> HIDE DEF stop
    <3>1. /\ RunDown(d, stop - n + 1, m) = {stop + 1 - k * n : k \in 1..m}
          /\ Before(d, stop - n + 1, m) = stop + 1 - (m + 1) * n
      BY <2>2, RunDownIs
    <3> QED
      BY <2>1, <3>1, Zenon
  <2> DEFINE x == stop + 1 - (m + 1) * n
  <2>4. x \notin E
    <3>1. x < from \/ ~At(data, d, x, stop)
      BY <2>1, <2>3
    <3> HIDE DEF x, stop, from
    <3> SUFFICES ASSUME x \in from..stop, At(data, d, x, stop) PROVE FALSE
      BY DEF Elig, Takes
    <3>2. ~(x < from)
      BY <1>a, <1>4
    <3> QED
      BY <3>1, <3>2
  <2>5. Trails(P, E, part, n, m)
    BY <2>3, <2>4 DEF Trails
  <2> QED
    BY <1>5, <2>5
<1>9. P \subseteq E
  BY DEF FoundOK
<1>10. /\ kind = "ALL" => \A q \in E : \E i \in P : i <= q /\ q < i + n
       /\ kind = "FIRST" => P = {q \in E : \A r \in E : q <= r}
  BY DEF FoundOK
<1> HIDE DEF n, both, ph, from, stop, E, Z
<1>11. TakesWhat(P, E, Z, N + 1, ph, L)
  BY <1>3, <1>7, <1>8, <1>9, <1>10 DEF TakesWhat, n
<1>12. PhraseOK(both, data, N + 1, ph)
  BY <1>1, <1>2, <1>3, <1>11, <1>a DEF PhraseOK, Z
<1> QED
  BY <1>12 DEF both, new, ph, n

IsLeft(P, part) == P = {i \in part[1]..part[2] : mark[i] = -1}

(* CHARACTERS takes what is left. *)
LEMMA LeftPhraseOK ==
  ASSUME NEW N \in Nat, NEW L \in Nat, NEW cl, NEW md, ClaimsOK(cl, N, L), MarksOK(mark, cl, md, L),
         NEW t, NEW part, IsPart(part, L), NEW P, IsLeft(P, part)
  PROVE  /\ Placed(P, 1, mark, L)
         /\ PhraseOK(cl \cup NewClaims(P, 1, N), t, N + 1, [kind |-> "CHARACTERS", d |-> <<>>, part |-> part])
<1> DEFINE new == NewClaims(P, 1, N)
           both == cl \cup new
           ph == [kind |-> "CHARACTERS", d |-> <<>>, part |-> part]
<1>1. part[1] \in 1..(L + 1) /\ part[2] \in 0..L
  BY DEF IsPart
<1>2. \A i \in part[1]..part[2] : i \in 1..L
  BY <1>1
<1>3. Placed(P, 1, mark, L)
  <2>1. ASSUME NEW p \in P
        PROVE  p \in 1..L /\ p + 1 <= L + 1 /\ \A j \in p..(p + 1 - 1) : mark[j] = -1
    <3>1. p \in 1..L /\ mark[p] = -1
      BY <1>2 DEF IsLeft
    <3>2. p..(p + 1 - 1) = {p}
      BY <3>1
    <3> QED
      BY <3>1, <3>2
  <2>2. \A p, q \in P : p < q => p + 1 <= q
    BY <2>1
  <2> HIDE DEF new
  <2> QED
    BY <2>1, <2>2 DEF Placed
<1>4. PlacesIn(both, N + 1) = P /\ (\A c \in cl : c.phrase < N + 1) /\ (\A c \in new : ~(c.phrase < N + 1))
  <2>1. IsNew(new, P, 1, N)
    BY DEF IsNew
  <2> HIDE DEF new
  <2> QED
    BY <2>1, PlacesNew DEF NewIsLast
<1>5. \A i \in part[1]..part[2] : mark[i] = -1 <=> \A c \in cl : ~Covers(c, i)
  BY <1>2 DEF MarksOK, Covered
<1> HIDE DEF new
<1>6. LeftIn(both, N + 1, part) = P
  BY <1>4, <1>5 DEF LeftIn, IsLeft
<1>7. ph.kind = "CHARACTERS" /\ ph.part = part
  OBVIOUS
<1> HIDE DEF both, ph
<1>8. PhraseOK(both, t, N + 1, ph)
  BY <1>4, <1>6, <1>7 DEF PhraseOK, TakesWhat
<1> QED
  BY <1>3, <1>8 DEF both, ph, new

-----------------------------------------------------------------------------
(* INSPECT CONVERTING: one turn after the other. *)

Greatest(s) == CHOOSE x \in s : \A y \in s : x >= y

(* The greatest number of a set. *)
LEMMA GreatestIs ==
  ASSUME NEW n \in Nat, NEW s \in SUBSET (1..n), s # {}
  PROVE  Greatest(s) \in s /\ \A y \in s : Greatest(s) >= y
<1>1. s \in SUBSET (0..n)
  OBVIOUS
<1>2. PICK g \in s : \A m \in s : g >= m
  BY <1>1, GreatestExists
<1> QED
  BY <1>2 DEF Greatest

Turns(from, to, part) ==
  FoldLeft(LAMBDA r, j : Converted(from, to, part, r, j),
           [data |-> data, mark |-> mark], [j \in DOMAIN from |-> j])

TurnsBody(from, to, part, h) ==
  [s \in SUBSET DOMAIN from |->
     IF s = {} THEN [data |-> data, mark |-> mark]
     ELSE Converted(from, to, part, h[s \ {Greatest(s)}], Greatest(s))]

(* the fields and marks a turn can leave behind *)
States(L) == [data : [1..L -> Nat], mark : [1..L -> Int]]

(* A turn leaves a field and marks behind. *)
LEMMA ConvertedType ==
  ASSUME NEW L \in Nat, NEW from, NEW to \in Seq(Nat), to # <<>>, NEW part, IsPart(part, L),
         NEW s \in States(L), NEW j \in Nat \ {0}
  PROVE  Converted(from, to, part, s, j) \in States(L)
<1> DEFINE r == Converted(from, to, part, s, j)
           k == IF j > Len(to) THEN Len(to) ELSE j
           hit == {i \in part[1]..part[2] : s.data[i] = from[j] /\ s.mark[i - part[1] + 1] = -1}
<1>1. s.data \in [1..L -> Nat] /\ s.mark \in [1..L -> Int]
  BY DEF States
<1>2. to[k] \in Nat
  <2>1. Len(to) \in Nat /\ Len(to) # 0 /\ to \in [1..Len(to) -> Nat]
    OBVIOUS
  <2>2. k \in 1..Len(to)
    BY <2>1
  <2> QED
    BY <2>1, <2>2
<1>3. r = [data |-> [i \in DOMAIN s.data |-> IF i \in hit THEN to[k] ELSE s.data[i]],
           mark |-> [i \in DOMAIN s.mark |-> IF i + part[1] - 1 \in hit THEN 1 ELSE s.mark[i]]]
  BY DEF Converted
<1> HIDE DEF hit, k, r
<1>4. [i \in DOMAIN s.data |-> IF i \in hit THEN to[k] ELSE s.data[i]] \in [1..L -> Nat]
  BY <1>1, <1>2
<1>5. [i \in DOMAIN s.mark |-> IF i + part[1] - 1 \in hit THEN 1 ELSE s.mark[i]] \in [1..L -> Int]
  BY <1>1
<1>6. r \in States(L)
  BY <1>3, <1>4, <1>5 DEF States
<1> QED
  BY <1>6 DEF r

(* The turns are well defined. *)
LEMMA TurnsExist ==
  ASSUME NEW from \in Seq(Nat), NEW to \in Seq(Nat), to # <<>>, NEW L \in Nat, NEW part, IsPart(part, L),
         [data |-> data, mark |-> mark] \in States(L)
  PROVE  \E h : h = TurnsBody(from, to, part, h)
<1> DEFINE n == Len(from)
           D == SUBSET DOMAIN from
           S == States(L)
           rank == [s \in D |-> IF s = {} THEN 0 ELSE Greatest(s)]
           body == [h \in [D -> S] |-> TurnsBody(from, to, part, h)]
           base == [data |-> data, mark |-> mark]
<1>1. n \in Nat /\ DOMAIN from = 1..n /\ base \in S
  OBVIOUS
<1>2. D = SUBSET (1..n)
  BY <1>1
<1> HIDE DEF n, D
<1>3. ASSUME NEW s \in D, s # {}
      PROVE  Greatest(s) \in 1..n /\ Greatest(s) \in s /\ s \ {Greatest(s)} \in D /\ \A y \in s : Greatest(s) >= y
  BY <1>1, <1>2, <1>3, GreatestIs
<1>4. rank \in [D -> 0..n]
  <2> SUFFICES ASSUME NEW s \in D PROVE (IF s = {} THEN 0 ELSE Greatest(s)) \in 0..n
    OBVIOUS
  <2>1. CASE s = {}
    BY <1>1, <2>1
  <2>2. CASE s # {}
    <3>1. Greatest(s) \in 1..n
      BY <1>3, <2>2
    <3> QED
      BY <1>1, <2>2, <3>1
  <2> QED
    BY <2>1, <2>2
<1>5. ASSUME NEW s \in D, s # {} PROVE rank[s \ {Greatest(s)}] < rank[s]
  <2> DEFINE g == Greatest(s)
             r == s \ {g}
  <2>1. g \in 1..n /\ r \in D /\ rank[s] = g
    BY <1>3, <1>5
  <2>2. CASE r = {}
    <3>1. rank[r] = 0
      BY <2>1, <2>2
    <3> QED
      BY <2>1, <3>1
  <2>3. CASE r # {}
    <3>1. Greatest(r) \in r /\ Greatest(r) \in 1..n
      BY <1>3, <2>1, <2>3
    <3>2. rank[r] = Greatest(r)
      BY <2>1, <2>3
    <3>3. Greatest(r) # g /\ g >= Greatest(r)
      BY <1>3, <1>5, <3>1
    <3> HIDE DEF g, r
    <3>4. Greatest(r) < g
      BY <2>1, <3>1, <3>3
    <3> QED
      BY <2>1, <3>2, <3>4 DEF g, r
  <2> QED
    BY <2>2, <2>3
<1>6. ASSUME NEW h, NEW s \in D
      PROVE  TurnsBody(from, to, part, h)[s] =
               IF s = {} THEN base ELSE Converted(from, to, part, h[s \ {Greatest(s)}], Greatest(s))
  BY DEF TurnsBody, D
<1> HIDE DEF rank, S, base
<1>7. ASSUME NEW h \in [D -> S] PROVE TurnsBody(from, to, part, h) \in [D -> S]
  <2>1. ASSUME NEW s \in D PROVE TurnsBody(from, to, part, h)[s] \in S
    <3>1. CASE s = {}
      BY <1>1, <1>6, <3>1
    <3>2. CASE s # {}
      <4> DEFINE r == s \ {Greatest(s)}
      <4>1. r \in D /\ Greatest(s) \in Nat \ {0}
        <5>1. Greatest(s) \in 1..n /\ r \in D
          BY <1>3, <3>2
        <5> QED
          BY <1>1, <5>1
      <4>2. h[r] \in S
        BY <4>1
      <4>3. Converted(from, to, part, h[r], Greatest(s)) \in S
        BY <4>1, <4>2, ConvertedType DEF S
      <4> QED
        BY <1>6, <3>2, <4>3
    <3> QED
      BY <3>1, <3>2
  <2>2. DOMAIN TurnsBody(from, to, part, h) = D
    BY DEF TurnsBody, D
  <2>3. TurnsBody(from, to, part, h) = [s \in D |-> TurnsBody(from, to, part, h)[s]]
    BY DEF TurnsBody, D
  <2> DEFINE b == TurnsBody(from, to, part, h)
  <2> HIDE DEF b
  <2>4. b = [s \in D |-> b[s]] /\ \A s \in D : b[s] \in S
    BY <2>1, <2>3 DEF b
  <2>5. b \in [D -> S]
    BY <2>4
  <2> QED
    BY <2>5 DEF b
<1>8. body \in [[D -> S] -> [D -> S]]
  BY <1>7
<1>9. Ranked(D, S, rank, body)
  <2> SUFFICES ASSUME NEW f \in [D -> S], NEW g \in [D -> S], NEW s \in D,
                      \A y \in D : rank[y] < rank[s] => f[y] = g[y]
               PROVE  body[f][s] = body[g][s]
    BY DEF Ranked
  <2>1. body[f] = TurnsBody(from, to, part, f) /\ body[g] = TurnsBody(from, to, part, g)
    OBVIOUS
  <2>2. s # {} => f[s \ {Greatest(s)}] = g[s \ {Greatest(s)}]
    BY <1>3, <1>5
  <2> HIDE DEF body
  <2>3. CASE s = {}
    <3>1. body[f][s] = base
      BY <1>6, <2>1, <2>3
    <3>2. body[g][s] = base
      BY <1>6, <2>1, <2>3
    <3> QED
      BY <3>1, <3>2
  <2>4. CASE s # {}
    <3>1. body[f][s] = Converted(from, to, part, f[s \ {Greatest(s)}], Greatest(s))
      BY <1>6, <2>1, <2>4
    <3>2. body[g][s] = Converted(from, to, part, g[s \ {Greatest(s)}], Greatest(s))
      BY <1>6, <2>1, <2>4
    <3> QED
      BY <2>2, <2>4, <3>1, <3>2
  <2> QED
    BY <2>3, <2>4
<1>10. Recursion(n, D, S, base, rank, body)
  <2> HIDE DEF body
  <2> QED
    BY <1>1, <1>4, <1>8, <1>9 DEF Recursion
<1>11. PICK f \in [D -> S] : f = body[f]
  <2> HIDE DEF body
  <2> QED
    BY <1>10, RankedRecursion
<1> QED
  BY <1>11

(* The turns are taken from the first to the last. *)
LEMMA TurnsAre ==
  ASSUME NEW from \in Seq(Nat), NEW to \in Seq(Nat), to # <<>>, NEW L \in Nat, NEW part, IsPart(part, L),
         [data |-> data, mark |-> mark] \in States(L)
  PROVE  \E h : h = TurnsBody(from, to, part, h) /\ Turns(from, to, part) = h[DOMAIN from]
<1> DEFINE seq == [j \in DOMAIN from |-> j]
           base == [data |-> data, mark |-> mark]
           Body(h) == [s \in SUBSET DOMAIN seq |-> IF s = {} THEN base
                         ELSE Converted(from, to, part, h[s \ {CHOOSE x \in s : \A y \in s : x >= y}],
                                        seq[CHOOSE x \in s : \A y \in s : x >= y])]
           iter == CHOOSE iter : iter = Body(iter)
<1>1. Turns(from, to, part) = iter[DOMAIN seq]
  BY DEF Turns, FoldLeft, MapThenFoldSet, Max
<1>2. DOMAIN seq = DOMAIN from
  OBVIOUS
<1>3. ASSUME NEW h PROVE Body(h) = TurnsBody(from, to, part, h)
  <2>1. ASSUME NEW s \in SUBSET DOMAIN from, s # {}
        PROVE  seq[CHOOSE x \in s : \A y \in s : x >= y] = Greatest(s)
    <3>1. Len(from) \in Nat /\ DOMAIN from = 1..Len(from)
      OBVIOUS
    <3>2. Greatest(s) \in DOMAIN from
      BY <2>1, <3>1, GreatestIs
    <3> QED
      BY <3>2 DEF Greatest
  <2> HIDE DEF seq
  <2> DEFINE D == SUBSET DOMAIN from
             F(s) == IF s = {} THEN base
                     ELSE Converted(from, to, part, h[s \ {Greatest(s)}], seq[Greatest(s)])
             G(s) == IF s = {} THEN base
                     ELSE Converted(from, to, part, h[s \ {Greatest(s)}], Greatest(s))
  <2>2. Body(h) = [s \in D |-> F(s)]
    BY <1>2 DEF Greatest
  <2>3. TurnsBody(from, to, part, h) = [s \in D |-> G(s)]
    BY DEF TurnsBody
  <2>4. ASSUME NEW s \in D PROVE F(s) = G(s)
    <3>1. s # {} => seq[Greatest(s)] = Greatest(s)
      BY <2>1 DEF Greatest
    <3> QED
      BY <3>1
  <2> HIDE DEF Body, F, G
  <2> QED
    BY <2>2, <2>3, <2>4
<1> HIDE DEF Body
<1>4. PICK h : h = TurnsBody(from, to, part, h)
  BY TurnsExist
<1>5. h = Body(h)
  BY <1>3, <1>4
<1>6. iter = Body(iter)
  BY <1>5
<1> HIDE DEF iter
<1> QED
  BY <1>1, <1>2, <1>3, <1>6

(* one of the first k characters of from is c *)
HitBy(from, k, c) == \E j \in 1..k : from[j] = c

FirstHit(from, c) == CHOOSE k \in DOMAIN from : from[k] = c /\ \A m \in 1..(k - 1) : from[m] # c

PutBy(to, j) == to[IF j > Len(to) THEN Len(to) ELSE j]

(* what k turns have made of the field t *)
TurnedTo(from, to, part, t, s, k) ==
  /\ \A i \in DOMAIN t :
       s.data[i] = IF i \in part[1]..part[2] /\ HitBy(from, k, t[i]) THEN PutBy(to, FirstHit(from, t[i])) ELSE t[i]
  /\ \A i \in part[1]..part[2] : s.mark[i - part[1] + 1] = -1 <=> ~HitBy(from, k, t[i])

(* The first character of from that is c. *)
LEMMA FirstHitIs ==
  ASSUME NEW from \in Seq(Nat), NEW c, NEW k \in 1..Len(from), from[k] = c, ~HitBy(from, k - 1, c)
  PROVE  FirstHit(from, c) = k
<1>1. Len(from) \in Nat /\ DOMAIN from = 1..Len(from)
  OBVIOUS
<1>2. \A m \in 1..(k - 1) : from[m] # c
  BY DEF HitBy
<1>3. ASSUME NEW j \in DOMAIN from, from[j] = c, \A m \in 1..(j - 1) : from[m] # c PROVE j = k
  <2>1. ~(j < k)
    <3> SUFFICES ASSUME j < k PROVE FALSE
      OBVIOUS
    <3>1. j \in 1..(k - 1)
      BY <1>1
    <3> QED
      BY <1>2, <1>3, <3>1
  <2>2. ~(k < j)
    <3> SUFFICES ASSUME k < j PROVE FALSE
      OBVIOUS
    <3>1. k \in 1..(j - 1)
      BY <1>1
    <3> QED
      BY <1>3, <3>1
  <2> QED
    BY <1>1, <2>1, <2>2
<1>4. k \in DOMAIN from
  BY <1>1
<1> QED
  BY <1>2, <1>3, <1>4 DEF FirstHit

(* One turn. *)
LEMMA TurnStep ==
  ASSUME NEW L \in Nat, NEW from \in Seq(Nat), NEW to, NEW part, IsPart(part, L),
         NEW t \in Seq(Nat), Len(t) = L, NEW s \in States(L), NEW k \in 1..Len(from),
         TurnedTo(from, to, part, t, s, k - 1)
  PROVE  TurnedTo(from, to, part, t, Converted(from, to, part, s, k), k)
<1> DEFINE r == Converted(from, to, part, s, k)
           hit == {i \in part[1]..part[2] : s.data[i] = from[k] /\ s.mark[i - part[1] + 1] = -1}
           a == part[1]
           b == part[2]
<1>1. s.data \in [1..L -> Nat] /\ s.mark \in [1..L -> Int] /\ DOMAIN t = 1..L
  BY DEF States
<1>2. /\ r.data = [i \in DOMAIN s.data |-> IF i \in hit THEN PutBy(to, k) ELSE s.data[i]]
      /\ r.mark = [i \in DOMAIN s.mark |-> IF i + a - 1 \in hit THEN 1 ELSE s.mark[i]]
  BY DEF Converted, PutBy
<1>3. ASSUME NEW c PROVE HitBy(from, k, c) <=> HitBy(from, k - 1, c) \/ from[k] = c
  <2>1. Len(from) \in Nat
    OBVIOUS
  <2>2. \A j \in 1..k : j = k \/ j \in 1..(k - 1)
    BY <2>1
  <2>3. \A j \in 1..(k - 1) : j \in 1..k
    BY <2>1
  <2>4. k \in 1..k
    BY <2>1
  <2> QED
    BY <2>2, <2>3, <2>4 DEF HitBy
<1>4. a \in 1..(L + 1) /\ b \in 0..L
  BY DEF IsPart
<1>5. ASSUME NEW i \in a..b
      PROVE  i \in 1..L /\ i - a + 1 \in 1..L /\ (i - a + 1) + a - 1 = i
  <2> HIDE DEF a, b
  <2> QED
    BY <1>4
<1>6. ASSUME NEW i \in a..b
      PROVE  i \in hit <=> ~HitBy(from, k - 1, t[i]) /\ from[k] = t[i]
  <2>1. s.mark[i - a + 1] = -1 <=> ~HitBy(from, k - 1, t[i])
    BY DEF TurnedTo
  <2>2. ~HitBy(from, k - 1, t[i]) => s.data[i] = t[i]
    BY <1>1, <1>5 DEF TurnedTo
  <2> QED
    BY <2>1, <2>2
<1>7. \A i \in hit : i \in a..b
  OBVIOUS
<1> HIDE DEF r, hit
<1>8. ASSUME NEW i \in DOMAIN t
      PROVE  r.data[i] = IF i \in a..b /\ HitBy(from, k, t[i]) THEN PutBy(to, FirstHit(from, t[i])) ELSE t[i]
  <2>1. r.data[i] = IF i \in hit THEN PutBy(to, k) ELSE s.data[i]
    BY <1>1, <1>2
  <2>2. s.data[i] = IF i \in a..b /\ HitBy(from, k - 1, t[i]) THEN PutBy(to, FirstHit(from, t[i])) ELSE t[i]
    BY DEF TurnedTo
  <2>3. CASE i \in hit
    <3>1. i \in a..b /\ ~HitBy(from, k - 1, t[i]) /\ from[k] = t[i]
      BY <1>6, <1>7, <2>3
    <3>2. FirstHit(from, t[i]) = k
      BY <3>1, FirstHitIs
    <3>3. HitBy(from, k, t[i])
      BY <1>3, <3>1
    <3> HIDE DEF a, b
    <3> QED
      BY <2>1, <2>3, <3>1, <3>2, <3>3
  <2>4. CASE i \notin hit
    <3>1. r.data[i] = s.data[i]
      BY <2>1, <2>4
    <3>2. i \in a..b => (HitBy(from, k, t[i]) <=> HitBy(from, k - 1, t[i]))
      BY <1>3, <1>6, <2>4
    <3> HIDE DEF a, b
    <3> QED
      BY <2>2, <3>1, <3>2
  <2> QED
    BY <2>3, <2>4
<1>9. ASSUME NEW i \in a..b
      PROVE  r.mark[i - a + 1] = -1 <=> ~HitBy(from, k, t[i])
  <2>1. s.mark[i - a + 1] = -1 <=> ~HitBy(from, k - 1, t[i])
    BY DEF TurnedTo
  <2>2. r.mark[i - a + 1] = IF i \in hit THEN 1 ELSE s.mark[i - a + 1]
    <3> DEFINE m == i - a + 1
    <3>1. m \in 1..L /\ m + a - 1 = i
      BY <1>5
    <3> HIDE DEF m, a
    <3> QED
      BY <1>1, <1>2, <3>1 DEF m
  <2>3. r.mark[i - a + 1] = -1 <=> i \notin hit /\ s.mark[i - a + 1] = -1
    BY <2>2
  <2> QED
    BY <1>3, <1>6, <2>1, <2>3
<1>10. TurnedTo(from, to, part, t, r, k)
  BY <1>8, <1>9 DEF TurnedTo
<1> QED
  BY <1>10 DEF r

Unmarked(mk, L) == mk = [i \in 1..L |-> -1]

(* All turns. *)
LEMMA TurnsDone ==
  ASSUME NEW from \in Seq(Nat), NEW to \in Seq(Nat), to # <<>>, NEW L \in Nat, NEW part, IsPart(part, L),
         data \in Seq(Nat), Len(data) = L, Unmarked(mark, L)
  PROVE  /\ Turns(from, to, part) \in States(L)
         /\ TurnedTo(from, to, part, data, Turns(from, to, part), Len(from))
<1> DEFINE n == Len(from)
           base == [data |-> data, mark |-> mark]
<1>1. n \in Nat /\ DOMAIN from = 1..n
  OBVIOUS
<1>2. base \in States(L)
  <2>1. data \in [1..L -> Nat] /\ mark \in [1..L -> Int]
    BY DEF Unmarked
  <2> QED
    BY <2>1 DEF States
<1>3. PICK h : h = TurnsBody(from, to, part, h) /\ Turns(from, to, part) = h[DOMAIN from]
  <2> HIDE DEF n
  <2>1. [data |-> data, mark |-> mark] \in States(L)
    BY <1>2
  <2> QED
    BY <2>1, TurnsAre
<1> DEFINE Done(k) == h[1..k] \in States(L) /\ TurnedTo(from, to, part, data, h[1..k], k)
           G == {k \in 0..n : Done(k)}
<1>4. Done(0)
  <2>1. h[{}] = base
    BY <1>3 DEF TurnsBody
  <2>2. 1..0 = {}
    OBVIOUS
  <2>3. \A c : ~HitBy(from, 0, c)
    BY <2>2 DEF HitBy
  <2>4. base.data = data /\ base.mark = mark
    OBVIOUS
  <2>5. ASSUME NEW i \in part[1]..part[2] PROVE mark[i - part[1] + 1] = -1
    <3>1. part[1] \in 1..(L + 1) /\ part[2] \in 0..L
      BY DEF IsPart
    <3>2. ASSUME NEW a \in 1..(L + 1), NEW b \in 0..L, NEW x \in a..b PROVE x - a + 1 \in 1..L
      OBVIOUS
    <3>3. i - part[1] + 1 \in 1..L
      BY <3>1, <3>2
    <3> QED
      BY <3>3 DEF Unmarked
  <2> HIDE DEF base
  <2>6. TurnedTo(from, to, part, data, base, 0)
    BY <2>3, <2>4, <2>5 DEF TurnedTo
  <2> QED
    BY <1>2, <2>1, <2>2, <2>6
<1>5. ASSUME NEW k \in 1..n, Done(k - 1) PROVE Done(k)
  <2> DEFINE s == h[1..(k - 1)]
  <2>1. h[1..k] = Converted(from, to, part, s, k)
    <3>1. 1..k \in SUBSET DOMAIN from /\ 1..k # {} /\ k \in 1..k
      <4>1. k \in Nat /\ k <= n /\ k >= 1
        BY <1>1
      <4> HIDE DEF n
      <4>2. k \in 1..k /\ \A j \in 1..k : j \in 1..n
        BY <1>1, <4>1
      <4> QED
        BY <1>1, <4>2
    <3>2. Greatest(1..k) = k
      <4>1. Greatest(1..k) \in 1..k /\ \A y \in 1..k : Greatest(1..k) >= y
        BY <1>1, <3>1, GreatestIs
      <4> QED
        BY <3>1, <4>1
    <3>3. (1..k) \ {k} = 1..(k - 1)
      BY <1>1
    <3>4. h[1..k] = Converted(from, to, part, h[(1..k) \ {Greatest(1..k)}], Greatest(1..k))
      BY <1>3, <3>1 DEF TurnsBody
    <3> QED
      BY <3>2, <3>3, <3>4
  <2> HIDE DEF s
  <2>2. s \in States(L) /\ TurnedTo(from, to, part, data, s, k - 1) /\ k \in Nat \ {0} /\ k \in 1..Len(from)
    BY <1>5 DEF s
  <2>3. Converted(from, to, part, s, k) \in States(L)
    BY <2>2, ConvertedType
  <2>4. TurnedTo(from, to, part, data, Converted(from, to, part, s, k), k)
    BY <2>2, TurnStep
  <2> QED
    BY <2>1, <2>3, <2>4
<1>6. Done(n)
  <2> HIDE DEF n, Done
  <2>1. \A k \in 1..n : k \in 0..n /\ k - 1 \in 0..n
    BY <1>1
  <2>2. 0 \in G /\ \A k \in 1..n : k - 1 \in G => k \in G
    BY <1>1, <1>4, <1>5, <2>1
  <2>3. n \in 0..n
    BY <1>1
  <2> HIDE DEF G
  <2>4. n \in G
    BY <1>1, <2>2, <2>3, UpTo
  <2> QED
    BY <2>4 DEF G
<1> QED
  BY <1>1, <1>3, <1>6

-----------------------------------------------------------------------------
(* INSPECT: the invariant. *)

InspectFresh ==
  /\ mode = "TALLYING" /\ lo = 1 /\ hi = 0 /\ Unmarked(mark, Len(text))
  /\ tally = 0 /\ claims = {} /\ phrases = <<>>

IsPhraseList(p) == \E S : p \in Seq(S)

(* TALLYING and REPLACING *)
PhrasesState ==
  stmt = "INSPECT" /\ mode # "CONVERTING" =>
    /\ IsPhraseList(phrases)
    /\ ClaimsOK(claims, Len(phrases), Len(text))
    /\ MarksOK(mark, claims, mode, Len(text))
    /\ mode = "TALLYING" => tally = Cardinality(claims)
    /\ \A n \in 1..Len(phrases) : PhraseOK(claims, text, n, phrases[n])
    /\ pc = "calls" => data = text
    /\ pc = "end" /\ mode = "REPLACING" =>
         \A j \in 1..Len(text) : data[j] = IF mark[j] # -1 THEN mark[j] ELSE text[j]

ConvertedAs(s, t, from, to, l, h) ==
  \A i \in DOMAIN t :
    s[i] = IF i \in l..h /\ HitBy(from, Len(from), t[i]) THEN PutBy(to, FirstHit(from, t[i])) ELSE t[i]

ConvertingState ==
  stmt = "INSPECT" /\ mode = "CONVERTING" =>
    /\ phrases = <<>> => data = text /\ Unmarked(mark, Len(text))
    /\ phrases # <<>> => /\ phrases[1].d \in Patterns
                         /\ ConvertedAs(data, text, phrases[1].d, phrases[1].to, lo, hi)

PointerState ==
  /\ offset \in -1..(MaxPointer - 1) \/ offset \in 0..Len(text)
  /\ pointer = 0 => offset = -1
  /\ pc # "end" => pointer \in Pointers
  /\ pc = "end" => pointer \in -1..(MaxPointer + Len(text))

InspectTypes ==
  /\ stmt \in {"none", "INSPECT", "STRING", "UNSTRING"} /\ pc \in {"idle", "calls", "end", "astray"}
  /\ stmt = "INSPECT" => pc \in {"calls", "end"}
  /\ exc \in {"none", "SIZE", "OVERFLOW", "ARGUMENT"} /\ disturbed \in BOOLEAN
  /\ DOMAIN data = 1..Len(text) /\ Len(data) = Len(text)
  /\ mode \in {"TALLYING", "REPLACING", "CONVERTING"}
  /\ DOMAIN mark = 1..Len(text) /\ tally \in Nat
  /\ IsPart(<<lo, hi>>, Len(text))

InspectInv ==
  /\ InspectTypes /\ PointerState
  /\ stmt # "INSPECT" => InspectFresh
  /\ PhrasesState /\ ConvertingState

(* A function on the first numbers is a sequence. *)
LEMMA LengthOf ==
  ASSUME NEW n \in Nat, NEW f, DOMAIN f = 1..n, f = [i \in 1..n |-> f[i]]
  PROVE  Len(f) = n
<1> DEFINE S == {f[i] : i \in 1..n}
<1>1. f \in [1..n -> S]
  OBVIOUS
<1> HIDE DEF S
<1>2. f \in Seq(S)
  BY <1>1
<1> QED
  BY <1>1, <1>2

(* The field has a length. *)
LEMMA TextIs == ASSUME Control PROVE Len(text) \in Nat \ {0} /\ DOMAIN text = 1..Len(text) /\ text \in Seq(Nat)
  BY DEF Control

(* The part of a phrase as lo and hi. *)
LEMMA PartOfBounds ==
  ASSUME NEW l, NEW h, NEW n
  PROVE  IsPart(<<l, h>>, n) <=> l \in 1..(n + 1) /\ h \in 0..n /\ h >= l - 1
  BY DEF IsPart

(* The invariant holds to begin with. *)
LEMMA InspectStarts == Init => InspectInv
<1> SUFFICES ASSUME Init PROVE InspectInv
  OBVIOUS
<1>1. text \in Seq(Nat) /\ data = text
  BY StringsAssumption DEF Init
<1>2. Len(text) \in Nat /\ DOMAIN text = 1..Len(text)
  BY <1>1
<1>3. /\ stmt = "none" /\ pc = "idle" /\ exc = "none" /\ disturbed = FALSE
      /\ mode = "TALLYING" /\ lo = 1 /\ hi = 0 /\ mark = [i \in DOMAIN text |-> -1]
      /\ tally = 0 /\ claims = {} /\ phrases = <<>> /\ pointer = -1 /\ offset = 0
  BY DEF Init
<1>4. IsPart(<<lo, hi>>, Len(text))
  BY <1>2, <1>3, PartOfBounds
<1>5. InspectFresh
  BY <1>2, <1>3 DEF InspectFresh, Unmarked
<1>6. InspectTypes
  BY <1>1, <1>2, <1>3, <1>4 DEF InspectTypes
<1>7. PointerState
  BY <1>2, <1>3, StringsAssumption DEF PointerState, Pointers
<1> QED
  BY <1>3, <1>5, <1>6, <1>7 DEF InspectInv, PhrasesState, ConvertingState

(* Nothing is taken yet. *)
LEMMA FreshClaims ==
  ASSUME NEW L \in Nat, NEW mk, Unmarked(mk, L), NEW md
  PROVE  ClaimsOK({}, 0, L) /\ MarksOK(mk, {}, md, L) /\ Cardinality({}) = 0
<1>1. IsFiniteSet({}) /\ Cardinality({}) = 0
  BY FS_EmptySet
<1> QED
  BY <1>1 DEF ClaimsOK, MarksOK, Covered, Unmarked

(* cob_inspect_init: nothing is taken, nothing is marked. *)
LEMMA InspectInitKeeps ==
  ASSUME InspectInv, Control, NEW m \in {"TALLYING", "REPLACING", "CONVERTING"}, InspectInit(m)
  PROVE  InspectInv'
<1>1. /\ pc = "idle" /\ stmt = "none" /\ data = text
      /\ stmt' = "INSPECT" /\ pc' = "calls" /\ mode' = m /\ exc' = "none"
      /\ UNCHANGED <<data, text, disturbed, lo, hi, mark, tally, claims, phrases, pointer, offset>>
  BY DEF InspectInit, Control, stringing
<1>2. Len(text) \in Nat
  BY TextIs
<1>3. InspectFresh
  BY <1>1 DEF InspectInv
<1>4. InspectTypes'
  BY <1>1 DEF InspectInv, InspectTypes
<1>5. PointerState'
  BY <1>1 DEF InspectInv, PointerState
<1>6. ClaimsOK({}, 0, Len(text)) /\ MarksOK(mark, {}, m, Len(text)) /\ Cardinality({}) = 0
  BY <1>2, <1>3, FreshClaims DEF InspectFresh
<1>7. PhrasesState'
  <2>1. phrases' = <<>> /\ claims' = {} /\ tally' = 0 /\ mark' = mark /\ text' = text
    BY <1>1, <1>3 DEF InspectFresh
  <2>2. IsPhraseList(<<>>)
    BY DEF IsPhraseList
  <2>3. Len(<<>>) = 0 /\ 1..0 = {}
    OBVIOUS
  <2> QED
    BY <1>1, <1>6, <2>1, <2>2, <2>3 DEF PhrasesState
<1>8. ConvertingState'
  BY <1>1, <1>3 DEF ConvertingState, InspectFresh
<1> QED
  BY <1>1, <1>4, <1>5, <1>7, <1>8 DEF InspectInv

(* a phrase of TALLYING or REPLACING takes the places P *)
PhraseTakes(P, n, part, ph) ==
  /\ Running("INSPECT") /\ mode # "CONVERTING"
  /\ Placed(P, n, mark, Len(text)) /\ IsPart(part, Len(text))
  /\ PhraseOK(claims \cup NewClaims(P, n, Len(phrases)), text, Len(phrases) + 1, ph)
  /\ Claim(P, n, part, ph)
  /\ UNCHANGED <<stmt, pc, data, text, exc, disturbed, mode, stringing>>

(* Taking places keeps the invariant. *)
LEMMA PhraseTakesKeeps ==
  ASSUME InspectInv, Control, NEW P, NEW n, NEW part, NEW ph, PhraseTakes(P, n, part, ph)
  PROVE  InspectInv'
<1> DEFINE N == Len(phrases)
           L == Len(text)
           v == IF mode = "REPLACING" THEN 100 + N ELSE 1
           both == claims \cup NewClaims(P, n, N)
<1>1. /\ pc = "calls" /\ stmt = "INSPECT" /\ mode # "CONVERTING"
      /\ UNCHANGED <<stmt, pc, data, text, exc, disturbed, mode, pointer, offset>>
  BY DEF PhraseTakes, Running, stringing
<1>2. /\ claims' = both /\ phrases' = Append(phrases, ph) /\ lo' = part[1] /\ hi' = part[2]
      /\ mark' = MarkAll(mark, P, n, v)
      /\ tally' = IF mode = "TALLYING" THEN tally + Cardinality(P) ELSE tally
  BY DEF PhraseTakes, Claim, NewClaims, ClaimOf, MarkAll
<1>3. L \in Nat
  BY TextIs
<1>4. /\ IsPhraseList(phrases) /\ ClaimsOK(claims, N, L) /\ MarksOK(mark, claims, mode, L)
      /\ mode = "TALLYING" => tally = Cardinality(claims)
      /\ \A k \in 1..N : PhraseOK(claims, text, k, phrases[k])
      /\ data = text
  BY <1>1 DEF InspectInv, PhrasesState
<1>5. PICK S : phrases \in Seq(S)
  BY <1>4 DEF IsPhraseList
<1>6. N \in Nat
  BY <1>5
<1>7. /\ phrases' \in Seq(S \cup {ph}) /\ Len(phrases') = N + 1 /\ phrases'[N + 1] = ph
      /\ \A k \in 1..N : phrases'[k] = phrases[k]
  <2>1. phrases \in Seq(S \cup {ph})
    BY <1>5
  <2> QED
    BY <1>2, <2>1
<1>8. Placed(P, n, mark, L) /\ IsPart(part, L) /\ PhraseOK(both, text, N + 1, ph)
  BY DEF PhraseTakes
<1> HIDE DEF N, L
<1>9. ClaimsOK(both, N + 1, L) /\ Cardinality(both) = Cardinality(claims) + Cardinality(P)
  BY <1>3, <1>4, <1>6, <1>8, NewClaimsOK
<1>10. MarksOK(mark', both, mode, L)
  <2>1. v # -1 /\ (mode = "REPLACING" => v = 100 + N)
    BY <1>6
  <2> HIDE DEF v
  <2> QED
    BY <1>2, <1>3, <1>4, <1>6, <1>8, <2>1, NewMarksOK
<1>11. ASSUME NEW k \in 1..(N + 1) PROVE PhraseOK(both, text, k, phrases'[k])
  <2>1. CASE k = N + 1
    BY <1>7, <1>8, <2>1
  <2>2. CASE k # N + 1
    <3>1. k \in 1..N
      BY <1>6, <2>2
    <3>2. PhraseOK(both, text, k, phrases[k])
      BY <1>4, <1>6, <3>1, PhraseStays
    <3> QED
      BY <1>7, <3>1, <3>2
  <2> QED
    BY <2>1, <2>2
<1> HIDE DEF both, v
<1>12. PhrasesState'
  <2>1. IsPhraseList(phrases')
    BY <1>7 DEF IsPhraseList
  <2>2. mode = "TALLYING" => tally' = Cardinality(both)
    BY <1>2, <1>4, <1>9
  <2>3. Len(text') = L /\ text' = text /\ mode' = mode /\ claims' = both /\ Len(phrases') = N + 1 /\ data' = text' /\ pc' = "calls"
    BY <1>1, <1>2, <1>4, <1>7 DEF L
  <2> QED
    BY <1>9, <1>10, <1>11, <2>1, <2>2, <2>3 DEF PhrasesState
<1>13. InspectTypes'
  <2>1. InspectTypes
    BY DEF InspectInv
  <2>2. IsPart(<<lo', hi'>>, Len(text'))
    BY <1>1, <1>2, <1>8 DEF IsPart, L
  <2>3. DOMAIN mark' = 1..Len(text')
    BY <1>1, <1>10 DEF MarksOK, L
  <2>4. tally' \in Nat
    <3>1. Cardinality(P) \in Nat
      <4>1. P \in SUBSET (1..L)
        BY <1>8 DEF Placed
      <4>2. IsFiniteSet(P)
        BY <1>3, <4>1, CardinalityOfNew
      <4> QED
        BY <4>2, FS_CardinalityType
    <3>2. tally \in Nat
      BY <2>1 DEF InspectTypes
    <3> QED
      BY <1>2, <3>1, <3>2
  <2> QED
    BY <1>1, <2>1, <2>2, <2>3, <2>4 DEF InspectTypes
<1>14. PointerState'
  BY <1>1 DEF InspectInv, PointerState
<1>15. ConvertingState' /\ stmt' = "INSPECT"
  BY <1>1 DEF ConvertingState
<1> QED
  BY <1>12, <1>13, <1>14, <1>15 DEF InspectInv

(* cob_inspect_all, _leading, _first and _trailing. *)
LEMMA PhraseKeeps ==
  ASSUME InspectInv, Control, NEW kind \in Kinds, NEW d \in Patterns, NEW r \in RegionLists, Phrase(kind, d, r)
  PROVE  InspectInv'
<1> DEFINE part == PartOf(r)
           P == Found(kind, d, part[1], part[2])
           ph == [kind |-> kind, d |-> d, part |-> part]
           N == Len(phrases)
           L == Len(text)
<1>1. /\ Running("INSPECT") /\ mode # "CONVERTING" /\ Claim(P, Len(d), part, ph)
      /\ UNCHANGED <<stmt, pc, data, text, exc, disturbed, mode, stringing>>
  BY DEF Phrase
<1>2. /\ IsPhraseList(phrases) /\ ClaimsOK(claims, N, L) /\ MarksOK(mark, claims, mode, L) /\ data = text
  BY <1>1 DEF InspectInv, PhrasesState, Running
<1>3. N \in Nat
  BY <1>2 DEF IsPhraseList
<1>4. L \in Nat /\ text \in Seq(Nat)
  BY TextIs
<1>5. Len(d) \in Nat \ {0}
  BY PatternsAre
<1>6. IsPart(part, L)
  BY <1>2, <1>4, PartIs
<1> HIDE DEF part, N
<1>7. FoundOK(kind, d, part[1], part[2], P)
  <2>1. part[1] \in Nat /\ part[2] \in Nat /\ part[2] >= part[1] - 1
    BY <1>4, <1>6 DEF IsPart
  <2> QED
    BY <1>5, <2>1, FoundIs
<1> HIDE DEF P
<1>8. Placed(P, Len(d), mark, L)
  BY <1>4, <1>5, <1>6, <1>7, FoundPlaced
<1>9. LooksFor(N, L, claims, mode, d, part)
  BY <1>2, <1>3, <1>4, <1>5, <1>6 DEF LooksFor
<1>10. PhraseOK(claims \cup NewClaims(P, Len(d), N), text, N + 1, ph)
  <2> HIDE DEF L
  <2>1. PhraseOK(claims \cup NewClaims(P, Len(d), N), data, N + 1, ph)
    BY <1>3, <1>4, <1>7, <1>9, FoundPhraseOK
  <2> QED
    BY <1>2, <2>1
<1>11. PhraseTakes(P, Len(d), part, ph)
  BY <1>1, <1>6, <1>8, <1>10 DEF PhraseTakes, N
<1> HIDE DEF ph
<1> QED
  BY <1>11, PhraseTakesKeeps

(* cob_inspect_characters. *)
LEMMA CharactersKeeps ==
  ASSUME InspectInv, Control, NEW r \in RegionLists, Characters(r)
  PROVE  InspectInv'
<1> DEFINE part == PartOf(r)
           P == {i \in part[1]..part[2] : mark[i] = -1}
           ph == [kind |-> "CHARACTERS", d |-> <<>>, part |-> part]
           N == Len(phrases)
           L == Len(text)
<1>1. /\ Running("INSPECT") /\ mode # "CONVERTING" /\ Claim(P, 1, part, ph)
      /\ UNCHANGED <<stmt, pc, data, text, exc, disturbed, mode, stringing>>
  BY DEF Characters
<1>2. /\ IsPhraseList(phrases) /\ ClaimsOK(claims, N, L) /\ MarksOK(mark, claims, mode, L) /\ data = text
  BY <1>1 DEF InspectInv, PhrasesState, Running
<1>3. N \in Nat
  BY <1>2 DEF IsPhraseList
<1>4. L \in Nat /\ text \in Seq(Nat)
  BY TextIs
<1>5. IsPart(part, L)
  BY <1>2, <1>4, PartIs
<1>6. IsLeft(P, part)
  BY DEF IsLeft
<1> HIDE DEF part, N, P, L
<1>7. Placed(P, 1, mark, L) /\ PhraseOK(claims \cup NewClaims(P, 1, N), text, N + 1, ph)
  BY <1>2, <1>3, <1>4, <1>5, <1>6, LeftPhraseOK
<1>8. PhraseTakes(P, 1, part, ph)
  BY <1>1, <1>5, <1>7 DEF PhraseTakes, N, L
<1> HIDE DEF ph
<1> QED
  BY <1>8, PhraseTakesKeeps

(* cob_inspect_converting. *)
LEMMA ConvertingKeeps ==
  ASSUME InspectInv, Control, NEW d \in Patterns, NEW e \in Patterns, NEW r \in RegionLists, Converting(d, e, r)
  PROVE  InspectInv'
<1> DEFINE part == PartOf(r)
           s == Turns(d, e, part)
           L == Len(text)
           ph == [kind |-> "CONVERTING", d |-> d, to |-> e]
<1>1. /\ Running("INSPECT") /\ mode = "CONVERTING" /\ phrases = <<>>
      /\ data' = s.data /\ mark' = s.mark /\ lo' = part[1] /\ hi' = part[2]
      /\ phrases' = <<ph>>
      /\ UNCHANGED <<stmt, pc, text, exc, disturbed, mode, tally, claims, pointer, offset>>
  BY DEF Converting, Turns, stringing
<1>2. data = text /\ Unmarked(mark, L)
  BY <1>1 DEF InspectInv, ConvertingState, Running
<1>3. L \in Nat /\ text \in Seq(Nat) /\ DOMAIN text = 1..L
  BY TextIs
<1>4. IsPart(part, L)
  BY <1>2, <1>3, PartIs
<1>5. d \in Seq(Nat) /\ e \in Seq(Nat) /\ e # <<>>
  BY PatternsAre
<1> HIDE DEF part, ph, s
<1>6. s \in States(L) /\ TurnedTo(d, e, part, data, s, Len(d))
  <2> HIDE DEF L
  <2>1. data \in Seq(Nat) /\ Len(data) = L
    BY <1>2, <1>3 DEF L
  <2> QED
    BY <1>2, <1>3, <1>4, <1>5, <2>1, TurnsDone DEF s
<1>7. s.data \in [1..L -> Nat] /\ s.mark \in [1..L -> Int]
  BY <1>6 DEF States
<1>8. DOMAIN data' = 1..L /\ DOMAIN mark' = 1..L
  BY <1>1, <1>7
<1>9. Len(data') = L
  <2>1. data' = [i \in 1..L |-> data'[i]]
    BY <1>1, <1>7
  <2> QED
    BY <1>3, <1>8, <2>1, LengthOf
<1>10. ConvertedAs(data', text, d, e, lo', hi')
  BY <1>1, <1>2, <1>6 DEF ConvertedAs, TurnedTo
<1>11. InspectTypes'
  <2>1. IsPart(<<lo', hi'>>, Len(text'))
    BY <1>1, <1>4 DEF IsPart
  <2>2. InspectTypes
    BY DEF InspectInv
  <2> QED
    BY <1>1, <1>8, <1>9, <2>1, <2>2 DEF InspectTypes
<1>12. PointerState'
  BY <1>1 DEF InspectInv, PointerState
<1>13. ConvertingState'
  <2>1. phrases' # <<>> /\ phrases'[1] = ph /\ ph.d = d /\ ph.to = e
    BY <1>1 DEF ph
  <2>2. text' = text /\ d \in Patterns
    BY <1>1
  <2> QED
    BY <1>10, <2>1, <2>2 DEF ConvertingState
<1>14. PhrasesState' /\ stmt' = "INSPECT"
  BY <1>1 DEF PhrasesState, Running
<1> QED
  BY <1>11, <1>12, <1>13, <1>14 DEF InspectInv

(* cob_inspect_finish: what is marked is replaced. *)
LEMMA InspectFinishKeeps ==
  ASSUME InspectInv, Control, InspectFinish
  PROVE  InspectInv'
<1> DEFINE L == Len(text)
<1>1. /\ pc = "calls" /\ stmt = "INSPECT" /\ phrases # <<>> /\ pc' = "end"
      /\ data' = [i \in DOMAIN data |-> IF mode = "REPLACING" /\ mark[i] # -1 THEN mark[i] ELSE data[i]]
      /\ UNCHANGED <<stmt, text, exc, disturbed, mode, lo, hi, mark, tally, claims, phrases, pointer, offset>>
  BY DEF InspectFinish, Running, inspecting, stringing
<1>2. L \in Nat /\ DOMAIN text = 1..L
  BY TextIs
<1>3. DOMAIN data = 1..L /\ InspectTypes /\ PointerState /\ PhrasesState /\ ConvertingState
  BY DEF InspectInv, InspectTypes
<1>4. /\ DOMAIN data' = 1..L
      /\ \A i \in 1..L : data'[i] = IF mode = "REPLACING" /\ mark[i] # -1 THEN mark[i] ELSE data[i]
      /\ data' = [i \in 1..L |-> data'[i]]
  BY <1>1, <1>3
<1>5. Len(data') = L
  BY <1>2, <1>4, LengthOf
<1>6. InspectTypes'
  BY <1>1, <1>3, <1>4, <1>5 DEF InspectTypes
<1>7. PointerState'
  BY <1>1, <1>2, <1>3, StringsAssumption DEF PointerState, Pointers
<1>8. PhrasesState'
  <2> SUFFICES ASSUME mode # "CONVERTING" PROVE PhrasesState'
    BY <1>1 DEF PhrasesState
  <2>1. data = text
    BY <1>1, <1>3 DEF PhrasesState
  <2>2. mode = "REPLACING" => \A j \in 1..L : data'[j] = IF mark[j] # -1 THEN mark[j] ELSE text[j]
    BY <1>4, <2>1
  <2> HIDE DEF L
  <2>3. L = Len(text)
    BY DEF L
  <2> QED
    BY <1>1, <1>3, <2>2, <2>3 DEF PhrasesState
<1>9. ConvertingState'
  <2> SUFFICES ASSUME mode = "CONVERTING" PROVE ConvertingState'
    BY <1>1 DEF ConvertingState
  <2>1. \A i \in 1..L : data'[i] = data[i]
    BY <1>4
  <2> QED
    BY <1>1, <1>2, <1>3, <2>1 DEF ConvertingState, ConvertedAs
<1> QED
  BY <1>1, <1>6, <1>7, <1>8, <1>9 DEF InspectInv

(* An operand of another size is refused. *)
LEMMA SizeErrorKeeps ==
  ASSUME InspectInv, SizeError
  PROVE  InspectInv'
<1>1. /\ exc' = "SIZE" /\ stmt = "INSPECT"
      /\ UNCHANGED <<stmt, pc, data, text, disturbed, mode, lo, hi, mark, tally, claims, phrases, pointer, offset>>
  BY DEF SizeError, Running, inspecting, stringing
<1>2. InspectTypes'
  BY <1>1 DEF InspectInv, InspectTypes
<1>3. PointerState' /\ PhrasesState' /\ ConvertingState'
  BY <1>1 DEF InspectInv, PointerState, PhrasesState, ConvertingState
<1> QED
  BY <1>1, <1>2, <1>3 DEF InspectInv

(* STRING and UNSTRING have nothing to do with INSPECT. *)
LEMMA OtherVerb ==
  ASSUME InspectInv, stmt # "INSPECT", stmt' \in {"STRING", "UNSTRING"}, pc' \in {"calls", "end", "astray"},
         exc' \in {"none", "OVERFLOW", "ARGUMENT"} \/ exc' = exc, disturbed' \in BOOLEAN,
         text' = text, DOMAIN data' = 1..Len(text), Len(data') = Len(text), UNCHANGED inspecting, PointerState'
  PROVE  InspectInv'
<1>1. /\ mode' = mode /\ lo' = lo /\ hi' = hi /\ mark' = mark /\ tally' = tally
      /\ claims' = claims /\ phrases' = phrases
  BY DEF inspecting
<1>2. InspectTypes /\ InspectFresh
  BY DEF InspectInv
<1>3. InspectTypes'
  BY <1>1, <1>2 DEF InspectTypes
<1>4. InspectFresh'
  BY <1>1, <1>2 DEF InspectFresh
<1>5. PhrasesState' /\ ConvertingState' /\ stmt' # "INSPECT"
  BY DEF PhrasesState, ConvertingState
<1> QED
  BY <1>3, <1>4, <1>5 DEF InspectInv

(* An operand may disturb the code. *)
LEMMA OperandType == ASSUME InspectTypes, NEW e, Operand(e) PROVE disturbed' \in BOOLEAN
  BY DEF Operand, InspectTypes

(* cob_string_init, cob_unstring_init. *)
LEMMA BeginLeaves ==
  ASSUME InspectInv, Control, NEW verb \in {"STRING", "UNSTRING"}, NEW p \in Pointers, Begin(verb, p)
  PROVE  InspectInv'
<1>1. /\ pc = "idle" /\ stmt = "none" /\ pc' = "calls" /\ stmt' = verb /\ pointer' = p
      /\ offset' = (IF p = -1 THEN 0 ELSE p - 1)
      /\ exc' \in {"none", "OVERFLOW"}
      /\ UNCHANGED <<data, text, disturbed, inspecting>>
  BY DEF Begin, Control
<1>2. Len(text) \in Nat
  BY TextIs
<1>3. PointerState'
  <2>1. p \in -1..MaxPointer /\ MaxPointer \in Nat
    BY StringsAssumption DEF Pointers
  <2>2. offset' \in -1..(MaxPointer - 1) \/ offset' \in 0..Len(text)
    BY <1>1, <1>2, <2>1
  <2>3. p = 0 => offset' = -1
    BY <1>1
  <2> QED
    BY <1>1, <2>2, <2>3 DEF PointerState
<1>4. InspectTypes
  BY DEF InspectInv
<1> QED
  BY <1>1, <1>3, <1>4, OtherVerb DEF InspectTypes

(* A call that leaves the pointer, the offset and the field alone. *)
LEMMA CallLeaves ==
  ASSUME InspectInv, NEW verb \in {"STRING", "UNSTRING"}, Running(verb), pc' \in {"calls", "astray"},
         exc' \in {"none", "OVERFLOW", "ARGUMENT"}, disturbed' \in BOOLEAN,
         UNCHANGED <<stmt, data, text, inspecting, pointer, offset>>
  PROVE  InspectInv'
<1>1. stmt = verb /\ pc = "calls"
  BY DEF Running
<1>2. PointerState'
  BY <1>1 DEF InspectInv, PointerState
<1>3. InspectTypes
  BY DEF InspectInv
<1> QED
  BY <1>1, <1>2, <1>3, OtherVerb DEF InspectTypes

(* A call that moves the offset inside the field. *)
LEMMA CallMoves ==
  ASSUME InspectInv, Control, NEW verb \in {"STRING", "UNSTRING"}, Running(verb), pc' = "calls",
         exc' \in {"none", "OVERFLOW", "ARGUMENT"}, disturbed' \in BOOLEAN,
         DOMAIN data' = 1..Len(text), Len(data') = Len(text),
         offset \in 0..Len(text), offset' \in 0..Len(text),
         UNCHANGED <<stmt, text, inspecting, pointer>>
  PROVE  InspectInv'
<1>1. stmt = verb /\ pc = "calls"
  BY DEF Running
<1>2. PointerState'
  <2>1. PointerState /\ Len(text) \in Nat
    BY TextIs DEF InspectInv
  <2>2. offset # -1
    BY <2>1
  <2> QED
    BY <1>1, <2>1, <2>2 DEF PointerState
<1> QED
  BY <1>1, <1>2, OtherVerb

(* At the end the pointer is set. *)
LEMMA EndLeaves ==
  ASSUME InspectInv, Control, NEW verb \in {"STRING", "UNSTRING"}, Running(verb), pc' = "end",
         exc' \in {"none", "OVERFLOW", "ARGUMENT"} \/ exc' = exc, disturbed' = disturbed,
         pointer' = IF pointer = -1 THEN -1 ELSE offset + 1,
         UNCHANGED <<stmt, data, text, inspecting, offset>>
  PROVE  InspectInv'
<1>1. stmt = verb /\ pc = "calls"
  BY DEF Running
<1>2. InspectTypes /\ PointerState /\ Len(text) \in Nat \ {0} /\ MaxPointer \in Nat
  BY TextIs, StringsAssumption DEF InspectInv
<1>3. pointer \in -1..MaxPointer /\ (pointer = 0 => offset = -1)
  BY <1>1, <1>2 DEF PointerState, Pointers
<1>4. offset \in -1..(MaxPointer - 1) \/ offset \in 0..Len(text)
  BY <1>2 DEF PointerState
<1>5. pointer' \in -1..(MaxPointer + Len(text)) /\ (pointer' = 0 => offset' = -1)
  <2> DEFINE n == Len(text)
  <2> HIDE DEF n
  <2>1. n \in Nat \ {0} /\ (offset \in -1..(MaxPointer - 1) \/ offset \in 0..n)
    BY <1>2, <1>4 DEF n
  <2>2. pointer' \in -1..(MaxPointer + n) /\ (pointer' = 0 => offset = -1)
    BY <1>2, <1>3, <2>1
  <2> QED
    BY <2>2 DEF n
<1>6. PointerState'
  BY <1>4, <1>5 DEF PointerState
<1> QED
  BY <1>1, <1>2, <1>6, OtherVerb DEF InspectTypes

(* cob_string_append. *)
LEMMA StringAppendLeaves ==
  ASSUME InspectInv, Control, NEW t \in Patterns, StringAppend(t)
  PROVE  InspectInv'
<1>1. Running("STRING") /\ InspectTypes /\ Len(text) \in Nat
  BY TextIs DEF StringAppend, InspectInv
<1>2. DOMAIN data = 1..Len(text) /\ Len(data) = Len(text)
  BY <1>1 DEF InspectTypes
<1>3. PICK e \in {"none", "OVERFLOW", "ARGUMENT"} :
        /\ Operand(e)
        /\ \/ /\ e # "none" /\ exc' = e
              /\ UNCHANGED <<stmt, pc, data, text, inspecting, pointer, offset>>
           \/ /\ offset \in 0..Len(data)
              /\ Strung(Taken(t), Len(data) - offset)
              /\ exc' \in {"none", "OVERFLOW"}
              /\ UNCHANGED <<stmt, pc, text, inspecting, pointer>>
           \/ e = "none" /\ exc' = e /\ Astray
  BY DEF StringAppend
<1>4. disturbed' \in BOOLEAN
  BY <1>1, <1>3, OperandType
<1>5. CASE e # "none" /\ exc' = e /\ UNCHANGED <<stmt, pc, data, text, inspecting, pointer, offset>>
  BY <1>1, <1>4, <1>5, CallLeaves DEF Running
<1>6. CASE /\ offset \in 0..Len(data)
           /\ Strung(Taken(t), Len(data) - offset)
           /\ exc' \in {"none", "OVERFLOW"}
           /\ UNCHANGED <<stmt, pc, text, inspecting, pointer>>
  <2> DEFINE new == Taken(t)
             L == Len(text)
             room == L - offset
  <2>1. /\ data' = [i \in 1..L |-> IF i > offset /\ i - offset <= Len(new) THEN new[i - offset] ELSE data[i]]
        /\ offset' = offset + IF Len(new) <= room THEN Len(new) ELSE room
    BY <1>2, <1>6 DEF Strung
  <2>2. DOMAIN data' = 1..L /\ data' = [i \in 1..L |-> data'[i]]
    BY <2>1
  <2>3. Len(data') = L
    BY <1>1, <2>2, LengthOf
  <2>4. Len(new) \in Nat
    BY TakenIs
  <2> HIDE DEF new, L
  <2>5. offset \in 0..L /\ L \in Nat
    BY <1>1, <1>2, <1>6 DEF L
  <2>6. offset' \in 0..L
    BY <2>1, <2>4, <2>5
  <2> QED
    BY <1>1, <1>4, <1>6, <2>2, <2>3, <2>5, <2>6, CallMoves DEF Running, L
<1>7. CASE e = "none" /\ exc' = e /\ Astray
  BY <1>1, <1>4, <1>7, CallLeaves DEF Astray, stringing
<1> QED
  BY <1>3, <1>5, <1>6, <1>7

(* cob_unstring_into. *)
LEMMA UnstringIntoLeaves ==
  ASSUME InspectInv, TransferInv, TransferInv', NEW n \in Sizes, UnstringInto(n)
  PROVE  InspectInv'
<1> Control
  BY DEF TransferInv
<1>1. Running("UNSTRING") /\ InspectTypes /\ Len(text) \in Nat
  BY TextIs DEF UnstringInto, InspectInv
<1>2. DOMAIN data = 1..Len(text) /\ Len(data) = Len(text)
  BY <1>1 DEF InspectTypes
<1>3. PICK e \in {"none", "OVERFLOW", "ARGUMENT"} :
        /\ Operand(e) /\ exc' = e
        /\ \/ UNCHANGED <<stmt, pc, data, text, inspecting, stringing>>
           \/ /\ offset \in 0..(Len(data) - 1)
              /\ \E piece : pieces' = Append(pieces, piece)
              /\ UNCHANGED <<stmt, pc, data, text, inspecting, pointer, start, delims>>
           \/ Astray
  BY DEF UnstringInto
<1>4. disturbed' \in BOOLEAN
  BY <1>1, <1>3, OperandType
<1>5. CASE UNCHANGED <<stmt, pc, data, text, inspecting, stringing>>
  BY <1>1, <1>3, <1>4, <1>5, CallLeaves DEF Running, stringing
<1>6. CASE /\ offset \in 0..(Len(data) - 1)
           /\ \E piece : pieces' = Append(pieces, piece)
           /\ UNCHANGED <<stmt, pc, data, text, inspecting, pointer, start, delims>>
  <2>1. stmt' = "UNSTRING" /\ text' = text
    BY <1>1, <1>6 DEF Running
  <2>2. pieces' # <<>>
    <3>1. PICK piece : pieces' = Append(pieces, piece)
      BY <1>6
    <3>2. pieces \in Seq(CutPiece) /\ pieces' \in Seq(CutPiece)
      BY <1>1, <2>1 DEF TransferInv, UnstringState, Running
    <3> QED
      BY <3>1, <3>2
  <2>3. start' \in Nat /\ offset' \in start'..Len(text)
    BY <2>1, <2>2 DEF TransferInv, UnstringState
  <2>4. offset' \in 0..Len(text) /\ offset \in 0..Len(text)
    BY <1>1, <1>2, <1>6, <2>3
  <2> QED
    BY <1>1, <1>2, <1>3, <1>4, <1>6, <2>4, CallMoves DEF Running
<1>7. CASE Astray
  BY <1>1, <1>3, <1>4, <1>7, CallLeaves DEF Astray, stringing
<1> QED
  BY <1>3, <1>5, <1>6, <1>7

(* Every step keeps it. *)
LEMMA InspectNext == TransferInv /\ TransferInv' /\ InspectInv /\ [Next]_vars => InspectInv'
<1> SUFFICES ASSUME TransferInv, TransferInv', InspectInv, [Next]_vars PROVE InspectInv'
  OBVIOUS
<1> Control
  BY DEF TransferInv
<1>1. ASSUME NEW m \in {"TALLYING", "REPLACING", "CONVERTING"}, InspectInit(m) PROVE InspectInv'
  BY <1>1, InspectInitKeeps
<1>2. ASSUME NEW r \in RegionLists, NEW kind \in Kinds, NEW d \in Patterns, Phrase(kind, d, r) PROVE InspectInv'
  BY <1>2, PhraseKeeps
<1>3. ASSUME NEW r \in RegionLists, Characters(r) PROVE InspectInv'
  BY <1>3, CharactersKeeps
<1>4. ASSUME NEW r \in RegionLists, NEW d \in Patterns, NEW e \in Patterns, Converting(d, e, r) PROVE InspectInv'
  BY <1>4, ConvertingKeeps
<1>5. CASE SizeError
  BY <1>5, SizeErrorKeeps
<1>6. CASE InspectFinish
  BY <1>6, InspectFinishKeeps
<1>7. ASSUME NEW p \in Pointers, StringInit(p) PROVE InspectInv'
  BY <1>7, BeginLeaves DEF StringInit
<1>8. ASSUME NEW p \in Pointers, UnstringInit(p) PROVE InspectInv'
  BY <1>8, BeginLeaves DEF UnstringInit
<1>9. ASSUME NEW d \in Patterns \cup {<<>>}, StringDelimited(d) PROVE InspectInv'
  <2>1. PICK e \in {"none", "OVERFLOW", "ARGUMENT"} : Operand(e) /\ exc' = e
    BY <1>9 DEF StringDelimited
  <2>2. disturbed' \in BOOLEAN
    BY <2>1, OperandType DEF InspectInv
  <2>3. Running("STRING") /\ UNCHANGED <<stmt, pc, data, text, inspecting, pointer, offset>>
    BY <1>9 DEF StringDelimited
  <2> QED
    BY <2>1, <2>2, <2>3, CallLeaves DEF Running
<1>10. ASSUME NEW t \in Patterns, StringAppend(t) PROVE InspectInv'
  BY <1>10, StringAppendLeaves
<1>11. CASE StringFinish
  <2>1. /\ Running("STRING") /\ pc' = "end" /\ exc' = exc /\ disturbed' = disturbed
        /\ pointer' = IF pointer = -1 THEN -1 ELSE offset + 1
        /\ UNCHANGED <<stmt, data, text, inspecting, offset>>
    BY <1>11 DEF StringFinish
  <2> QED
    BY <2>1, EndLeaves
<1>12. ASSUME NEW d \in Patterns, NEW all \in BOOLEAN, UnstringDelimited(d, all) PROVE InspectInv'
  <2>1. PICK e \in {"none", "OVERFLOW", "ARGUMENT"} : Operand(e) /\ exc' = e
    BY <1>12 DEF UnstringDelimited
  <2>2. disturbed' \in BOOLEAN
    BY <2>1, OperandType DEF InspectInv
  <2>3. Running("UNSTRING") /\ UNCHANGED <<stmt, pc, data, text, inspecting, pointer, offset>>
    BY <1>12 DEF UnstringDelimited
  <2> QED
    BY <2>1, <2>2, <2>3, CallLeaves DEF Running
<1>13. ASSUME NEW n \in Sizes, UnstringInto(n) PROVE InspectInv'
  BY <1>13, UnstringIntoLeaves
<1>14. CASE UnstringFinish
  <2>1. /\ Running("UNSTRING") /\ pc' = "end" /\ (exc' = "OVERFLOW" \/ exc' = exc) /\ disturbed' = disturbed
        /\ pointer' = IF pointer = -1 THEN -1 ELSE offset + 1
        /\ UNCHANGED <<stmt, data, text, inspecting, offset>>
    BY <1>14 DEF UnstringFinish
  <2> QED
    BY <2>1, EndLeaves
<1>15. CASE UNCHANGED vars
  <2>1. /\ UNCHANGED <<stmt, pc, data, text, exc, disturbed, mode, lo, hi, mark, tally, claims, phrases>>
        /\ UNCHANGED <<pointer, offset>>
    BY <1>15 DEF vars, inspecting, stringing
  <2>2. InspectTypes' /\ PointerState'
    BY <2>1 DEF InspectInv, InspectTypes, PointerState
  <2>3. PhrasesState' /\ ConvertingState'
    BY <2>1 DEF InspectInv, PhrasesState, ConvertingState
  <2>4. stmt' # "INSPECT" => InspectFresh'
    BY <2>1 DEF InspectInv, InspectFresh
  <2> QED
    BY <2>2, <2>3, <2>4 DEF InspectInv
<1> QED
  BY <1>1, <1>2, <1>3, <1>4, <1>5, <1>6, <1>7, <1>8, <1>9, <1>10, <1>11, <1>12, <1>13, <1>14, <1>15 DEF Next

(* what the n-th phrase promises *)
PhraseExact(n) ==
  LET ph == phrases[n]  d == ph.d  part == ph.part  size == Len(d)
      E == Eligible(n, d, part)
  IN CASE ph.kind = "ALL" ->
            /\ Places(n) \subseteq E
            /\ \A q \in E : \E i \in Places(n) : i <= q /\ q < i + size
       [] ph.kind = "FIRST" ->
            Places(n) = {q \in E : \A r \in E : q <= r}
       [] ph.kind = "LEADING" /\ n = 1 ->
            \E m \in 0..Len(text) : /\ Places(n) = {part[1] + k * size : k \in 0..(m - 1)}
                                    /\ Places(n) \subseteq E
                                    /\ part[1] + m * size \notin E
       [] ph.kind = "TRAILING" /\ n = 1 ->
            \E m \in 0..Len(text) : /\ Places(n) = {part[2] + 1 - k * size : k \in 1..m}
                                    /\ Places(n) \subseteq E
                                    /\ part[2] + 1 - (m + 1) * size \notin E
       [] ph.kind \in {"LEADING", "TRAILING"} /\ n > 1 -> Places(n) \subseteq E
       [] ph.kind = "CHARACTERS" ->
            Places(n) = {j \in part[1]..part[2] : \A c \in claims : c.phrase < n => ~Covers(c, j)}

(* The invariant says what the property says. *)
LEMMA InspectMeans == TransferInv /\ InspectInv => InspectSound
<1> SUFFICES ASSUME TransferInv, InspectInv PROVE InspectSound
  OBVIOUS
<1> Control
  BY DEF TransferInv
<1>1. Len(text) \in Nat \ {0} /\ DOMAIN text = 1..Len(text) /\ MaxPointer \in Nat
  BY TextIs, StringsAssumption
<1>2. InspectTypes /\ PointerState
  BY DEF InspectInv
<1>3. TypeOK
  <2>1. lo \in 1..(Len(text) + 1) /\ hi \in 0..Len(text) /\ hi >= lo - 1
    BY <1>2, PartOfBounds DEF InspectTypes
  <2>2. offset \in -1..(MaxPointer + Len(text)) /\ pointer \in -1..(MaxPointer + Len(text))
    <3> DEFINE n == Len(text)
    <3>1. n \in Nat \ {0} /\ (offset \in -1..(MaxPointer - 1) \/ offset \in 0..n)
      BY <1>1, <1>2 DEF PointerState
    <3>2. pointer \in -1..MaxPointer \/ pointer \in -1..(MaxPointer + n)
      BY <1>2 DEF PointerState, Pointers
    <3> HIDE DEF n
    <3>3. offset \in -1..(MaxPointer + n) /\ pointer \in -1..(MaxPointer + n)
      BY <1>1, <3>1, <3>2
    <3> QED
      BY <3>3 DEF n
  <2> QED
    BY <1>1, <1>2, <2>1, <2>2 DEF TypeOK, InspectTypes
<1>4. InspectOnce
  <2> SUFFICES ASSUME stmt = "INSPECT", mode # "CONVERTING" PROVE InspectOnce
    BY DEF InspectOnce
  <2>1. /\ ClaimsOK(claims, Len(phrases), Len(text)) /\ MarksOK(mark, claims, mode, Len(text))
        /\ mode = "TALLYING" => tally = Cardinality(claims)
        /\ pc = "end" /\ mode = "REPLACING" =>
             \A j \in 1..Len(text) : data[j] = IF mark[j] # -1 THEN mark[j] ELSE text[j]
    BY DEF InspectInv, PhrasesState
  <2>2. \A c, e \in claims : c # e => c.at + c.size <= e.at \/ e.at + e.size <= c.at
    BY <2>1 DEF ClaimsOK, Disjoint
  <2>3. \A j \in DOMAIN text : mark[j] = -1 <=> ~\E c \in claims : Covers(c, j)
    BY <1>1, <2>1 DEF MarksOK, Covered
  <2>4. ASSUME pc = "end", mode = "REPLACING", NEW j \in DOMAIN text
        PROVE  data[j] = IF \E c \in claims : Covers(c, j)
                         THEN 99 + (CHOOSE c \in claims : Covers(c, j)).phrase ELSE text[j]
    <3>1. data[j] = IF mark[j] # -1 THEN mark[j] ELSE text[j]
      BY <1>1, <2>1, <2>4
    <3>2. CASE \E c \in claims : Covers(c, j)
      <4> DEFINE e == CHOOSE c \in claims : Covers(c, j)
      <4>1. e \in claims /\ Covers(e, j)
        BY <3>2
      <4> HIDE DEF e
      <4>2. mark[j] = 99 + e.phrase
        BY <1>1, <2>1, <2>4, <4>1 DEF MarksOK
      <4>3. mark[j] # -1
        BY <2>3, <3>2
      <4>4. data[j] = 99 + e.phrase
        BY <3>1, <4>2, <4>3
      <4> QED
        BY <3>2, <4>4 DEF e
    <3>3. CASE ~\E c \in claims : Covers(c, j)
      BY <2>3, <3>1, <3>3
    <3> QED
      BY <3>2, <3>3
  <2> QED
    BY <2>1, <2>2, <2>3, <2>4 DEF InspectOnce
<1>5. InspectExact
  <2> SUFFICES ASSUME stmt = "INSPECT", mode # "CONVERTING", NEW n \in DOMAIN phrases
               PROVE  PhraseExact(n)
    BY DEF InspectExact, PhraseExact
  <2> DEFINE ph == phrases[n]
             E == Eligible(n, ph.d, ph.part)
             P == Places(n)
             Z == LeftIn(claims, n, ph.part)
  <2>1. IsPhraseList(phrases) /\ \A k \in 1..Len(phrases) : PhraseOK(claims, text, k, phrases[k])
    BY DEF InspectInv, PhrasesState
  <2>2. n \in 1..Len(phrases) /\ n \in Nat \ {0}
    BY <2>1 DEF IsPhraseList
  <2>3. PhraseOK(claims, text, n, ph)
    BY <2>1, <2>2
  <2>4. E = EligibleIn(claims, text, n, ph.d, ph.part) /\ P = PlacesIn(claims, n)
    BY DEF Eligible, EligibleIn, Places, PlacesIn
  <2>5. Z = {j \in ph.part[1]..ph.part[2] : \A c \in claims : c.phrase < n => ~Covers(c, j)}
    BY DEF LeftIn
  <2> HIDE DEF ph, E, P, Z
  <2>6. ph.kind \in Kinds \cup {"CHARACTERS"} /\ TakesWhat(P, E, Z, n, ph, Len(text))
    BY <2>3, <2>4 DEF PhraseOK, Z
  <2>7. CASE ph.kind = "ALL"
    BY <2>6, <2>7 DEF PhraseExact, TakesWhat, ph, E, P
  <2>8. CASE ph.kind = "FIRST"
    BY <2>6, <2>8 DEF PhraseExact, TakesWhat, ph, E, P
  <2>9. CASE ph.kind = "LEADING" /\ n = 1
    BY <2>6, <2>9 DEF PhraseExact, TakesWhat, Leads, ph, E, P
  <2>10. CASE ph.kind = "TRAILING" /\ n = 1
    BY <2>6, <2>10 DEF PhraseExact, TakesWhat, Trails, ph, E, P
  <2>11. CASE ph.kind \in {"LEADING", "TRAILING"} /\ n > 1
    <3>1. n # 1 /\ P \subseteq E
      BY <2>6, <2>11 DEF TakesWhat
    <3>2. PhraseExact(n) <=> P \subseteq E
      BY <2>11, <3>1 DEF PhraseExact, ph, E, P
    <3> QED
      BY <3>1, <3>2
  <2>12. CASE ph.kind = "CHARACTERS"
    BY <2>5, <2>6, <2>12 DEF PhraseExact, TakesWhat, ph, E, P
  <2>13. n = 1 \/ n > 1
    BY <2>2
  <2>14. \/ ph.kind = "ALL" \/ ph.kind = "FIRST"
         \/ ph.kind \in {"LEADING", "TRAILING"} /\ n = 1
         \/ ph.kind \in {"LEADING", "TRAILING"} /\ n > 1
         \/ ph.kind = "CHARACTERS"
    BY <2>6, <2>13 DEF Kinds
  <2> QED
    BY <2>7, <2>8, <2>9, <2>10, <2>11, <2>12, <2>14
<1>6. ConvertsOnce
  <2> SUFFICES ASSUME stmt = "INSPECT", mode = "CONVERTING", phrases # <<>> PROVE ConvertsOnce
    BY DEF ConvertsOnce
  <2> DEFINE from == phrases[1].d
             to == phrases[1].to
  <2>1. from \in Patterns /\ ConvertedAs(data, text, from, to, lo, hi)
    BY DEF InspectInv, ConvertingState
  <2>2. DOMAIN from = 1..Len(from)
    BY <2>1, PatternsAre
  <2> HIDE DEF from, to
  <2>3. ASSUME NEW i \in DOMAIN text
        PROVE  data[i] = IF i \in lo..hi /\ \E j \in DOMAIN from : from[j] = text[i]
                         THEN LET j == CHOOSE k \in DOMAIN from :
                                         from[k] = text[i] /\ \A m \in 1..(k - 1) : from[m] # text[i]
                              IN to[IF j > Len(to) THEN Len(to) ELSE j]
                         ELSE text[i]
    BY <2>1, <2>2 DEF ConvertedAs, HitBy, FirstHit, PutBy
  <2> QED
    BY <2>3 DEF ConvertsOnce, from, to
<1> QED
  BY <1>3, <1>4, <1>5, <1>6 DEF InspectSound

(* However the operands of INSPECT overlap each other and the ends of the  *)
(* part they are given (inspect_common, cob_inspect_converting): every     *)
(* character of the field is counted or replaced once at most, by the      *)
(* first phrase that takes it, the marks, the tally and the field in the   *)
(* end agree; ALL takes every occurrence that does not overlap one before  *)
(* it, FIRST the first, LEADING and TRAILING the run at their end,         *)
(* CHARACTERS what is left, and CONVERTING maps a character once.          *)
THEOREM InspectIsSound == Spec => []InspectSound
<1>1. Init => TransferInv /\ InspectInv
  BY TransferInit, InspectStarts
<1>2. (TransferInv /\ InspectInv) /\ [Next]_vars => (TransferInv /\ InspectInv)'
  BY TransferNext, InspectNext
<1> QED
  BY <1>1, <1>2, InspectMeans, PTL DEF Spec

-----------------------------------------------------------------------------
(***************************************************************************)
(* A result of age n, with n results made since, lies n entries behind the *)
(* one that was filled last.                                               *)
(***************************************************************************)
Slot(r, n) == IF n < r.next THEN r.next - 1 - n ELSE r.next - 1 - n + Depth

RingOK(r) ==
  /\ r.next \in 0..(Depth - 1) /\ r.made \in Nat
  /\ r.cell = [i \in 0..(Depth - 1) |-> r.cell[i]]

Lies(r, t) ==
  /\ t = [at |-> t.at, want |-> t.want, born |-> t.born]
  /\ t.at # Depth =>
       /\ t.born \in 0..r.made
       /\ r.made - t.born < Depth =>
            /\ t.at = Slot(r, r.made - t.born)
            /\ t.at \in DOMAIN r.cell
            /\ r.cell[t.at] = t.want

IsSequence(s) == \E S : s \in Seq(S)

RingInv ==
  /\ RingOK(ring)
  /\ IsSequence(terms)
  /\ \A i \in DOMAIN terms : Lies(ring, terms[i])

-----------------------------------------------------------------------------
(* The ring. *)

(* The entry behind the last one is the first. *)
LEMMA NextEntry ==
  ASSUME NEW n \in 0..(Depth - 1)
  PROVE  (n + 1) % Depth = IF n = Depth - 1 THEN 0 ELSE n + 1
<1>1. Depth \in Nat /\ Depth > 0
  BY DepthAssumption
<1>2. CASE n = Depth - 1
  <2>1. n + 1 = Depth /\ Depth % Depth = 0
    BY <1>1, <1>2
  <2> QED
    BY <2>1, <1>2
<1>3. CASE n # Depth - 1
  <2>1. n + 1 \in 0..(Depth - 1)
    BY <1>1, <1>3
  <2>2. (n + 1) % Depth = n + 1
    BY <1>1, <2>1
  <2> QED
    BY <2>2, <1>3
<1> QED
  BY <1>2, <1>3

(* A new entry leaves the ring sound. *)
LEMMA EntryOK ==
  ASSUME NEW r, NEW x, RingOK(r)
  PROVE  LET q == MakeFieldEntry(r, x)
         IN  /\ RingOK(q) /\ q.made = r.made + 1
             /\ q.next = IF r.next = Depth - 1 THEN 0 ELSE r.next + 1
             /\ r.next \in DOMAIN q.cell /\ q.cell[r.next] = x
             /\ \A i \in DOMAIN r.cell : i # r.next => i \in DOMAIN q.cell /\ q.cell[i] = r.cell[i]
<1> DEFINE q == MakeFieldEntry(r, x)
<1>1. q.made = r.made + 1 /\ q.next = (r.next + 1) % Depth /\ q.cell = [r.cell EXCEPT ![r.next] = x]
  BY DEF MakeFieldEntry
<1>2. q.next = IF r.next = Depth - 1 THEN 0 ELSE r.next + 1
  BY <1>1, NextEntry DEF RingOK
<1>3. DOMAIN r.cell = 0..(Depth - 1)
  BY DEF RingOK
<1>4. /\ DOMAIN q.cell = 0..(Depth - 1)
      /\ q.cell = [i \in 0..(Depth - 1) |-> q.cell[i]]
      /\ \A i \in 0..(Depth - 1) : q.cell[i] = IF i = r.next THEN x ELSE r.cell[i]
  BY <1>1, <1>3
<1> HIDE DEF q
<1>5. RingOK(q)
  <2>1. q.made \in Nat
    BY <1>1 DEF RingOK
  <2>2. q.next \in 0..(Depth - 1)
    BY <1>2, DepthAssumption DEF RingOK
  <2> QED
    BY <2>1, <2>2, <1>4 DEF RingOK
<1>6. r.next \in DOMAIN q.cell /\ q.cell[r.next] = x
  BY <1>4 DEF RingOK
<1>7. \A i \in DOMAIN r.cell : i # r.next => i \in DOMAIN q.cell /\ q.cell[i] = r.cell[i]
  BY <1>3, <1>4
<1> QED
  BY <1>1, <1>2, <1>5, <1>6, <1>7 DEF q

(* What lay in the ring lies there still, or no longer stands. *)
LEMMA EntryKeeps ==
  ASSUME NEW r, NEW x, NEW t, RingOK(r), Lies(r, t)
  PROVE  Lies(MakeFieldEntry(r, x), t)
<1> DEFINE q == MakeFieldEntry(r, x)
<1>1. /\ RingOK(q) /\ q.made = r.made + 1
      /\ q.next = IF r.next = Depth - 1 THEN 0 ELSE r.next + 1
      /\ \A i \in DOMAIN r.cell : i # r.next => i \in DOMAIN q.cell /\ q.cell[i] = r.cell[i]
  BY EntryOK
<1> HIDE DEF q
<1>2. r.made \in Nat /\ r.next \in 0..(Depth - 1) /\ Depth \in Nat /\ Depth > 0
  BY DepthAssumption DEF RingOK
<1>3. ASSUME t.at # Depth
      PROVE  /\ t.born \in 0..q.made
             /\ q.made - t.born < Depth =>
                  t.at = Slot(q, q.made - t.born) /\ t.at \in DOMAIN q.cell /\ q.cell[t.at] = t.want
  <2>1. t.born \in 0..r.made
    BY <1>3 DEF Lies
  <2>2. t.born \in 0..q.made
    BY <2>1, <1>1, <1>2
  <2>3. ASSUME q.made - t.born < Depth
        PROVE  t.at = Slot(q, q.made - t.born) /\ t.at \in DOMAIN q.cell /\ q.cell[t.at] = t.want
    <3> DEFINE n == r.made - t.born
    <3>1. n \in Nat /\ n + 1 < Depth /\ q.made - t.born = n + 1
      BY <2>1, <2>3, <1>1, <1>2
    <3>2. t.at = Slot(r, n) /\ t.at \in DOMAIN r.cell /\ r.cell[t.at] = t.want
      BY <1>3, <3>1, <1>2 DEF Lies
    <3> HIDE DEF n
    <3>3. Slot(q, n + 1) = Slot(r, n) /\ Slot(r, n) # r.next
      <4>1. CASE r.next = Depth - 1
        BY <3>1, <4>1, <1>1, <1>2 DEF Slot
      <4>2. CASE r.next # Depth - 1
        BY <3>1, <4>2, <1>1, <1>2 DEF Slot
      <4> QED
        BY <4>1, <4>2
    <3> QED
      BY <3>1, <3>2, <3>3, <1>1
  <2> QED
    BY <2>2, <2>3
<1>4. t = [at |-> t.at, want |-> t.want, born |-> t.born]
  BY DEF Lies
<1>5. Lies(q, t)
  BY <1>3, <1>4 DEF Lies
<1> QED
  BY <1>5 DEF q

(* The result itself lies in the entry it was made in. *)
LEMMA EntryLies ==
  ASSUME NEW r, NEW x, RingOK(r)
  PROVE  Lies(MakeFieldEntry(r, x), [at |-> r.next, want |-> x, born |-> r.made + 1])
<1> DEFINE q == MakeFieldEntry(r, x)
           t == [at |-> r.next, want |-> x, born |-> r.made + 1]
<1>1. /\ RingOK(q) /\ q.made = r.made + 1
      /\ q.next = IF r.next = Depth - 1 THEN 0 ELSE r.next + 1
      /\ r.next \in DOMAIN q.cell /\ q.cell[r.next] = x
  BY EntryOK
<1> HIDE DEF q
<1>2. r.made \in Nat /\ r.next \in 0..(Depth - 1) /\ Depth \in Nat /\ Depth > 0
  BY DepthAssumption DEF RingOK
<1>3. t = [at |-> t.at, want |-> t.want, born |-> t.born] /\ t.at = r.next /\ t.want = x /\ t.born = r.made + 1
  OBVIOUS
<1> HIDE DEF t
<1>4. t.born \in 0..q.made /\ q.made - t.born = 0
  BY <1>1, <1>2, <1>3
<1>5. Slot(q, 0) = r.next
  BY <1>1, <1>2 DEF Slot
<1>6. Lies(q, t)
  BY <1>1, <1>3, <1>4, <1>5 DEF Lies
<1> QED
  BY <1>6 DEF q, t

-----------------------------------------------------------------------------
(* The references. *)

(* The arguments of a call are references of the expression. *)
LEMMA ArgumentsAre ==
  ASSUME IsSequence(terms), NEW a \in Lists
  PROVE  /\ Len(a) \in 0..Len(terms)
         /\ \A i \in DOMAIN a : \E j \in DOMAIN terms : a[i] = terms[j]
<1>1. PICK S : terms \in Seq(S)
  BY DEF IsSequence
<1>2. Len(terms) \in Nat /\ DOMAIN terms = 1..Len(terms) /\ \A j \in 1..Len(terms) : terms[j] \in S
  BY <1>1
<1>3. PICK n \in DOMAIN terms : a = Arguments(n)
  BY DEF Lists
<1> DEFINE from == Len(terms) - n + 1
           t == SubSeq(terms, from, Len(terms))
<1>4. n \in 1..Len(terms) /\ from \in 1..Len(terms)
  BY <1>2, <1>3
<1>5. /\ t \in Seq(S) /\ Len(t) = n
      /\ \A i \in 1..n : t[i] = terms[from + i - 1] /\ from + i - 1 \in 1..Len(terms)
  <2> DEFINE m == Len(terms)
  <2>1. m \in Nat /\ from \in Int /\ m \in Int /\ from <= m /\ m - from + 1 = n
        /\ (\A i \in from..m : terms[i] \in S)
        /\ \A i \in 1..n : from + i - 1 \in 1..m
    BY <1>2, <1>4
  <2> HIDE DEF from, m
  <2>2. /\ SubSeq(terms, from, m) \in Seq(S)
        /\ Len(SubSeq(terms, from, m)) = IF from <= m THEN m - from + 1 ELSE 0
        /\ \A i \in 1..(m - from + 1) : SubSeq(terms, from, m)[i] = terms[from + i - 1]
    BY <2>1, SubSeqProperties
  <2> QED
    BY <2>1, <2>2 DEF m
<1> HIDE DEF t
<1>6. Len(t) \in Nat /\ DOMAIN t = 1..n
  BY <1>5, <1>4
<1>7. a = t \/ a = Reverse(t)
  BY <1>3 DEF Arguments, t
<1>8. CASE a = t
  <2>1. Len(a) \in 0..Len(terms)
    BY <1>8, <1>5, <1>4, <1>2
  <2> QED
    BY <2>1, <1>8, <1>5, <1>6, <1>2
<1>9. CASE a = Reverse(t)
  <2>1. a = [i \in 1..n |-> t[n - i + 1]]
    BY <1>9, <1>5 DEF Reverse
  <2>2. Len(a) = n /\ DOMAIN a = 1..n
    BY <2>1, <1>4
  <2>3. \A i \in 1..n : n - i + 1 \in 1..n /\ a[i] = t[n - i + 1]
    BY <2>1, <1>4
  <2>4. ASSUME NEW i \in DOMAIN a
        PROVE  \E j \in DOMAIN terms : a[i] = terms[j]
    <3>1. n - i + 1 \in 1..n /\ a[i] = t[n - i + 1]
      BY <2>2, <2>3
    <3>2. t[n - i + 1] = terms[from + (n - i + 1) - 1] /\ from + (n - i + 1) - 1 \in DOMAIN terms
      BY <3>1, <1>5, <1>2
    <3> QED
      BY <3>1, <3>2
  <2> QED
    BY <2>2, <2>4, <1>4, <1>2
<1> QED
  BY <1>7, <1>8, <1>9

(* A reference in the place of the last n. *)
LEMMA ReferencesAfter ==
  ASSUME IsSequence(terms), NEW n \in 0..Len(terms), NEW t,
         terms' = Append(SubSeq(terms, 1, Len(terms) - n), t)
  PROVE  /\ IsSequence(terms')
         /\ \A i \in DOMAIN terms' : terms'[i] = t \/ \E j \in DOMAIN terms : terms'[i] = terms[j]
<1>1. PICK S : terms \in Seq(S)
  BY DEF IsSequence
<1> DEFINE m == Len(terms) - n
           one == 1
           s == SubSeq(terms, 1, m)
           T == S \cup {t}
<1>2. Len(terms) \in Nat /\ DOMAIN terms = 1..Len(terms) /\ \A j \in 1..Len(terms) : terms[j] \in S
  BY <1>1
<1>3. m \in Nat /\ m \in Int /\ m <= Len(terms) /\ one \in Int
      /\ (\A i \in one..m : terms[i] \in S) /\ \A i \in 1..m : i \in 1..Len(terms)
  BY <1>2
<1>4. s \in Seq(S) /\ Len(s) = m /\ \A i \in 1..m : s[i] = terms[i]
  <2> HIDE DEF m, one
  <2>1. /\ SubSeq(terms, one, m) \in Seq(S)
        /\ Len(SubSeq(terms, one, m)) = IF one <= m THEN m - one + 1 ELSE 0
        /\ \A i \in 1..(m - one + 1) : SubSeq(terms, one, m)[i] = terms[one + i - 1]
    BY <1>3, SubSeqProperties
  <2> QED
    BY <2>1, <1>3 DEF one
<1> HIDE DEF s, m
<1>5. s \in Seq(T) /\ t \in T
  BY <1>4, SeqMonotonic
<1>6. terms' = Append(s, t)
  BY DEF s, m
<1> HIDE DEF T
<1>7. /\ terms' \in Seq(T) /\ Len(terms') = m + 1 /\ DOMAIN terms' = 1..(m + 1)
      /\ terms'[m + 1] = t /\ \A i \in 1..m : terms'[i] = s[i]
  BY <1>4, <1>5, <1>6, <1>3
<1>8. \A i \in DOMAIN terms' : terms'[i] = t \/ \E j \in DOMAIN terms : terms'[i] = terms[j]
  <2>1. \A i \in 1..(m + 1) : i = m + 1 \/ i \in 1..m
    BY <1>3
  <2> QED
    BY <2>1, <1>7, <1>4, <1>2, <1>3
<1> QED
  BY <1>7, <1>8 DEF IsSequence

-----------------------------------------------------------------------------
(* The calls. *)

(* In r lies whatever the expression refers to. *)
AllLie(r) == RingOK(r) /\ \A i \in DOMAIN terms : Lies(r, terms[i])

(* ... and in the ring with one more entry. *)
LEMMA AllStillLie ==
  ASSUME NEW r, NEW x, AllLie(r)
  PROVE  AllLie(MakeFieldEntry(r, x))
  BY EntryOK, EntryKeeps DEF AllLie

(* A function that returns a reference to something that lies in the ring. *)
LEMMA ReturnKeeps ==
  ASSUME RingInv, NEW fn, NEW a \in Lists, NEW m, NEW k, NEW t, NEW c,
         RingOK(ring'), \A i \in DOMAIN terms : Lies(ring', terms[i]), Lies(ring', t),
         Return(fn, a, m, k, t, c)
  PROVE  RingInv'
<1>1. terms' = Append(SubSeq(terms, 1, Len(terms) - Len(a)), t)
  BY DEF Return
<1>2. IsSequence(terms)
  BY DEF RingInv
<1>3. Len(a) \in 0..Len(terms)
  BY <1>2, ArgumentsAre
<1>4. /\ IsSequence(terms')
      /\ \A i \in DOMAIN terms' : terms'[i] = t \/ \E j \in DOMAIN terms : terms'[i] = terms[j]
  BY <1>1, <1>2, <1>3, ReferencesAfter
<1>5. \A i \in DOMAIN terms' : Lies(ring', terms'[i])
  BY <1>4
<1> QED
  BY <1>4, <1>5 DEF RingInv

(* A function that makes its result in a ring r in which all of them lie. *)
LEMMA MakeKeeps ==
  ASSUME RingInv, NEW fn, NEW a \in Lists, NEW m, NEW k, NEW r, NEW x, NEW c,
         AllLie(r), Make(fn, a, m, k, r, x, c)
  PROVE  RingInv'
<1> DEFINE t == [at |-> r.next, want |-> x, born |-> r.made + 1]
<1>1. ring' = MakeFieldEntry(r, x) /\ Return(fn, a, m, k, t, c)
  BY DEF Make
<1>2. AllLie(MakeFieldEntry(r, x))
  BY AllStillLie
<1>3. RingOK(ring') /\ \A i \in DOMAIN terms : Lies(ring', terms[i])
  BY <1>1, <1>2 DEF AllLie
<1>4. Lies(ring', t)
  BY <1>1, EntryLies DEF AllLie
<1> HIDE DEF t
<1> QED
  BY <1>1, <1>3, <1>4, ReturnKeeps

LEMMA RingHolds == ASSUME RingInv PROVE AllLie(ring)
  BY DEF RingInv, AllLie

-----------------------------------------------------------------------------
(* The actions. *)

LEMMA InitRing == FunctionInit => RingInv
<1> SUFFICES ASSUME FunctionInit PROVE RingInv
  OBVIOUS
<1>1. Depth \in Nat /\ Depth > 0
  BY DepthAssumption
<1>2. ring = [cell |-> [i \in 0..(Depth - 1) |-> Text(<<>>)], next |-> 0, made |-> 0] /\ terms = <<>>
  BY DEF FunctionInit
<1>3. RingOK(ring)
  BY <1>1, <1>2 DEF RingOK
<1>4. IsSequence(terms) /\ DOMAIN terms = {}
  <2>1. terms \in Seq({}) /\ Len(terms) = 0
    BY <1>2
  <2> QED
    BY <2>1 DEF IsSequence
<1> QED
  BY <1>3, <1>4 DEF RingInv

(* A field of the program does not lie in the ring. *)
LEMMA ReferRing ==
  ASSUME RingInv, NEW x, Refer(x)
  PROVE  RingInv'
<1> DEFINE t == [at |-> Depth, want |-> x, born |-> 0]
<1>1. ring' = ring /\ terms' = Append(terms, t)
  BY DEF Refer
<1>2. IsSequence(terms) /\ RingOK(ring) /\ \A i \in DOMAIN terms : Lies(ring, terms[i])
  BY DEF RingInv
<1>3. Lies(ring, t)
  BY DEF Lies
<1> HIDE DEF t
<1>4. PICK S : terms \in Seq(S)
  BY <1>2 DEF IsSequence
<1>5. /\ Len(terms) \in Nat /\ DOMAIN terms = 1..Len(terms)
      /\ terms \in Seq(S \cup {t})
  <2>1. terms \in Seq(S \cup {t})
    BY <1>4, SeqMonotonic
  <2> QED
    BY <1>4, <2>1
<1>6. /\ terms' \in Seq(S \cup {t}) /\ DOMAIN terms' = 1..(Len(terms) + 1)
      /\ terms'[Len(terms) + 1] = t /\ \A i \in 1..Len(terms) : terms'[i] = terms[i]
  BY <1>1, <1>5
<1>7. ASSUME NEW i \in DOMAIN terms' PROVE Lies(ring', terms'[i])
  <2>1. i = Len(terms) + 1 \/ i \in 1..Len(terms)
    BY <1>5, <1>6
  <2> QED
    BY <2>1, <1>1, <1>2, <1>3, <1>5, <1>6
<1> QED
  BY <1>1, <1>2, <1>6, <1>7 DEF RingInv, IsSequence

(* MOD makes two results before its own. *)
LEMMA ModRing == ASSUME RingInv, ModCall PROVE RingInv'
<1>1. PICK a \in Lists :
        LET r == MakeFieldEntry(ring, Integer(Long(0), 0))
            q == Binop("/", In(r, a[1]), In(r, a[2]))
            s == MakeFieldEntry(r, q)
            t == MakeFieldEntry(s, Floor(q))
        IN  Make("MOD", a, NoRefMod, 3, s,
                 Store(Rest(In(t, a[1]), In(t, a[2]), Floor(q)), Long(0)), code)
  BY DEF ModCall
<1> DEFINE r == MakeFieldEntry(ring, Integer(Long(0), 0))
           q == Binop("/", In(r, a[1]), In(r, a[2]))
           s == MakeFieldEntry(r, q)
           t == MakeFieldEntry(s, Floor(q))
           x == Store(Rest(In(t, a[1]), In(t, a[2]), Floor(q)), Long(0))
<1>2. Make("MOD", a, NoRefMod, 3, s, x, code)
  BY <1>1
<1> HIDE DEF x
<1>3. AllLie(s)
  <2>1. AllLie(r)
    BY RingHolds, AllStillLie
  <2> QED
    BY <2>1, AllStillLie
<1> HIDE DEF s
<1> QED
  BY <1>2, <1>3, MakeKeeps

(* REM makes two results before its own. *)
LEMMA RemRing == ASSUME RingInv, RemCall PROVE RingInv'
<1>1. PICK a \in Lists :
        LET q == Binop("/", Read(a[1]), Read(a[2]))
            whole == MoveToLong(q, 0)
            s == MakeFieldEntry(MakeFieldEntry(ring, q), whole)
            x == In(s, a[1])
            y == In(s, a[2])
        IN  Make("REM", a, NoRefMod, 2, s,
                 Store(Rest(x, y, whole), Long(TopScale(<<x, y>>))), code)
  BY DEF RemCall
<1> DEFINE q == Binop("/", Read(a[1]), Read(a[2]))
           whole == MoveToLong(q, 0)
           r == MakeFieldEntry(ring, q)
           s == MakeFieldEntry(r, whole)
           x == Store(Rest(In(s, a[1]), In(s, a[2]), whole), Long(TopScale(<<In(s, a[1]), In(s, a[2])>>)))
<1>2. Make("REM", a, NoRefMod, 2, s, x, code)
  BY <1>1
<1> HIDE DEF x
<1>3. AllLie(s)
  <2>1. AllLie(r)
    BY RingHolds, AllStillLie
  <2> QED
    BY <2>1, AllStillLie
<1> HIDE DEF s
<1> QED
  BY <1>2, <1>3, MakeKeeps

(* MAX, MIN and MEDIAN hand on a reference, to what lies there now. *)
LEMMA ChoiceRing == ASSUME RingInv, ChoiceCall PROVE RingInv'
<1>1. PICK fn \in {"MAX", "MIN", "MEDIAN"}, a \in Lists :
        /\ \E i \in DOMAIN a :
             i = Chosen(fn, a) /\ Return(fn, a, NoRefMod, 0, [a[i] EXCEPT !.want = Read(a[i])], code)
        /\ UNCHANGED ring
  BY DEF ChoiceCall
<1>2. PICK i \in DOMAIN a : Return(fn, a, NoRefMod, 0, [a[i] EXCEPT !.want = Read(a[i])], code)
  BY <1>1
<1>3. PICK j \in DOMAIN terms : a[i] = terms[j]
  BY ArgumentsAre DEF RingInv
<1>4. Lies(ring, a[i])
  BY <1>3 DEF RingInv
<1> DEFINE t == [a[i] EXCEPT !.want = Read(a[i])]
<1>5. /\ t = [at |-> t.at, want |-> t.want, born |-> t.born]
      /\ t.at = a[i].at /\ t.want = Read(a[i]) /\ t.born = a[i].born
  BY <1>4 DEF Lies
<1>6. Return(fn, a, NoRefMod, 0, t, code)
  BY <1>2
<1> HIDE DEF t
<1>7. t.at # Depth => t.want = ring.cell[t.at]
  BY <1>5 DEF Read, In
<1>8. Lies(ring, t)
  BY <1>4, <1>5, <1>7 DEF Lies
<1>9. RingOK(ring') /\ (\A n \in DOMAIN terms : Lies(ring', terms[n])) /\ Lies(ring', t)
  BY <1>1, <1>8 DEF RingInv
<1> QED
  BY <1>6, <1>9, ReturnKeeps

(* The functions that make one result. *)
MakesOne ==
  \E a \in Lists : \E fn, m, k, x, c : Make(fn, a, m, k, ring, x, c)

LEMMA OneRing == ASSUME RingInv, MakesOne PROVE RingInv'
<1>1. PICK a \in Lists : \E fn, m, k, x, c : Make(fn, a, m, k, ring, x, c)
  BY DEF MakesOne
<1> QED
  BY <1>1, RingHolds, MakeKeeps

LEMMA CallsMakeOne ==
  ASSUME \/ NumberCall \/ BinopCall \/ ListCall \/ DateCall
         \/ DatetimeCall \/ WindowCall \/ LocaleCall \/ FormattedCall
         \/ NumvalCall \/ CaseCall \/ TrimCall \/ JoinCall
         \/ SizeCall \/ CharCall
  PROVE  MakesOne
<1>1. CASE NumberCall
  BY <1>1 DEF NumberCall, MakesOne
<1>2. CASE BinopCall
  BY <1>2 DEF BinopCall, MakesOne
<1>3. CASE ListCall
  BY <1>3 DEF ListCall, MakesOne
<1>4. CASE DateCall
  BY <1>4 DEF DateCall, MakesOne
<1>5. CASE DatetimeCall
  BY <1>5 DEF DatetimeCall, MakesOne
<1>6. CASE WindowCall
  BY <1>6 DEF WindowCall, MakesOne
<1>7. CASE LocaleCall
  BY <1>7 DEF LocaleCall, MakesOne
<1>8. CASE FormattedCall
  BY <1>8 DEF FormattedCall, MakesOne
<1>9. CASE NumvalCall
  BY <1>9 DEF NumvalCall, MakesOne
<1>10. CASE CaseCall
  BY <1>10 DEF CaseCall, MakesOne
<1>11. CASE TrimCall
  BY <1>11 DEF TrimCall, MakesOne
<1>12. CASE JoinCall
  BY <1>12 DEF JoinCall, MakesOne
<1>13. CASE SizeCall
  BY <1>13 DEF SizeCall, MakesOne
<1>14. CASE CharCall
  BY <1>14 DEF CharCall, MakesOne
<1> QED
  BY <1>1, <1>2, <1>3, <1>4, <1>5, <1>6, <1>7, <1>8, <1>9, <1>10, <1>11, <1>12, <1>13, <1>14

LEMMA StepRing == RingInv /\ [FunctionNext]_functionVars => RingInv'
<1> SUFFICES ASSUME RingInv, [FunctionNext]_functionVars PROVE RingInv'
  OBVIOUS
<1>1. CASE \E x \in Families[family].operands : Refer(x)
  BY <1>1, ReferRing
<1>2. CASE ModCall
  BY <1>2, ModRing
<1>3. CASE RemCall
  BY <1>3, RemRing
<1>4. CASE ChoiceCall
  BY <1>4, ChoiceRing
<1>5. CASE \/ NumberCall \/ BinopCall \/ ListCall \/ DateCall
           \/ DatetimeCall \/ WindowCall \/ LocaleCall \/ FormattedCall
           \/ NumvalCall \/ CaseCall \/ TrimCall \/ JoinCall
           \/ SizeCall \/ CharCall
  BY <1>5, CallsMakeOne, OneRing
<1>6. CASE UNCHANGED functionVars
  BY <1>6 DEF functionVars, RingInv, RingOK, Lies, IsSequence, Slot
<1> QED
  BY <1>1, <1>2, <1>3, <1>4, <1>5, <1>6 DEF FunctionNext

(* What stands lies where it was left. *)
LEMMA RingImplies == RingInv => ResultsStand
<1> SUFFICES ASSUME RingInv, NEW i \in DOMAIN terms, Stands(terms[i], 0)
             PROVE  Read(terms[i]) = terms[i].want
  BY DEF ResultsStand
<1>1. Lies(ring, terms[i]) /\ ring.made \in Nat
  BY DEF RingInv, RingOK
<1>2. CASE terms[i].at = Depth
  BY <1>2 DEF Read, In
<1>3. CASE terms[i].at # Depth
  <2>1. ring.made + 0 - terms[i].born < Depth
    BY <1>3 DEF Stands
  <2>2. terms[i].born \in 0..ring.made
    BY <1>1, <1>3 DEF Lies
  <2>3. ring.made - terms[i].born < Depth
    BY <2>1, <2>2, <1>1
  <2>4. ring.cell[terms[i].at] = terms[i].want
    BY <1>1, <1>3, <2>3 DEF Lies
  <2> QED
    BY <2>4, <1>3 DEF Read, In
<1> QED
  BY <1>2, <1>3

(* make_field_entry (intrinsic.c) hands out the entries of its ring in turn, to whichever *)
(* function asks.  Whatever functions an expression calls and whatever they compute, with *)
(* MOD and REM that make three results for one and MAX, MIN and MEDIAN that hand on what  *)
(* they were given: a result reads as it was returned until Depth more have been made.    *)
THEOREM ResultsStandForDepthCalls == FunctionSpec => []ResultsStand
<1>1. FunctionSpec => []RingInv
  BY InitRing, StepRing, PTL DEF FunctionSpec
<1> QED
  BY <1>1, RingImplies, PTL

=============================================================================
