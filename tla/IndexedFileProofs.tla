------------------------- MODULE IndexedFileProofs --------------------------
(***************************************************************************)
(* Proofs about IndexedFile, for every number of keys, every set of        *)
(* connectors and every setup: the databases agree with each other and     *)
(* with the locks that are held, locked records are left alone, the        *)
(* primary database implements the record store, and READ NEXT and         *)
(* PREVIOUS find the neighbour of their position.                          *)
(***************************************************************************)
EXTENDS IndexedFile, WellFoundedInduction, NaturalsInduction, TLAPS

-----------------------------------------------------------------------------
(* Numbers, and functions defined by recursion over 0..n. *)

(* A nonempty set of numbers has a least one. *)
LEMMA LeastExists ==
  ASSUME NEW S \in SUBSET Nat, S # {}
  PROVE  \E n \in S : \A m \in S : n <= m
<1> DEFINE R == OpToRel(<, Nat)
<1>1. PICK n \in S : \A m \in S : ~ (<<m, n>> \in R)
  BY NatLessThanWellFounded, WFMin, Zenon
<1>2. ASSUME NEW m \in S PROVE n <= m
  <2>1. <<m, n>> \notin {pair \in Nat \X Nat : pair[1] < pair[2]}
    BY <1>1 DEF OpToRel
  <2>2. <<m, n>> \in Nat \X Nat
    OBVIOUS
  <2>3. ~(m < n)
    BY <2>1, <2>2
  <2> QED
    BY <2>3
<1> QED
  BY <1>2

(* A nonempty set of numbers below a bound has a greatest one. *)
LEMMA GreatestExists ==
  ASSUME NEW n \in Nat, NEW S \in SUBSET (0..n), S # {}
  PROVE  \E g \in S : \A m \in S : g >= m
<1> DEFINE T == {n - i : i \in S}
<1>1. T \in SUBSET Nat /\ T # {}
  <2>1. ASSUME NEW i \in S PROVE n - i \in Nat
    BY SMT
  <2>2. PICK i \in S : TRUE
    OBVIOUS
  <2>3. n - i \in T
    OBVIOUS
  <2> QED
    BY <2>1, <2>3
<1>2. PICK t \in T : \A m \in T : t <= m
  <2> HIDE DEF T
  <2> QED
    BY <1>1, LeastExists
<1>3. PICK g \in S : t = n - g
  OBVIOUS
<1>4. ASSUME NEW m \in S PROVE g >= m
  <2>1. n - m \in T
    OBVIOUS
  <2>2. n - g <= n - m
    BY <1>2, <1>3, <2>1
  <2> QED
    BY <2>2
<1> QED
  BY <1>4

(* A set of the first numbers that has 0, and with each number the next. *)
LEMMA UpTo ==
  ASSUME NEW n \in Nat, NEW S, 0 \in S,
         \A i \in 1..n : i - 1 \in S => i \in S
  PROVE  \A i \in 0..n : i \in S
<1> DEFINE Bad == {i \in 0..n : i \notin S}
<1> SUFFICES ASSUME Bad # {} PROVE FALSE
  OBVIOUS
<1>1. Bad \in SUBSET Nat
  OBVIOUS
<1>2. PICK m \in Bad : \A k \in Bad : m <= k
  <2> HIDE DEF Bad
  <2> QED
    BY <1>1, LeastExists
<1>3. m \in 0..n /\ m \notin S
  OBVIOUS
<1>4. m # 0
  BY <1>3
<1>5. m - 1 \in 0..n /\ m \in 1..n
  BY <1>3, <1>4
<1>6. m - 1 \notin Bad
  <2>1. ~(m <= m - 1)
    BY <1>3
  <2> QED
    BY <1>2, <2>1
<1> QED
  BY <1>3, <1>5, <1>6

FoundInSteps(g, n, b, step) == g[0] = b /\ \A i \in 1..n : g[i] = step[i][g[i - 1]]

(* A value for each number, found from the value before it. *)
LEMMA RecursionExists ==
  ASSUME NEW n \in Nat, NEW S, NEW b \in S, NEW step \in [1..n -> [S -> S]]
  PROVE  \E g \in [0..n -> S] : FoundInSteps(g, n, b, step)
<1> DEFINE Done == {k \in 0..n :
                      \E g \in [0..k -> S] : /\ g[0] = b
                                             /\ \A i \in 1..k : g[i] = step[i][g[i - 1]]}
<1>1. 0 \in Done
  <2> DEFINE g == [i \in 0..0 |-> b]
  <2>1. g \in [0..0 -> S] /\ g[0] = b /\ 0 \in 0..n
    OBVIOUS
  <2>2. \A i \in 1..0 : g[i] = step[i][g[i - 1]]
    OBVIOUS
  <2> QED
    BY <2>1, <2>2
<1>2. ASSUME NEW k \in 1..n, k - 1 \in Done PROVE k \in Done
  <2>1. PICK g \in [0..(k - 1) -> S] : /\ g[0] = b
                                      /\ \A i \in 1..(k - 1) : g[i] = step[i][g[i - 1]]
    BY <1>2
  <2> DEFINE h == [i \in 0..k |-> IF i = k THEN step[k][g[k - 1]] ELSE g[i]]
  <2>2. k \in 1..n /\ k - 1 \in 0..(k - 1) /\ \A i \in 0..k : i # k => i \in 0..(k - 1)
    OBVIOUS
  <2>3. step[k] \in [S -> S] /\ g[k - 1] \in S
    BY <2>2
  <2>4. step[k][g[k - 1]] \in S
    BY <2>3
  <2>5. h \in [0..k -> S]
    BY <2>2, <2>4
  <2>6. h[0] = b
    BY <2>1, <2>2
  <2>7. ASSUME NEW i \in 1..k PROVE h[i] = step[i][h[i - 1]]
    <3>1. i \in 0..k /\ i - 1 \in 0..k /\ i - 1 # k
      OBVIOUS
    <3>2. h[i - 1] = g[i - 1]
      BY <3>1
    <3>3. CASE i = k
      BY <3>1, <3>2, <3>3
    <3>4. CASE i # k
      <4>1. i \in 1..(k - 1) /\ h[i] = g[i]
        BY <3>1, <3>4
      <4> QED
        BY <2>1, <4>1, <3>2
    <3> QED
      BY <3>3, <3>4
  <2>8. k \in 0..n
    OBVIOUS
  <2> QED
    BY <2>5, <2>6, <2>7, <2>8
<1>3. n \in Done
  <2> HIDE DEF Done
  <2>1. \A i \in 0..n : i \in Done
    BY <1>1, <1>2, UpTo
  <2> QED
    BY <2>1
<1> QED
  BY <1>3 DEF FoundInSteps

-----------------------------------------------------------------------------
(* The entries under one alternate key. *)

Numbers == IF setup.dups THEN 1..K ELSE {0}
Entry   == [prim : Keys, dup : Numbers]

(* the order that IndexesAgree asks for *)
Ordered(s) ==
  \A m, n \in DOMAIN s : m < n => setup.dups /\ s[m].dup < s[n].dup /\ s[m].prim # s[n].prim

Prims(s) == {s[n].prim : n \in DOMAIN s}

(* The stages of the loop that takes the entries of a record away. *)
LEMMA OthersStages ==
  ASSUME NEW s \in Seq(Entry), NEW k
  PROVE  \E g \in [0..Len(s) -> Seq(Entry)] :
           /\ g[0] = <<>>
           /\ \A i \in 1..Len(s) : g[i] = IF s[i].prim = k THEN g[i - 1] ELSE Append(g[i - 1], s[i])
           /\ Others(s, k) = g[Len(s)]
<1> DEFINE n == Len(s)
           S == Seq(Entry)
           step == [i \in 1..n |-> [x \in S |-> IF s[i].prim = k THEN x ELSE Append(x, s[i])]]
           Body(h) == [i \in 0..n |-> IF i = 0 THEN <<>>
                                      ELSE IF s[i].prim = k THEN h[i - 1] ELSE Append(h[i - 1], s[i])]
           left == CHOOSE left : left = Body(left)
<1>1. n \in Nat /\ (\A i \in 1..n : s[i] \in Entry) /\ <<>> \in S
  OBVIOUS
<1>2. Others(s, k) = left[n]
  BY DEF Others
<1> HIDE DEF n
<1>3. \A i \in 1..n, x \in S : (IF s[i].prim = k THEN x ELSE Append(x, s[i])) \in S
  BY <1>1
<1> HIDE DEF S
<1>4. step \in [1..n -> [S -> S]]
  BY <1>3
<1> HIDE DEF step
<1>5. PICK g \in [0..n -> S] : FoundInSteps(g, n, <<>>, step)
  BY <1>1, <1>4, RecursionExists
<1>6. ASSUME NEW i \in 1..n
      PROVE  g[i] = IF s[i].prim = k THEN g[i - 1] ELSE Append(g[i - 1], s[i])
  <2>1. i - 1 \in 0..n
    BY <1>1
  <2>2. g[i - 1] \in S
    BY <2>1
  <2>3. step[i][g[i - 1]] = IF s[i].prim = k THEN g[i - 1] ELSE Append(g[i - 1], s[i])
    BY <2>2 DEF step
  <2> QED
    BY <1>5, <2>3 DEF FoundInSteps
<1>7. g[0] = <<>>
  BY <1>5 DEF FoundInSteps
<1>8. \A i \in 0..n : i # 0 => i \in 1..n
  BY <1>1
<1>9. g = Body(g)
  BY <1>6, <1>7, <1>8
<1>10. left = Body(left)
  <2> HIDE DEF Body
  <2> QED
    BY <1>9
<1> HIDE DEF left
<1>11. left[0] = <<>>
  BY <1>1, <1>10
<1>12. ASSUME NEW i \in 1..n
       PROVE  left[i] = IF s[i].prim = k THEN left[i - 1] ELSE Append(left[i - 1], s[i])
  <2>1. i \in 0..n /\ i # 0
    BY <1>1
  <2> QED
    BY <1>10, <2>1
<1>13. \A i \in 0..n : left[i] = g[i]
  <2> DEFINE T == {i \in 0..n : left[i] = g[i]}
  <2>1. 0 \in T
    BY <1>1, <1>7, <1>11
  <2>2. ASSUME NEW i \in 1..n, i - 1 \in T PROVE i \in T
    <3>1. left[i - 1] = g[i - 1] /\ i \in 0..n
      BY <1>1, <2>2
    <3>2. left[i] = g[i]
      BY <1>6, <1>12, <3>1
    <3> QED
      BY <3>1, <3>2
  <2> HIDE DEF T
  <2>3. \A i \in 0..n : i \in T
    BY <1>1, <2>1, <2>2, UpTo
  <2> QED
    BY <2>3 DEF T
<1>14. n \in 0..n
  BY <1>1
<1> QED
  BY <1>2, <1>6, <1>7, <1>13, <1>14 DEF n, S
(* An entry behind all the others keeps the order. *)
LEMMA AppendOrdered ==
  ASSUME NEW t \in Seq(Entry), NEW e \in Entry, Ordered(t),
         \A n \in DOMAIN t : setup.dups /\ t[n].dup < e.dup /\ t[n].prim # e.prim
  PROVE  /\ Append(t, e) \in Seq(Entry) /\ Ordered(Append(t, e))
         /\ Len(Append(t, e)) = Len(t) + 1
         /\ \A n \in 1..(Len(t) + 1) : Append(t, e)[n] = IF n = Len(t) + 1 THEN e ELSE t[n]
         /\ Prims(Append(t, e)) = Prims(t) \cup {e.prim}
<1> DEFINE x == Append(t, e)
           L == Len(t)
<1>1. /\ x \in Seq(Entry) /\ Len(x) = L + 1 /\ L \in Nat
      /\ DOMAIN x = 1..(L + 1) /\ DOMAIN t = 1..L
      /\ \A n \in 1..(L + 1) : x[n] = IF n = L + 1 THEN e ELSE t[n]
  OBVIOUS
<1> HIDE DEF x, L
<1>2. ASSUME NEW m \in 1..(L + 1), NEW n \in 1..(L + 1), m < n
      PROVE  setup.dups /\ x[m].dup < x[n].dup /\ x[m].prim # x[n].prim
  <2>1. m \in 1..L /\ x[m] = t[m] /\ m \in DOMAIN t
    BY <1>1, <1>2
  <2>2. CASE n = L + 1
    <3>1. x[n] = e
      BY <1>1, <2>2
    <3> QED
      BY <2>1, <3>1
  <2>3. CASE n # L + 1
    <3>1. n \in 1..L
      BY <1>1, <2>3
    <3>2. x[n] = t[n] /\ n \in DOMAIN t
      BY <1>1, <2>3, <3>1
    <3> QED
      BY <1>2, <2>1, <3>2 DEF Ordered
  <2> QED
    BY <2>2, <2>3
<1>3. Ordered(x)
  BY <1>1, <1>2 DEF Ordered
<1>4. Prims(x) = Prims(t) \cup {e.prim}
  <2>1. ASSUME NEW n \in 1..(L + 1) PROVE x[n].prim \in Prims(t) \cup {e.prim}
    <3>1. CASE n = L + 1
      BY <1>1, <3>1
    <3>2. CASE n # L + 1
      <4>1. n \in DOMAIN t /\ x[n] = t[n]
        BY <1>1, <3>2
      <4> QED
        BY <4>1 DEF Prims
    <3> QED
      BY <3>1, <3>2
  <2>2. ASSUME NEW n \in DOMAIN t PROVE t[n].prim \in Prims(x)
    <3>1. n \in DOMAIN x /\ x[n] = t[n]
      BY <1>1
    <3> QED
      BY <3>1 DEF Prims
  <2>3. e.prim \in Prims(x)
    <3>1. L + 1 \in DOMAIN x /\ x[L + 1] = e
      BY <1>1
    <3> QED
      BY <3>1 DEF Prims
  <2>4. Prims(x) \subseteq Prims(t) \cup {e.prim}
    BY <1>1, <2>1 DEF Prims
  <2>5. Prims(t) \subseteq Prims(x)
    BY <2>2 DEF Prims
  <2> QED
    BY <2>3, <2>4, <2>5
<1> QED
  BY <1>1, <1>3, <1>4 DEF x, L

(* t has, in their order, those of the first i entries of s that are not of *)
(* record k.                                                               *)
Kept(t, s, i, k) ==
  /\ Ordered(t)
  /\ \A n \in DOMAIN t : \E m \in 1..i : t[n] = s[m] /\ s[m].prim # k
  /\ \A m \in 1..i : s[m].prim # k => \E n \in DOMAIN t : t[n] = s[m]

(* The loop of indexed_delete_internal takes away the entries of one record *)
(* and keeps the others in their order.                                    *)
LEMMA OthersResult ==
  ASSUME NEW s \in Seq(Entry), NEW k, Ordered(s)
  PROVE  /\ Others(s, k) \in Seq(Entry) /\ Kept(Others(s, k), s, Len(s), k)
         /\ Prims(Others(s, k)) = Prims(s) \ {k}
<1>1. PICK g \in [0..Len(s) -> Seq(Entry)] :
        /\ g[0] = <<>>
        /\ \A i \in 1..Len(s) : g[i] = IF s[i].prim = k THEN g[i - 1] ELSE Append(g[i - 1], s[i])
        /\ Others(s, k) = g[Len(s)]
  BY OthersStages
<1>2. Len(s) \in Nat /\ DOMAIN s = 1..Len(s) /\ \A i \in 1..Len(s) : s[i] \in Entry
  OBVIOUS
<1> DEFINE L == Len(s)
           T == {i \in 0..L : Kept(g[i], s, i, k)}
<1>3. 0 \in T
  <2>1. DOMAIN g[0] = {} /\ 1..0 = {}
    BY <1>1
  <2>2. Kept(g[0], s, 0, k)
    BY <2>1 DEF Kept, Ordered
  <2> QED
    BY <1>2, <2>2
<1>4. ASSUME NEW i \in 1..L, i - 1 \in T PROVE i \in T
  <2> DEFINE t == g[i - 1]
  <2>1. /\ i \in 0..L /\ i - 1 \in 0..L /\ t \in Seq(Entry)
        /\ \A m \in 1..(i - 1) : m \in 1..i /\ m \in DOMAIN s /\ m < i
        /\ \A m \in 1..i : m = i \/ m \in 1..(i - 1)
        /\ i \in 1..i /\ i \in DOMAIN s /\ s[i] \in Entry
    <3>1. i \in 1..Len(s) /\ Len(s) \in Nat /\ DOMAIN s = 1..Len(s)
      BY <1>2
    <3>2. i \in 0..L /\ i - 1 \in 0..L
      BY <3>1
    <3>3. t \in Seq(Entry) /\ s[i] \in Entry
      BY <1>1, <1>2, <3>2
    <3> HIDE DEF t
    <3>4. \A m \in 1..(i - 1) : m \in 1..i /\ m \in 1..Len(s) /\ m < i
      BY <3>1
    <3>5. i \in 1..i /\ \A m \in 1..i : m = i \/ m \in 1..(i - 1)
      BY <3>1
    <3> QED
      BY <3>1, <3>2, <3>3, <3>4, <3>5
  <2>2. Kept(t, s, i - 1, k)
    BY <1>4
  <2>3. g[i] = IF s[i].prim = k THEN t ELSE Append(t, s[i])
    BY <1>1
  <2> HIDE DEF t
  <2>4. CASE s[i].prim = k
    <3>1. Kept(t, s, i, k)
      <4>1. \A n \in DOMAIN t : \E m \in 1..i : t[n] = s[m] /\ s[m].prim # k
        BY <2>1, <2>2 DEF Kept
      <4>2. \A m \in 1..i : s[m].prim # k => \E n \in DOMAIN t : t[n] = s[m]
        BY <2>1, <2>2, <2>4 DEF Kept
      <4> QED
        BY <2>2, <4>1, <4>2 DEF Kept
    <3> QED
      BY <2>1, <2>3, <2>4, <3>1
  <2>5. CASE s[i].prim # k
    <3> DEFINE x == Append(t, s[i])
    <3>1. ASSUME NEW n \in DOMAIN t
          PROVE  setup.dups /\ t[n].dup < s[i].dup /\ t[n].prim # s[i].prim
      <4>1. PICK m \in 1..(i - 1) : t[n] = s[m]
        BY <2>2 DEF Kept
      <4> QED
        BY <2>1, <4>1 DEF Ordered
    <3>2. /\ x \in Seq(Entry) /\ Ordered(x) /\ Len(x) = Len(t) + 1
          /\ \A n \in 1..(Len(t) + 1) : x[n] = IF n = Len(t) + 1 THEN s[i] ELSE t[n]
      BY <2>1, <2>2, <3>1, AppendOrdered DEF Kept
    <3>3. /\ DOMAIN x = 1..(Len(t) + 1) /\ DOMAIN t = 1..Len(t) /\ Len(t) \in Nat
      BY <2>1, <3>2
    <3> HIDE DEF x
    <3>4. ASSUME NEW n \in DOMAIN x
          PROVE  \E m \in 1..i : x[n] = s[m] /\ s[m].prim # k
      <4>1. CASE n = Len(t) + 1
        BY <2>1, <2>5, <3>2, <3>3, <4>1
      <4>2. CASE n # Len(t) + 1
        <5>1. n \in DOMAIN t /\ x[n] = t[n]
          BY <3>2, <3>3, <4>2
        <5>2. PICK m \in 1..(i - 1) : t[n] = s[m] /\ s[m].prim # k
          BY <2>2, <5>1 DEF Kept
        <5> QED
          BY <2>1, <5>1, <5>2
      <4> QED
        BY <4>1, <4>2
    <3>5. ASSUME NEW m \in 1..i, s[m].prim # k
          PROVE  \E n \in DOMAIN x : x[n] = s[m]
      <4>1. CASE m = i
        BY <3>2, <3>3, <4>1
      <4>2. CASE m # i
        <5>1. m \in 1..(i - 1)
          BY <2>1, <4>2
        <5>2. PICK n \in DOMAIN t : t[n] = s[m]
          BY <2>2, <3>5, <5>1 DEF Kept
        <5>3. n \in DOMAIN x /\ x[n] = t[n]
          BY <3>2, <3>3
        <5> QED
          BY <5>2, <5>3
      <4> QED
        BY <4>1, <4>2
    <3>6. Kept(x, s, i, k)
      BY <3>2, <3>4, <3>5 DEF Kept
    <3> QED
      BY <2>1, <2>3, <2>5, <3>6 DEF x
  <2> QED
    BY <2>4, <2>5
<1>5. Kept(g[L], s, L, k)
  <2> HIDE DEF T, L
  <2>1. L \in Nat
    BY <1>2 DEF L
  <2>2. \A i \in 0..L : i \in T
    BY <1>3, <1>4, <2>1, UpTo
  <2>3. L \in 0..L
    BY <2>1
  <2> QED
    BY <2>2, <2>3 DEF T
<1>6. L \in 0..L
  BY <1>2
<1> DEFINE o == Others(s, k)
<1>7. o \in Seq(Entry) /\ Kept(o, s, Len(s), k)
  BY <1>1, <1>5, <1>6
<1> HIDE DEF o
<1>8. Prims(o) = Prims(s) \ {k}
  <2>1. ASSUME NEW n \in DOMAIN o PROVE o[n].prim \in Prims(s) \ {k}
    BY <1>2, <1>7 DEF Kept, Prims
  <2>2. ASSUME NEW m \in DOMAIN s, s[m].prim # k PROVE s[m].prim \in Prims(o)
    BY <1>2, <1>7, <2>2 DEF Kept, Prims
  <2> QED
    BY <2>1, <2>2 DEF Prims
<1> QED
  BY <1>7, <1>8 DEF o-----------------------------------------------------------------------------
(* The record of the connector.                                            *)

(* A record with one field replaced by a value of its type is a record. *)
LEMMA FieldTyped ==
  ASSUME NEW g \in Cob_file
  PROVE  /\ \A v \in OpenModes : [g EXCEPT !.open_mode = v] \in Cob_file
         /\ \A v \in {"null", "live", "dead"} : [g EXCEPT !.file = v] \in Cob_file
         /\ \A v \in BOOLEAN : [g EXCEPT !.flag_nonexistent = v] \in Cob_file
         /\ \A v \in BOOLEAN : [g EXCEPT !.flag_end_of_file = v] \in Cob_file
         /\ \A v \in BOOLEAN : [g EXCEPT !.flag_begin_of_file = v] \in Cob_file
         /\ \A v \in 0..2 : [g EXCEPT !.flag_first_read = v] \in Cob_file
         /\ \A v \in BOOLEAN : [g EXCEPT !.flag_read_done = v] \in Cob_file
<1>1. ASSUME NEW v \in OpenModes PROVE [g EXCEPT !.open_mode = v] \in Cob_file
  BY DEF Cob_file
<1>2. ASSUME NEW v \in {"null", "live", "dead"} PROVE [g EXCEPT !.file = v] \in Cob_file
  BY DEF Cob_file
<1>3. ASSUME NEW v \in BOOLEAN PROVE [g EXCEPT !.flag_nonexistent = v] \in Cob_file
  BY DEF Cob_file
<1>4. ASSUME NEW v \in BOOLEAN PROVE [g EXCEPT !.flag_end_of_file = v] \in Cob_file
  BY DEF Cob_file
<1>5. ASSUME NEW v \in BOOLEAN PROVE [g EXCEPT !.flag_begin_of_file = v] \in Cob_file
  BY DEF Cob_file
<1>6. ASSUME NEW v \in 0..2 PROVE [g EXCEPT !.flag_first_read = v] \in Cob_file
  BY DEF Cob_file
<1>7. ASSUME NEW v \in BOOLEAN PROVE [g EXCEPT !.flag_read_done = v] \in Cob_file
  BY DEF Cob_file
<1> QED
  BY <1>1, <1>2, <1>3, <1>4, <1>5, <1>6, <1>7

(* h comes from the same SELECT as g; a file that was there is still there. *)
Same(g, h) ==
  /\ h \in Cob_file
  /\ h.organization = g.organization /\ h.access_mode = g.access_mode
  /\ h.flag_optional = g.flag_optional /\ h.special = g.special
  /\ g.flag_nonexistent = FALSE => h.flag_nonexistent = FALSE

(* What a statement that only touches the record leaves as it was. *)
LEMMA TouchEffect ==
  ASSUME NEW g \in Cob_file
  PROVE  /\ Same(g, Touch(g)) /\ Touch(g).flag_read_done = FALSE
         /\ Touch(g).open_mode = g.open_mode
<1>1. Touch(g) \in Cob_file
  BY FieldTyped DEF Touch
<1> QED
  BY <1>1 DEF Touch, Cob_file, Same

(* cob_open of the file that is there *)
LEMMA OpenEffect ==
  ASSUME NEW g \in Cob_file, NEW mode \in OpenOptions
  PROVE  LET h == AfterOpen(g, mode, "ok")
         IN  /\ Same(g, h) /\ h.flag_read_done = FALSE
             /\ h.open_mode = mode
<1> DEFINE g1 == [g EXCEPT !.flag_read_done = FALSE]
           g2 == [g1 EXCEPT !.flag_nonexistent = FALSE]
           g3 == [g2 EXCEPT !.flag_end_of_file = FALSE]
           g4 == [g3 EXCEPT !.flag_begin_of_file = FALSE]
           g5 == [g4 EXCEPT !.flag_first_read = 2]
           g6 == [g5 EXCEPT !.open_mode = mode]
           g7 == [g6 EXCEPT !.file = "live"]
<1>1. AfterOpen(g, mode, "ok") = g7
  BY DEF AfterOpen, BeginOpen
<1>2. 2 \in 0..2 /\ mode \in OpenModes
  BY DEF OpenModes
<1> HIDE DEF g1, g2, g3, g4, g5, g6, g7
<1>3. g1 \in Cob_file /\ Same(g, g1) /\ g1.flag_read_done = FALSE
  <2>1. g1 \in Cob_file
    BY FieldTyped DEF g1
  <2> QED
    BY <2>1 DEF g1, Same, Cob_file
<1>4. g2 \in Cob_file /\ Same(g, g2) /\ g2.flag_read_done = FALSE
  <2>1. g2 \in Cob_file
    BY <1>3, FieldTyped DEF g2
  <2> QED
    BY <1>3, <2>1 DEF g2, Same, Cob_file
<1>5. g3 \in Cob_file /\ Same(g, g3) /\ g3.flag_read_done = FALSE
  <2>1. g3 \in Cob_file
    BY <1>4, FieldTyped DEF g3
  <2> QED
    BY <1>4, <2>1 DEF g3, Same, Cob_file
<1>6. g4 \in Cob_file /\ Same(g, g4) /\ g4.flag_read_done = FALSE
  <2>1. g4 \in Cob_file
    BY <1>5, FieldTyped DEF g4
  <2> QED
    BY <1>5, <2>1 DEF g4, Same, Cob_file
<1>7. g5 \in Cob_file
  BY <1>2, <1>6, FieldTyped, Zenon DEF g5
<1>8. Same(g, g5) /\ g5.flag_read_done = FALSE
  BY <1>6, <1>7 DEF g5, Same, Cob_file
<1>9. g6 \in Cob_file
  BY <1>2, <1>7, FieldTyped DEF g6
<1>10. Same(g, g6) /\ g6.flag_read_done = FALSE /\ g6.open_mode = mode
  BY <1>7, <1>8, <1>9 DEF g6, Same, Cob_file
<1>11. g7 \in Cob_file
  BY <1>9, FieldTyped DEF g7
<1>12. Same(g, g7) /\ g7.flag_read_done = FALSE /\ g7.open_mode = mode
  BY <1>9, <1>10, <1>11 DEF g7, Same, Cob_file
<1> QED
  BY <1>1, <1>12

(* CLOSE without option, answered SUCCESS *)
LEMMA CloseEffect ==
  ASSUME NEW g \in Cob_file
  PROVE  LET h == AfterClose(g, "NORMAL", SUCCESS)
         IN  Same(g, h) /\ h.flag_read_done = FALSE /\ h.open_mode = "CLOSED"
<1> DEFINE t == Touch(g)
           file1 == IF ReallyCloses(g, "NORMAL") /\ ~g.flag_nonexistent THEN "dead" ELSE t.file
           h1 == [t EXCEPT !.file = file1]
           h2 == [h1 EXCEPT !.open_mode = "CLOSED"]
<1>1. AfterClose(g, "NORMAL", SUCCESS) = h2
  BY DEF AfterClose, SUCCESS
<1>2. t \in Cob_file /\ Same(g, t) /\ t.flag_read_done = FALSE
  BY TouchEffect DEF Same
<1> HIDE DEF t
<1>3. file1 \in {"null", "live", "dead"}
  BY <1>2 DEF Cob_file
<1> HIDE DEF file1, h1, h2
<1>4. h1 \in Cob_file
  BY <1>2, <1>3, FieldTyped DEF h1
<1>5. Same(g, h1) /\ h1.flag_read_done = FALSE
  BY <1>2, <1>4 DEF Same, Cob_file, h1
<1>6. h2 \in Cob_file
  BY <1>4, FieldTyped DEF h2, OpenModes
<1>7. Same(g, h2) /\ h2.flag_read_done = FALSE /\ h2.open_mode = "CLOSED"
  BY <1>4, <1>5, <1>6 DEF Same, Cob_file, h2
<1> QED
  BY <1>1, <1>7

(* START, found or not. *)
LEMMA StartEffect ==
  ASSUME NEW g \in Cob_file
  PROVE  /\ \A h \in {BeginStart(g), AfterStart(g, SUCCESS), AfterStart(g, KEY_NOT_EXISTS)} :
              /\ Same(g, h) /\ h.flag_read_done = FALSE
              /\ h.open_mode = g.open_mode
<1> DEFINE h0 == Touch(g)
           h1 == [h0 EXCEPT !.flag_first_read = 0]
           h2 == [h1 EXCEPT !.flag_end_of_file = FALSE]
           h3 == [h2 EXCEPT !.flag_begin_of_file = FALSE]
           h4 == [h3 EXCEPT !.flag_first_read = 1]
<1>1. BeginStart(g) = h1
  BY DEF BeginStart, Touch
<1>2. AfterStart(g, SUCCESS) = h4 /\ AfterStart(g, KEY_NOT_EXISTS) = h1
  BY <1>1 DEF AfterStart, SUCCESS, KEY_NOT_EXISTS
<1>3. h0 \in Cob_file /\ Same(g, h0) /\ h0.flag_read_done = FALSE /\ h0.open_mode = g.open_mode
  BY TouchEffect DEF Same
<1> HIDE DEF h0, h1, h2, h3, h4
<1>4. 0 \in 0..2 /\ 1 \in 0..2
  OBVIOUS
<1>5. h1 \in Cob_file
  BY <1>3, <1>4, FieldTyped, Zenon DEF h1
<1>6. Same(g, h1) /\ h1.flag_read_done = FALSE /\ h1.open_mode = g.open_mode
  BY <1>3, <1>5 DEF Same, Cob_file, h1
<1>7. h2 \in Cob_file /\ Same(g, h2) /\ h2.flag_read_done = FALSE /\ h2.open_mode = g.open_mode
  <2>1. h2 \in Cob_file
    BY <1>5, <1>6, FieldTyped DEF h2
  <2> QED
    BY <1>5, <1>6, <2>1 DEF h2, Same, Cob_file
<1>8. h3 \in Cob_file /\ Same(g, h3) /\ h3.flag_read_done = FALSE /\ h3.open_mode = g.open_mode
  <2>1. h3 \in Cob_file
    BY <1>7, FieldTyped DEF h3
  <2> QED
    BY <1>7, <2>1 DEF h3, Same, Cob_file
<1>9. h4 \in Cob_file
  BY <1>4, <1>8, FieldTyped, Zenon DEF h4
<1>10. Same(g, h4) /\ h4.flag_read_done = FALSE /\ h4.open_mode = g.open_mode
  BY <1>8, <1>9 DEF Same, Cob_file, h4
<1> QED
  BY <1>1, <1>2, <1>6, <1>10

(* a READ that delivers a record *)
LEMMA ReadEffect ==
  ASSUME NEW g \in Cob_file, NEW how \in {"KEY", "NEXT", "PREVIOUS"}
  PROVE  LET h == AfterRead(g, how, SUCCESS)
         IN  Same(g, h) /\ h.open_mode = g.open_mode
<1> DEFINE h1 == [g EXCEPT !.flag_first_read = 0]
           h2 == [h1 EXCEPT !.flag_read_done = TRUE]
           h3 == [h2 EXCEPT !.flag_end_of_file = FALSE]
           h4 == [h3 EXCEPT !.flag_begin_of_file = FALSE]
<1>1. AfterRead(g, how, SUCCESS) = h4
  <2>1. SUCCESS # END_OF_FILE
    BY DEF SUCCESS, END_OF_FILE
  <2>2. AfterRead(g, how, SUCCESS)
          = [g EXCEPT !.flag_first_read = 0, !.flag_read_done = TRUE,
                      !.flag_end_of_file = FALSE, !.flag_begin_of_file = FALSE]
    BY <2>1, Zenon DEF AfterRead
  <2> QED
    BY <2>2
<1>2. 0 \in 0..2
  OBVIOUS
<1> HIDE DEF h1, h2, h3, h4
<1>3. h1 \in Cob_file
  BY <1>2, FieldTyped, Zenon DEF h1
<1>4. Same(g, h1) /\ h1.open_mode = g.open_mode
  BY <1>3 DEF h1, Same, Cob_file
<1>5. h2 \in Cob_file /\ Same(g, h2) /\ h2.open_mode = g.open_mode
  <2>1. h2 \in Cob_file
    BY <1>3, <1>4, FieldTyped DEF h2
  <2> QED
    BY <1>3, <1>4, <2>1 DEF h2, Same, Cob_file
<1>6. h3 \in Cob_file /\ Same(g, h3) /\ h3.open_mode = g.open_mode
  <2>1. h3 \in Cob_file
    BY <1>5, FieldTyped DEF h3
  <2> QED
    BY <1>5, <2>1 DEF h3, Same, Cob_file
<1>7. h4 \in Cob_file /\ Same(g, h4) /\ h4.open_mode = g.open_mode
  <2>1. h4 \in Cob_file
    BY <1>6, FieldTyped DEF h4
  <2> QED
    BY <1>6, <2>1 DEF h4, Same, Cob_file
<1> QED
  BY <1>1, <1>7

(* a READ refused, or answered without a record *)
LEMMA NoReadEffect ==
  ASSUME NEW g \in Cob_file, NEW how \in {"KEY", "NEXT", "PREVIOUS"},
         NEW status \in {KEY_NOT_EXISTS, RECORD_LOCKED, END_OF_FILE}
  PROVE  \A h \in {RefusedRead(g), AfterRead(g, how, status)} :
           Same(g, h) /\ h.flag_read_done = FALSE /\ h.open_mode = g.open_mode
<1> DEFINE t == Touch(g)
           used == [t EXCEPT !.flag_first_read = 0]
           top == [t EXCEPT !.flag_begin_of_file = TRUE]
           eof == [t EXCEPT !.flag_end_of_file = TRUE]
<1>1. RefusedRead(g) \in {used, t}
  BY DEF RefusedRead
<1>2. AfterRead(g, how, status) \in {t, top, eof}
  BY DEF AfterRead, SUCCESS, KEY_NOT_EXISTS, RECORD_LOCKED, END_OF_FILE
<1>3. t \in Cob_file /\ Same(g, t) /\ t.flag_read_done = FALSE /\ t.open_mode = g.open_mode
  BY TouchEffect DEF Same
<1> HIDE DEF t
<1>4. 0 \in 0..2
  OBVIOUS
<1>5. used \in Cob_file
  BY <1>3, <1>4, FieldTyped, Zenon
<1>6. Same(g, used) /\ used.flag_read_done = FALSE /\ used.open_mode = g.open_mode
  BY <1>3, <1>5 DEF Same, Cob_file
<1>7. eof \in Cob_file /\ top \in Cob_file
  BY <1>3, FieldTyped
<1>8. Same(g, eof) /\ eof.flag_read_done = FALSE /\ eof.open_mode = g.open_mode
  BY <1>3, <1>7 DEF Same, Cob_file
<1>9. Same(g, top) /\ top.flag_read_done = FALSE /\ top.open_mode = g.open_mode
  BY <1>3, <1>7 DEF Same, Cob_file
<1> HIDE DEF used, eof, top
<1> QED
  BY <1>1, <1>2, <1>3, <1>6, <1>8, <1>9

(* the record of a program that has just started *)
LEMMA NewEffect ==
  ASSUME NEW a \in AccessModes
  PROVE  LET h == NewFile([organization |-> "INDEXED", access_mode |-> a,
                           flag_optional |-> FALSE, special |-> 0, linage |-> FALSE])
         IN  /\ h \in Cob_file /\ h.organization = "INDEXED" /\ h.access_mode = a
             /\ h.special = 0 /\ h.flag_optional = FALSE /\ h.flag_nonexistent = FALSE
             /\ h.open_mode = "CLOSED" /\ h.flag_read_done = FALSE
<1> DEFINE h == NewFile([organization |-> "INDEXED", access_mode |-> a,
                         flag_optional |-> FALSE, special |-> 0, linage |-> FALSE])
<1>1. h = [ organization |-> "INDEXED", access_mode |-> a,
            flag_optional |-> FALSE, special |-> 0, linage |-> FALSE,
            open_mode |-> "CLOSED", file |-> "null",
            flag_nonexistent |-> FALSE, flag_end_of_file |-> FALSE,
            flag_begin_of_file |-> FALSE, flag_first_read |-> 0,
            flag_read_done |-> FALSE ]
  BY DEF NewFile
<1>2. /\ 0 \in 0..2 /\ "INDEXED" \in Organizations /\ "CLOSED" \in OpenModes
      /\ "null" \in {"null", "live", "dead"} /\ FALSE \in BOOLEAN
  BY DEF Organizations, OpenModes
<1> HIDE DEF h
<1>3. h \in Cob_file
  BY <1>1, <1>2, Zenon DEF Cob_file
<1>4. /\ h.organization = "INDEXED" /\ h.access_mode = a /\ h.special = 0
      /\ h.flag_optional = FALSE /\ h.flag_nonexistent = FALSE
      /\ h.open_mode = "CLOSED" /\ h.flag_read_done = FALSE
  BY <1>1
<1> QED
  BY <1>3, <1>4, Zenon DEF h
-----------------------------------------------------------------------------
(* The databases as sets of entries, and the cursor's first and last.      *)

(* Keys and places are numbers, bounded, and tell the entries of S apart.  *)
Listing(S) ==
  /\ \E n \in Nat : \A x \in S : x.key \in 1..n
  /\ \A v \in Nat : \E m \in Nat : \A x \in S : x.key = v => x.place \in 1..m
  /\ \A x, y \in S : x.key = y.key /\ x.place = y.place => x = y

(* S after and before a place are listings too. *)
LEMMA PartOfListing ==
  ASSUME NEW S, Listing(S), NEW T \in SUBSET S
  PROVE  Listing(T)
<1>1. \E n \in Nat : \A x \in T : x.key \in 1..n
  BY DEF Listing
<1>2. ASSUME NEW v \in Nat PROVE \E m \in Nat : \A x \in T : x.key = v => x.place \in 1..m
  BY DEF Listing
<1>3. \A x, y \in T : x.key = y.key /\ x.place = y.place => x = y
  BY DEF Listing
<1> QED
  BY <1>1, <1>2, <1>3 DEF Listing

(* Two entries of a listing are one behind the other. *)
LEMMA ListingOrder ==
  ASSUME NEW S, Listing(S), NEW x \in S, NEW y \in S
  PROVE  /\ x.key \in Nat \ {0} /\ x.place \in Nat \ {0} /\ x # Nothing
         /\ x = y \/ Behind(x, y) \/ Behind(y, x)
         /\ Behind(x, y) => x # y /\ ~Behind(y, x)
<1>1. x.key \in Nat \ {0} /\ y.key \in Nat \ {0}
  BY DEF Listing
<1>2. x.place \in Nat \ {0} /\ y.place \in Nat \ {0}
  BY <1>1 DEF Listing
<1>3. x # Nothing
  BY <1>1 DEF Nothing
<1>4. x.key = y.key /\ x.place = y.place => x = y
  BY DEF Listing
<1>5. x = y \/ Behind(x, y) \/ Behind(y, x)
  BY <1>1, <1>2, <1>4 DEF Behind
<1>6. Behind(x, y) => x # y /\ ~Behind(y, x)
  BY <1>1, <1>2 DEF Behind
<1> QED
  BY <1>1, <1>2, <1>3, <1>5, <1>6

(* DB_FIRST *)
LEMMA FirstResult ==
  ASSUME NEW S, Listing(S), S # {}
  PROVE  FirstOf(S) \in S /\ \A y \in S \ {FirstOf(S)} : Behind(y, FirstOf(S))
<1> DEFINE keys == {x.key : x \in S}
<1>1. keys \in SUBSET Nat /\ keys # {}
  BY ListingOrder
<1>2. PICK v \in keys : \A w \in keys : v <= w
  <2> HIDE DEF keys
  <2> QED BY <1>1, LeastExists
<1>3. v \in Nat /\ \A y \in S : y.key \in Nat /\ v <= y.key
  BY <1>1, <1>2
<1> DEFINE under == {x \in S : x.key = v}
           places == {x.place : x \in under}
<1>4. places \in SUBSET Nat /\ places # {}
  BY <1>2, ListingOrder
<1>5. PICK n \in places : \A m \in places : n <= m
  <2> HIDE DEF places
  <2> QED BY <1>4, LeastExists
<1>6. PICK x \in S : x.key = v /\ x.place = n
  BY <1>5
<1>7. ASSUME NEW y \in S \ {x} PROVE Behind(y, x)
  <2>1. CASE y.key = v
    <3>1. n <= y.place /\ n \in Nat /\ y.place \in Nat
      BY <1>4, <1>5, <2>1
    <3>2. y.place # x.place
      BY <1>6, <2>1 DEF Listing
    <3> QED
      BY <1>6, <2>1, <3>1, <3>2 DEF Behind
  <2>2. CASE y.key # v
    BY <1>3, <1>6, <2>2 DEF Behind
  <2> QED
    BY <2>1, <2>2
<1> QED
  BY <1>7, Zenon DEF FirstOf

(* DB_LAST *)
LEMMA LastResult ==
  ASSUME NEW S, Listing(S), S # {}
  PROVE  LastOf(S) \in S /\ \A y \in S \ {LastOf(S)} : Behind(LastOf(S), y)
<1> DEFINE keys == {x.key : x \in S}
<1>1. PICK b \in Nat : \A x \in S : x.key \in 1..b
  BY DEF Listing
<1>2. keys \in SUBSET (0..b) /\ keys # {}
  BY <1>1
<1>3. PICK v \in keys : \A w \in keys : v >= w
  <2> HIDE DEF keys
  <2> QED BY <1>2, GreatestExists
<1>4. v \in Nat /\ \A y \in S : y.key \in Nat /\ v >= y.key
  BY <1>2, <1>3
<1> DEFINE under == {x \in S : x.key = v}
           places == {x.place : x \in under}
<1>5. PICK q \in Nat : \A x \in S : x.key = v => x.place \in 1..q
  BY <1>4 DEF Listing
<1>6. places \in SUBSET (0..q) /\ places # {}
  BY <1>3, <1>5
<1>7. PICK n \in places : \A m \in places : n >= m
  <2> HIDE DEF places
  <2> QED BY <1>6, GreatestExists
<1>8. PICK x \in S : x.key = v /\ x.place = n
  BY <1>7
<1>9. ASSUME NEW y \in S \ {x} PROVE Behind(x, y)
  <2>1. CASE y.key = v
    <3>1. n >= y.place /\ n \in Nat /\ y.place \in Nat
      BY <1>6, <1>7, <2>1
    <3>2. y.place # x.place
      BY <1>8, <2>1 DEF Listing
    <3> QED
      BY <1>8, <2>1, <3>1, <3>2 DEF Behind
  <2>2. CASE y.key # v
    BY <1>4, <1>8, <2>2 DEF Behind
  <2> QED
    BY <2>1, <2>2
<1> QED
  BY <1>9, Zenon DEF LastOf

(* What a search gives is an entry of the database, or nothing. *)
LEMMA CursorResult ==
  ASSUME NEW L, Listing(L), NEW T \in SUBSET L
  PROVE  /\ FirstOf(T) \in T \cup {Nothing} /\ LastOf(T) \in T \cup {Nothing}
         /\ FirstOf(T) = Nothing <=> T = {}
         /\ LastOf(T) = Nothing <=> T = {}
<1>1. Listing(T)
  BY PartOfListing
<1>2. CASE T = {}
  BY <1>2 DEF FirstOf, LastOf
<1>3. CASE T # {}
  <2>1. FirstOf(T) \in T /\ LastOf(T) \in T
    BY <1>1, <1>3, FirstResult, LastResult
  <2>2. Nothing \notin T
    BY <1>1, ListingOrder
  <2> QED
    BY <1>3, <2>1, <2>2
<1> QED
  BY <1>2, <1>3

(* The entry behind or before e, or nothing. *)
LEMMA StepResult ==
  ASSUME NEW L, Listing(L), NEW e, NEW way
  PROVE  Step(L, e, way) \in L \cup {Nothing} /\ Below(L, e) \in L \cup {Nothing}
<1>1. /\ FirstOf({x \in L : Behind(x, e)}) \in L \cup {Nothing}
      /\ LastOf({x \in L : Behind(e, x)}) \in L \cup {Nothing}
      /\ LastOf(L) \in L \cup {Nothing}
  <2>1. \A T \in SUBSET L : /\ FirstOf(T) \in T \cup {Nothing}
                            /\ LastOf(T) \in T \cup {Nothing}
    BY CursorResult
  <2> QED
    BY <2>1
<1> QED
  BY <1>1 DEF Step, Below

(* START and READ KEY find an entry of the index, or nothing. *)
LEMMA FoundResult ==
  ASSUME NEW L, Listing(L), NEW v, NEW cond \in Conditions, NEW dups \in BOOLEAN
  PROVE  Found(L, v, cond, dups) \in L \cup {Nothing}
<1> DEFINE e == SetRange(L, v)
           beyond == FirstOf({x \in L : x.key > v})
<1>1. e \in L \cup {Nothing} /\ beyond \in L \cup {Nothing}
  <2>1. \A T \in SUBSET L : FirstOf(T) \in T \cup {Nothing}
    BY CursorResult
  <2> QED
    BY <2>1 DEF SetRange
<1> HIDE DEF e, beyond
<1>2. Below(L, e) \in L \cup {Nothing} /\ Below(L, beyond) \in L \cup {Nothing}
  BY StepResult
<1>3. Found(L, v, cond, dups) \in
        {Nothing, e, Below(L, e), beyond, Below(L, beyond)}
  BY DEF Found, Conditions, e, beyond
<1> QED
  BY <1>1, <1>2, <1>3

(* READ NEXT and PREVIOUS come to an entry of the index, or to nothing. *)
LEMMA PlaceResult ==
  ASSUME NEW L, Listing(L), NEW q, NEW way \in {"FIRST", "LAST", "NEXT", "PREV"}
  PROVE  StillThere(L, q) \in L \cup {Nothing} /\ Beyond(L, q, way) \in L \cup {Nothing}
<1>1. \A T \in SUBSET L : FirstOf(T) \in T \cup {Nothing} /\ LastOf(T) \in T \cup {Nothing}
  BY CursorResult
<1>2. \A e, v, d : SkipTo(L, e, v, d) \in L \cup {Nothing}
  BY <1>1 DEF SkipTo
<1>3. \A v : SetRange(L, v) \in L \cup {Nothing}
  BY <1>1 DEF SetRange
<1>4. StillThere(L, q) \in L \cup {Nothing}
  <2>1. FirstOf({e \in L : e.key = LastKey(q)}) \in L \cup {Nothing}
    BY <1>1
  <2> QED
    BY <1>2, <2>1 DEF StillThere
<1>5. Beyond(L, q, way) \in L \cup {Nothing}
  <2> DEFINE n == SetRange(L, LastKey(q))
             e == IF n # Nothing /\ Numbered(q) /\ n.key = q.last1
                  THEN SkipTo(L, n, q.last1, q.dup) ELSE n
  <2>1. e \in L \cup {Nothing}
    BY <1>2, <1>3
  <2>2. Step(L, e, "NEXT") \in L \cup {Nothing} /\ Below(L, e) \in L \cup {Nothing}
    BY StepResult
  <2>3. FirstOf(L) \in L \cup {Nothing} /\ LastOf(L) \in L \cup {Nothing}
    BY <1>1
  <2>4. Beyond(L, q, way) \in {FirstOf(L), LastOf(L), Step(L, e, "NEXT"), e, Below(L, e)}
    BY DEF Beyond
  <2> HIDE DEF e
  <2> QED
    BY <2>1, <2>2, <2>3, <2>4
<1> QED
  BY <1>4, <1>5-----------------------------------------------------------------------------
(* The inductive invariant.                                                *)

(* The record of an INDEXED file that exists, in access mode a. *)
Fine(g, a) ==
  /\ g \in Cob_file /\ g.organization = "INDEXED" /\ g.special = 0
  /\ g.flag_optional = FALSE /\ g.flag_nonexistent = FALSE
  /\ g.open_mode # "LOCKED" /\ g.access_mode = a

Fixed == \A c \in Conns : Fine(f[c], setup.access[c])

(* Alone with its file a program has no locks, and reads through its own   *)
(* connector only.                                                         *)
Alone ==
  ~setup.shared => \A c \in Conns : /\ p[c].lock = 0
                                    /\ f[c].flag_read_done => c = CHOOSE d \in Conns : TRUE

(* In sequential access the key the driver keeps is that of the last READ, *)
(* and alone with the file the record is there.                            *)
ReadStands ==
  \A c \in Conns : Sequential(c) /\ f[c].flag_read_done =>
    p[c].pkey \in Keys /\ (~setup.shared => prim[p[c].pkey] # 0)

IInv == /\ TypeOK /\ Fixed /\ IndexesAgree /\ LockedStands /\ Alone /\ ReadStands
        /\ UpdateFindsRecord

(* What keeps the SELECT clauses keeps the record fine. *)
LEMMA FineKept ==
  ASSUME NEW g, NEW a, Fine(g, a), NEW h, Same(g, h), h.open_mode # "LOCKED"
  PROVE  Fine(h, a)
BY DEF Fine, Same, Cob_file

(* What IndexesAgree says of one alternate key. *)
LEMMA AgreeShape ==
  IndexesAgree <=> \A a \in 1..A : /\ Prims(alts[a]) = {k \in Keys : prim[k] = a}
                                   /\ Ordered(alts[a])
BY DEF IndexesAgree, Prims, Ordered

(* The types, one by one. *)
LEMMA StateShape ==
  ASSUME TypeOK
  PROVE  /\ K \in Nat \ {0} /\ A \in Nat \ {0}
         /\ \A a \in 1..A : alts[a] \in Seq(Entry)
         /\ \A c \in Conns : f[c] \in Cob_file /\ p[c] \in Driver
         /\ \A k \in Keys : prim[k] \in 0..A
         /\ setup.dups \in BOOLEAN /\ setup.shared \in BOOLEAN
         /\ setup.keys \in 1..K /\ setup.values \in 1..A
         /\ \A c \in Conns : setup.access[c] \in AccessModes
<1>1. K \in Nat \ {0} /\ A \in Nat \ {0}
  BY IndexedAssumption
<1>2. \A a \in 1..A : alts[a] \in Seq(Entry)
  BY DEF TypeOK, Entry, Numbers
<1>3. \A c \in Conns : f[c] \in Cob_file /\ p[c] \in Driver
  BY DEF TypeOK
<1>4. \A k \in Keys : prim[k] \in 0..A
  BY DEF TypeOK
<1>5. /\ setup.dups \in BOOLEAN /\ setup.shared \in BOOLEAN
      /\ setup.keys \in 1..K /\ setup.values \in 1..A
      /\ \A c \in Conns : setup.access[c] \in AccessModes
  BY DEF TypeOK, Setup
<1> QED
  BY <1>1, <1>2, <1>3, <1>4, <1>5

(* An index lists entries of records that are there. *)
LEMMA EntriesShape ==
  ASSUME TypeOK, IndexesAgree, NEW i \in {0, 1}
  PROVE  /\ Listing(Entries(i))
         /\ \A e \in Entries(i) : /\ e.key \in 1..(IF i = 0 THEN K ELSE A)
                                  /\ e.dup \in 0..K /\ e.prim \in Keys
                                  /\ prim[e.prim] # 0
<1> USE StateShape
<1> DEFINE S == Entries(i)
<1>1. CASE i = 0
  <2>1. S = {[key |-> k, place |-> 1, dup |-> 0, prim |-> k] : k \in {x \in Keys : prim[x] # 0}}
    BY <1>1 DEF Entries
  <2>2. \A e \in S : /\ e.key \in 1..K /\ e.place = 1 /\ e.dup = 0 /\ e.prim = e.key
                     /\ prim[e.prim] # 0
    BY <2>1 DEF Keys
  <2>3. \A x, y \in S : x.key = y.key => x = y
    BY <2>1
  <2> HIDE DEF S
  <2>4. \E n \in Nat : \A x \in S : x.key \in 1..n
    BY <2>2
  <2>5. ASSUME NEW v \in Nat PROVE \E m \in Nat : \A x \in S : x.key = v => x.place \in 1..m
    <3>1. \A x \in S : x.place \in 1..1
      BY <2>2
    <3> QED
      BY <3>1
  <2>6. Listing(S)
    BY <2>3, <2>4, <2>5 DEF Listing
  <2>7. \A e \in S : e.dup \in 0..K /\ e.prim \in Keys
    BY <2>2 DEF Keys
  <2> QED
    BY <1>1, <2>2, <2>6, <2>7 DEF S
<1>2. CASE i = 1
  <2>1. S = UNION {{[key |-> a, place |-> n, dup |-> alts[a][n].dup, prim |-> alts[a][n].prim] :
                      n \in DOMAIN alts[a]} : a \in 1..A}
    BY <1>2 DEF Entries
  <2>2. ASSUME NEW e \in S
        PROVE  /\ e.key \in 1..A /\ e.place \in 1..Len(alts[e.key])
               /\ e = [key |-> e.key, place |-> e.place, dup |-> alts[e.key][e.place].dup,
                       prim |-> alts[e.key][e.place].prim]
    <3>1. PICK a \in 1..A : e \in {[key |-> a, place |-> n, dup |-> alts[a][n].dup,
                                    prim |-> alts[a][n].prim] : n \in DOMAIN alts[a]}
      BY <2>1
    <3>2. PICK n \in DOMAIN alts[a] : e = [key |-> a, place |-> n, dup |-> alts[a][n].dup,
                                            prim |-> alts[a][n].prim]
      BY <3>1
    <3>3. DOMAIN alts[a] = 1..Len(alts[a])
      BY <3>1
    <3> QED
      BY <3>2, <3>3
  <2> HIDE DEF S
  <2>3. \A x, y \in S : x.key = y.key /\ x.place = y.place => x = y
    BY <2>2
  <2>4. \E n \in Nat : \A x \in S : x.key \in 1..n
    BY <2>2
  <2>5. ASSUME NEW v \in Nat PROVE \E m \in Nat : \A x \in S : x.key = v => x.place \in 1..m
    <3>1. CASE v \in 1..A
      <4>1. Len(alts[v]) \in Nat /\ \A x \in S : x.key = v => x.place \in 1..Len(alts[v])
        BY <2>2, <3>1
      <4> QED
        BY <4>1
    <3>2. CASE v \notin 1..A
      BY <2>2, <3>2
    <3> QED
      BY <3>1, <3>2
  <2>6. Listing(S)
    BY <2>3, <2>4, <2>5 DEF Listing
  <2>7. ASSUME NEW e \in S PROVE e.dup \in 0..K /\ e.prim \in Keys /\ prim[e.prim] # 0
    <3> DEFINE x == alts[e.key][e.place]
    <3>1. x \in Entry /\ e.place \in DOMAIN alts[e.key] /\ e.key \in 1..A
      BY <2>2
    <3>2. e.dup = x.dup /\ e.prim = x.prim
      BY <2>2
    <3>3. x.prim \in Prims(alts[e.key])
      BY <3>1 DEF Prims
    <3>4. x.prim \in Keys /\ prim[x.prim] = e.key
      BY <3>1, <3>3, AgreeShape
    <3>5. x.dup \in 0..K
      BY <3>1 DEF Entry, Numbers
    <3> QED
      BY <3>1, <3>2, <3>4, <3>5
  <2> QED
    BY <1>2, <2>2, <2>6, <2>7 DEF S
<1> QED
  BY <1>1, <1>2

(* What the routines answer by themselves. *)
LEMMA Checks ==
  ASSUME NEW g, NEW a, Fine(g, a)
  PROVE  /\ \A mode \in OpenOptions :
              /\ OpenCheck(g, mode, FALSE) \in {ALREADY_OPEN, CallDriver}
              /\ g.open_mode = "CLOSED" => OpenCheck(g, mode, FALSE) = CallDriver
         /\ CloseCheck(g) \in {NOT_OPEN, CallDriver}
         /\ StartCheck(g) \in {INPUT_DENIED, CallDriver}
         /\ \A how \in {"KEY", "NEXT", "PREVIOUS"} :
              ReadCheck(g, how) \in {READ_ERROR, INPUT_DENIED, CallDriver}
         /\ WriteCheck(g, TRUE) \in {OUTPUT_DENIED, CallDriver}
         /\ UpdateCheck(g, TRUE) \in {I_O_DENIED, READ_NOT_DONE, CallDriver}
         /\ UpdateCheck(g, TRUE) = CallDriver =>
              g.open_mode = "I_O" /\ (a = "SEQUENTIAL" => g.flag_read_done)
<1> USE DEF Fine
<1>1. g.open_mode \in OpenOptions \cup {"CLOSED"}
  BY DEF Cob_file, OpenModes
<1>2. ASSUME NEW mode \in OpenOptions
      PROVE  /\ OpenCheck(g, mode, FALSE) \in {ALREADY_OPEN, CallDriver}
             /\ g.open_mode = "CLOSED" => OpenCheck(g, mode, FALSE) = CallDriver
  BY <1>1 DEF OpenCheck, OpenOptions
<1>3. CloseCheck(g) \in {NOT_OPEN, CallDriver}
  BY DEF CloseCheck
<1>4. StartCheck(g) \in {INPUT_DENIED, CallDriver}
  BY DEF StartCheck
<1>5. ASSUME NEW how \in {"KEY", "NEXT", "PREVIOUS"}
      PROVE  ReadCheck(g, how) \in {READ_ERROR, INPUT_DENIED, CallDriver}
  BY DEF ReadCheck
<1>6. WriteCheck(g, TRUE) \in {OUTPUT_DENIED, CallDriver}
  BY DEF WriteCheck
<1>7. UpdateCheck(g, TRUE) \in {I_O_DENIED, READ_NOT_DONE, CallDriver}
  BY DEF UpdateCheck
<1>8. UpdateCheck(g, TRUE) = CallDriver =>
        g.open_mode = "I_O" /\ (a = "SEQUENTIAL" => g.flag_read_done)
  <2>1. CASE g.open_mode # "I_O"
    BY <2>1 DEF UpdateCheck, CallDriver, I_O_DENIED
  <2>2. CASE g.open_mode = "I_O" /\ a = "SEQUENTIAL" /\ ~g.flag_read_done
    BY <2>2 DEF UpdateCheck, CallDriver, READ_NOT_DONE
  <2> QED
    BY <2>1, <2>2
<1> QED
  BY <1>2, <1>3, <1>4, <1>5, <1>6, <1>7, <1>8

(* The statuses are statuses. *)
LEMMA Statuses ==
  {SUCCESS, ALREADY_OPEN, NOT_OPEN, INPUT_DENIED, READ_ERROR, OUTPUT_DENIED, I_O_DENIED,
   READ_NOT_DONE, KEY_NOT_EXISTS, END_OF_FILE, RECORD_LOCKED, KEY_INVALID, KEY_EXISTS} \subseteq 0..99
<1>1. /\ SUCCESS \in 0..99 /\ ALREADY_OPEN \in 0..99 /\ NOT_OPEN \in 0..99
      /\ INPUT_DENIED \in 0..99 /\ READ_ERROR \in 0..99 /\ OUTPUT_DENIED \in 0..99
      /\ I_O_DENIED \in 0..99 /\ READ_NOT_DONE \in 0..99 /\ KEY_NOT_EXISTS \in 0..99
      /\ END_OF_FILE \in 0..99 /\ RECORD_LOCKED \in 0..99 /\ KEY_INVALID \in 0..99
      /\ KEY_EXISTS \in 0..99
  BY DEF SUCCESS, ALREADY_OPEN, NOT_OPEN, INPUT_DENIED, READ_ERROR, OUTPUT_DENIED, I_O_DENIED,
         READ_NOT_DONE, KEY_NOT_EXISTS, END_OF_FILE, RECORD_LOCKED, KEY_INVALID, KEY_EXISTS
<1> QED
  BY <1>1, Zenon-----------------------------------------------------------------------------
(* The driver's record.                                                    *)

(* Every field of the driver may be set to a value of its type. *)
LEMMA DriverField ==
  ASSUME NEW q \in Driver
  PROVE  /\ \A v \in {0, 1} : [q EXCEPT !.index = v] \in Driver
         /\ \A v \in 0..K : [q EXCEPT !.last0 = v] \in Driver
         /\ \A v \in 0..A : [q EXCEPT !.last1 = v] \in Driver
         /\ \A v \in 0..K : [q EXCEPT !.lastp = v] \in Driver
         /\ \A v \in 0..K : [q EXCEPT !.dup = v] \in Driver
         /\ \A v \in BOOLEAN : [q EXCEPT !.data = v] \in Driver
         /\ \A v \in 0..K : [q EXCEPT !.pkey = v] \in Driver
         /\ \A v \in 0..K : [q EXCEPT !.last_key = v] \in Driver
         /\ \A v \in 0..K : [q EXCEPT !.lock = v] \in Driver
<1>1. ASSUME NEW v \in {0, 1} PROVE [q EXCEPT !.index = v] \in Driver
  BY DEF Driver
<1>2. ASSUME NEW v \in 0..K PROVE [q EXCEPT !.last0 = v] \in Driver
  BY DEF Driver
<1>3. ASSUME NEW v \in 0..A PROVE [q EXCEPT !.last1 = v] \in Driver
  BY DEF Driver
<1>4. ASSUME NEW v \in 0..K PROVE [q EXCEPT !.lastp = v] \in Driver
  BY DEF Driver
<1>5. ASSUME NEW v \in 0..K PROVE [q EXCEPT !.dup = v] \in Driver
  BY DEF Driver
<1>6. ASSUME NEW v \in BOOLEAN PROVE [q EXCEPT !.data = v] \in Driver
  BY DEF Driver
<1>7. ASSUME NEW v \in 0..K PROVE [q EXCEPT !.pkey = v] \in Driver
  BY DEF Driver
<1>8. ASSUME NEW v \in 0..K PROVE [q EXCEPT !.last_key = v] \in Driver
  BY DEF Driver
<1>9. ASSUME NEW v \in 0..K PROVE [q EXCEPT !.lock = v] \in Driver
  BY DEF Driver
<1> QED
  BY <1>1, <1>2, <1>3, <1>4, <1>5, <1>6, <1>7, <1>8, <1>9

(* A driver that opens its file. *)
LEMMA NewDriverTyped ==
  ASSUME K \in Nat \ {0}, A \in Nat \ {0}
  PROVE  NewDriver \in Driver /\ NewDriver.lock = 0
<1>1. 0 \in {0, 1} /\ 0 \in 0..K /\ 0 \in 0..A /\ FALSE \in BOOLEAN
  OBVIOUS
<1>2. NewDriver \in Driver
  BY <1>1, Zenon DEF NewDriver, Driver
<1> QED
  BY <1>2 DEF NewDriver

(* What the access mode leaves of the record: the lock always, everything  *)
(* a later READ NEXT looks at, and all of it in sequential access.         *)
LEMMA UsedResult ==
  ASSUME K \in Nat \ {0}, A \in Nat \ {0}, NEW a \in AccessModes, NEW q \in Driver
  PROVE  /\ Used(a, q) \in Driver /\ Used(a, q).lock = q.lock
         /\ a = "SEQUENTIAL" => Used(a, q) = q
         /\ a # "RANDOM" => /\ Used(a, q).index = q.index /\ Used(a, q).last0 = q.last0
                            /\ Used(a, q).last1 = q.last1 /\ Used(a, q).lastp = q.lastp
                            /\ Used(a, q).dup = q.dup
<1>1. CASE a = "SEQUENTIAL"
  BY <1>1 DEF Used
<1>2. CASE a = "DYNAMIC"
  <2> DEFINE q1 == [q EXCEPT !.pkey = 0]
             q2 == [q1 EXCEPT !.last_key = 0]
  <2>1. Used(a, q) = q2
    BY <1>2 DEF Used
  <2>2. 0 \in 0..K
    OBVIOUS
  <2>3. q1 \in Driver
    BY <2>2, DriverField, Zenon
  <2> HIDE DEF q1
  <2>4. q2 \in Driver
    BY <2>2, <2>3, DriverField, Zenon
  <2>5. /\ q1.lock = q.lock /\ q1.index = q.index /\ q1.last0 = q.last0 /\ q1.last1 = q.last1
        /\ q1.lastp = q.lastp /\ q1.dup = q.dup
    BY DEF q1, Driver
  <2>6. /\ q2.lock = q.lock /\ q2.index = q.index /\ q2.last0 = q.last0 /\ q2.last1 = q.last1
        /\ q2.lastp = q.lastp /\ q2.dup = q.dup
    BY <2>3, <2>5 DEF Driver
  <2> QED
    BY <1>2, <2>1, <2>4, <2>6
<1>3. CASE a = "RANDOM"
  <2>1. Used(a, q) = [NewDriver EXCEPT !.lock = q.lock]
    BY <1>3 DEF Used
  <2>2. NewDriver \in Driver /\ q.lock \in 0..K
    BY NewDriverTyped DEF Driver
  <2>3. Used(a, q) \in Driver
    <3> DEFINE n == NewDriver
    <3>1. n \in Driver
      BY <2>2
    <3> HIDE DEF n
    <3>2. [n EXCEPT !.lock = q.lock] \in Driver
      BY <2>2, <3>1, DriverField
    <3> QED
      BY <2>1, <3>2 DEF n
  <2>4. Used(a, q).lock = q.lock
    BY <2>1, <2>2 DEF NewDriver
  <2> QED
    BY <1>3, <2>3, <2>4
<1> QED
  BY <1>1, <1>2, <1>3 DEF AccessModes

(* UNLOCK, as far as the record goes *)
LEMMA UnlockedResult ==
  ASSUME TypeOK, Alone, NEW c \in Conns
  PROVE  /\ Unlocked(p[c]) \in Driver /\ Unlocked(p[c]).lock = 0
         /\ Unlocked(p[c]).pkey = p[c].pkey /\ Unlocked(p[c]).index = p[c].index
         /\ Unlocked(p[c]).last0 = p[c].last0 /\ Unlocked(p[c]).last1 = p[c].last1
         /\ Unlocked(p[c]).lastp = p[c].lastp /\ Unlocked(p[c]).dup = p[c].dup
         /\ Unlocked(p[c]).data = p[c].data /\ Unlocked(p[c]).last_key = p[c].last_key
<1>1. p[c] \in Driver /\ K \in Nat
  BY StateShape
<1>2. CASE setup.shared
  <2> DEFINE q == [p[c] EXCEPT !.lock = 0]
  <2>1. Unlocked(p[c]) = q
    BY <1>2 DEF Unlocked
  <2>2. 0 \in 0..K
    BY <1>1
  <2>3. q \in Driver
    BY <1>1, <2>2, DriverField, Zenon
  <2>4. /\ q.lock = 0 /\ q.pkey = p[c].pkey /\ q.index = p[c].index
        /\ q.last0 = p[c].last0 /\ q.last1 = p[c].last1 /\ q.lastp = p[c].lastp
        /\ q.dup = p[c].dup /\ q.data = p[c].data /\ q.last_key = p[c].last_key
    BY <1>1 DEF Driver
  <2> QED
    BY <2>1, <2>3, <2>4
<1>3. CASE ~setup.shared
  BY <1>1, <1>3 DEF Unlocked, Alone
<1> QED
  BY <1>2, <1>3

-----------------------------------------------------------------------------
(* A statement keeps the invariant.                                        *)

(* The databases after a statement: typed, and in agreement. *)
Agreed(prm, als) ==
  /\ prm \in [Keys -> 0..A]
  /\ als \in [1..A -> Seq(Entry)]
  /\ \A a \in 1..A : Prims(als[a]) = {k \in Keys : prm[k] = a} /\ Ordered(als[a])

(* The lock of the connector after a statement is on a record that is      *)
(* there and that nobody else has locked.                                  *)
LockStands(c, lock, prm) ==
  lock # 0 => /\ setup.shared /\ prm[lock] # 0
              /\ \A d \in Conns \ {c} : p[d].lock # lock

(* Nor does the statement take a locked record of others away. *)
OthersStand(c, prm) ==
  \A d \in Conns \ {c} : p[d].lock # 0 => prm[p[d].lock] # 0

(* Who runs: alone, one connector only. *)
Runs(c) == c \in Conns /\ (~setup.shared => c = CHOOSE d \in Conns : TRUE)

(* An answer keeps the invariant when what it leaves behind is sound. *)
LEMMA AnswerKeeps ==
  ASSUME IInv, NEW c, Runs(c), NEW g, Fine(g, setup.access[c]), NEW q \in Driver,
         NEW op \in Statements, NEW status \in 0..99, Answer(c, op, status, g, q),
         Agreed(prim', alts'), OthersStand(c, prim'), LockStands(c, q.lock, prim'),
         setup.access[c] = "SEQUENTIAL" /\ g.flag_read_done =>
           q.pkey \in Keys /\ (~setup.shared => prim'[q.pkey] # 0)
  PROVE  IInv'
<1> DEFINE u == Used(g.access_mode, q)
<1>1. /\ state = "running" /\ f' = [f EXCEPT ![c] = g] /\ p' = [p EXCEPT ![c] = u]
      /\ last' = [conn |-> c, op |-> op, status |-> status]
      /\ setup' = setup /\ state' = state
  BY DEF Answer
<1>2. /\ TypeOK /\ Fixed /\ IndexesAgree /\ LockedStands /\ Alone /\ ReadStands
      /\ UpdateFindsRecord /\ c \in Conns /\ g \in Cob_file
      /\ g.access_mode = setup.access[c]
  BY DEF IInv, Runs, Fine
<1>3. K \in Nat \ {0} /\ A \in Nat \ {0} /\ setup.access[c] \in AccessModes
  BY <1>2, StateShape
<1>4. /\ u \in Driver /\ u.lock = q.lock
      /\ setup.access[c] = "SEQUENTIAL" => u = q
  BY <1>2, <1>3, UsedResult
<1> HIDE DEF u
<1>5. /\ f' \in [Conns -> Cob_file] /\ f'[c] = g /\ \A d \in Conns \ {c} : f'[d] = f[d]
      /\ p' \in [Conns -> Driver] /\ p'[c] = u /\ \A d \in Conns \ {c} : p'[d] = p[d]
  BY <1>1, <1>2, <1>4 DEF TypeOK
<1>6. TypeOK'
  <2>1. last' \in [conn : Conns \cup {"none"}, op : Statements, status : 0..99]
    BY <1>1, <1>2, Zenon
  <2>2. prim' \in [Keys -> 0..A] /\ alts' \in [1..A -> Seq([prim : Keys, dup : IF setup.dups THEN 1..K ELSE {0}])]
    BY DEF Agreed, Entry, Numbers
  <2>3. setup \in Setup /\ state \in {"running", "rekeyed", "garbage", "gone"}
    BY <1>2 DEF TypeOK
  <2> QED
    BY <1>1, <1>5, <2>1, <2>2, <2>3 DEF TypeOK
<1>7. Fixed'
  <2>1. \A d \in Conns : Fine(f'[d], setup.access[d])
    BY <1>2, <1>5 DEF Fixed
  <2> QED
    BY <1>1, <2>1 DEF Fixed
<1>8. IndexesAgree'
  <2>1. \A a \in 1..A : Prims(alts'[a]) = {k \in Keys : prim'[k] = a} /\ Ordered(alts'[a])
    BY DEF Agreed
  <2> QED
    BY <1>1, <2>1 DEF IndexesAgree, Prims, Ordered
<1>9. LockedStands'
  <2>1. \A d \in Conns \ {c} : p[d].lock # 0 =>
           prim'[p[d].lock] # 0 /\ \A b \in Conns \ {d} : p[b].lock # p[d].lock
    BY <1>2 DEF LockedStands, OthersStand
  <2>2. q.lock # 0 => prim'[q.lock] # 0 /\ \A d \in Conns \ {c} : p[d].lock # q.lock
    BY DEF LockStands
  <2> QED
    BY <1>2, <1>4, <1>5, <2>1, <2>2 DEF LockedStands
<1>10. Alone'
  <2>1. ~setup.shared => q.lock = 0 /\ c = CHOOSE d \in Conns : TRUE
    BY DEF LockStands, Runs
  <2> QED
    BY <1>1, <1>2, <1>4, <1>5, <2>1 DEF Alone
<1>11. ReadStands'
  <2>1. ASSUME NEW d \in Conns, f'[d].access_mode = "SEQUENTIAL", f'[d].flag_read_done
        PROVE  p'[d].pkey \in Keys /\ (~setup.shared => prim'[p'[d].pkey] # 0)
    <3>1. CASE d = c
      BY <1>2, <1>4, <1>5, <2>1, <3>1
    <3>2. CASE d # c
      <4>1. f'[d] = f[d] /\ p'[d] = p[d]
        BY <1>5, <3>2
      <4>2. setup.shared
        BY <2>1, <3>2, <4>1, <1>2 DEF Alone, Runs
      <4> QED
        BY <1>2, <2>1, <4>1, <4>2 DEF ReadStands, Sequential
    <3> QED
      BY <3>1, <3>2
  <2> QED
    BY <1>1, <2>1 DEF ReadStands, Sequential
<1>12. UpdateFindsRecord'
  BY <1>1 DEF UpdateFindsRecord
<1> QED
  BY <1>6, <1>7, <1>8, <1>9, <1>10, <1>11, <1>12 DEF IInv

(* What holds of the databases and the locks before a statement. *)
LEMMA Before ==
  ASSUME IInv, NEW c \in Conns
  PROVE  /\ Agreed(prim, alts) /\ OthersStand(c, prim) /\ LockStands(c, p[c].lock, prim)
         /\ Fine(f[c], setup.access[c]) /\ f[c].access_mode = setup.access[c]
         /\ p[c] \in Driver
<1>1. /\ TypeOK /\ Fixed /\ IndexesAgree /\ LockedStands /\ Alone
  BY DEF IInv
<1>2. Agreed(prim, alts)
  <2>1. prim \in [Keys -> 0..A] /\ alts \in [1..A -> Seq(Entry)]
    BY <1>1 DEF TypeOK, Entry, Numbers
  <2> QED
    BY <1>1, <2>1, AgreeShape DEF Agreed
<1>3. OthersStand(c, prim)
  BY <1>1 DEF OthersStand, LockedStands
<1>4. LockStands(c, p[c].lock, prim)
  BY <1>1 DEF LockStands, LockedStands, Alone
<1>5. Fine(f[c], setup.access[c]) /\ f[c].access_mode = setup.access[c]
  BY <1>1 DEF Fixed, Fine
<1> QED
  BY <1>1, <1>2, <1>3, <1>4, <1>5, StateShape

(* A statement that is refused, or that leaves the databases alone and     *)
(* takes no lock.                                                          *)
LEMMA ReadOnlyKeeps ==
  ASSUME IInv, NEW c, Runs(c), NEW g, Fine(g, setup.access[c]), g.flag_read_done = FALSE,
         NEW q \in Driver, q.lock \in {0, p[c].lock},
         NEW op \in Statements, NEW status \in 0..99, Answer(c, op, status, g, q),
         UNCHANGED file
  PROVE  IInv'
<1>1. prim' = prim /\ alts' = alts /\ c \in Conns
  BY DEF file, Runs
<1>2. Agreed(prim', alts') /\ OthersStand(c, prim') /\ LockStands(c, p[c].lock, prim')
  BY <1>1, Before
<1>3. LockStands(c, q.lock, prim')
  BY <1>2 DEF LockStands
<1> QED
  BY <1>2, <1>3, AnswerKeeps

(* A refused statement keeps the invariant. *)
LEMMA RefusedKeeps ==
  ASSUME IInv, NEW c, Runs(c), NEW g, Fine(g, setup.access[c]), g.flag_read_done = FALSE,
         NEW op \in Statements, NEW status \in 0..99, Refused(c, op, status, g)
  PROVE  IInv'
<1>1. c \in Conns /\ p[c] \in Driver
  BY Before DEF Runs
<1>2. Answer(c, op, status, g, p[c]) /\ UNCHANGED file
  BY DEF Refused
<1> QED
  BY <1>1, <1>2, ReadOnlyKeeps-----------------------------------------------------------------------------
(* OPEN, CLOSE, UNLOCK and the end of a process.                           *)

(* Min gives the least one. *)
LEMMA MinResult ==
  ASSUME NEW S \in SUBSET Nat, S # {}
  PROVE  Min(S) \in S /\ \A m \in S : Min(S) <= m
BY LeastExists, Zenon DEF Min

(* The databases of a file opened OUTPUT. *)
LEMMA EmptyAgreed ==
  ASSUME A \in Nat \ {0}
  PROVE  Agreed([k \in Keys |-> 0], [a \in 1..A |-> <<>>])
<1>1. [k \in Keys |-> 0] \in [Keys -> 0..A]
  BY SMT
<1>2. [a \in 1..A |-> <<>>] \in [1..A -> Seq(Entry)]
  OBVIOUS
<1>3. \A a \in 1..A : {k \in Keys : [x \in Keys |-> 0][k] = a} = {}
  BY SMT
<1>4. Prims(<<>>) = {} /\ Ordered(<<>>)
  BY DEF Prims, Ordered
<1> QED
  BY <1>1, <1>2, <1>3, <1>4 DEF Agreed

(* Touch keeps the record fine. *)
LEMMA TouchFine ==
  ASSUME NEW g, NEW a, Fine(g, a)
  PROVE  Fine(Touch(g), a) /\ Touch(g).flag_read_done = FALSE
<1>1. g \in Cob_file /\ g.open_mode # "LOCKED"
  BY DEF Fine
<1>2. Same(g, Touch(g)) /\ Touch(g).flag_read_done = FALSE /\ Touch(g).open_mode = g.open_mode
  BY <1>1, TouchEffect
<1> QED
  BY <1>1, <1>2, FineKept

(* The names of the statements, as the type invariant wants them. *)
LEMMA NamesTyped ==
  /\ "OPEN" \in Statements /\ "CLOSE" \in Statements /\ "UNLOCK" \in Statements /\ "CRASH" \in Statements
  /\ "START" \in Statements /\ "READ KEY" \in Statements /\ "READ NEXT" \in Statements
  /\ "READ PREVIOUS" \in Statements /\ "WRITE" \in Statements /\ "REWRITE" \in Statements
  /\ "DELETE" \in Statements /\ "LOST" \in Statements
BY DEF Statements

(* OPEN keeps the invariant. *)
LEMMA OpenKeeps ==
  ASSUME IInv, NEW c, Runs(c), NEW mode \in OpenOptions, Open(c, mode)
  PROVE  IInv'
<1>1. /\ c \in Conns /\ TypeOK /\ Alone /\ Fine(f[c], setup.access[c]) /\ f[c] \in Cob_file
      /\ K \in Nat \ {0} /\ A \in Nat \ {0}
  BY Before, StateShape DEF IInv, Runs, Fine
<1>2. CASE Refused(c, "OPEN", OpenCheck(f[c], mode, FALSE),
                   IF f[c].open_mode = "CLOSED" THEN BeginOpen(f[c]) ELSE Touch(f[c]))
  <2>1. OpenCheck(f[c], mode, FALSE) = ALREADY_OPEN /\ f[c].open_mode # "CLOSED"
    BY <1>1, <1>2, Checks DEF Refused
  <2>2. Refused(c, "OPEN", ALREADY_OPEN, Touch(f[c]))
    BY <1>2, <2>1
  <2>3. Fine(Touch(f[c]), setup.access[c]) /\ Touch(f[c]).flag_read_done = FALSE
    BY <1>1, TouchFine
  <2>4. ALREADY_OPEN \in 0..99
    BY DEF ALREADY_OPEN
  <2> QED
    BY <2>2, <2>3, <2>4, NamesTyped, RefusedKeeps
<1>3. CASE /\ OpenCheck(f[c], mode, FALSE) = CallDriver
           /\ setup.shared => mode \in {"INPUT", "I_O"}
           /\ prim' = IF mode = "OUTPUT" THEN [k \in Keys |-> 0] ELSE prim
           /\ alts' = IF mode = "OUTPUT" THEN [a \in 1..A |-> <<>>] ELSE alts
           /\ LET some == {k \in Keys : prim[k] # 0}
              IN Answer(c, "OPEN", SUCCESS, AfterOpen(f[c], mode, "ok"),
                        IF some = {} \/ mode = "OUTPUT" THEN NewDriver
                        ELSE [NewDriver EXCEPT !.last0 = Min(some), !.data = TRUE])
  <2> DEFINE some == {k \in Keys : prim[k] # 0}
             q1 == [NewDriver EXCEPT !.last0 = Min(some)]
             q2 == [q1 EXCEPT !.data = TRUE]
             q == IF some = {} \/ mode = "OUTPUT" THEN NewDriver ELSE q2
             g == AfterOpen(f[c], mode, "ok")
  <2>1. Answer(c, "OPEN", SUCCESS, g, q)
    BY <1>3
  <2>2. Fine(g, setup.access[c]) /\ g.flag_read_done = FALSE
    <3>1. Same(f[c], g) /\ g.open_mode = mode /\ g.flag_read_done = FALSE
      BY <1>1, OpenEffect
    <3> HIDE DEF g
    <3> QED
      BY <1>1, <3>1, FineKept DEF OpenOptions
  <2>3. q \in Driver /\ q.lock = 0
    <3>1. NewDriver \in Driver /\ NewDriver.lock = 0
      BY <1>1, NewDriverTyped
    <3>2. ASSUME some # {} PROVE q2 \in Driver /\ q2.lock = 0
      <4>1. some \in SUBSET Nat
        BY <1>1 DEF Keys
      <4>2. Min(some) \in Keys
        BY <3>2, <4>1, MinResult
      <4>3. Min(some) \in 0..K
        BY <1>1, <4>2 DEF Keys
      <4>4. q1 \in Driver
        BY <3>1, <4>3, DriverField, Zenon
      <4>5. q1.lock = 0
        BY <3>1, <4>4 DEF Driver
      <4> HIDE DEF q1
      <4>6. q2 \in Driver
        BY <4>4, DriverField
      <4> QED
        BY <4>4, <4>5, <4>6 DEF Driver
    <3> QED
      BY <3>1, <3>2
  <2>4. Agreed(prim', alts')
    BY <1>1, <1>3, Before, EmptyAgreed
  <2>5. OthersStand(c, prim')
    <3>1. CASE mode = "OUTPUT"
      BY <1>1, <1>3, <3>1 DEF OthersStand, Alone
    <3>2. CASE mode # "OUTPUT"
      BY <1>1, <1>3, <3>2, Before
    <3> QED
      BY <3>1, <3>2
  <2>6. SUCCESS \in 0..99
    BY DEF SUCCESS
  <2> HIDE DEF q, g
  <2>7. LockStands(c, q.lock, prim')
    BY <2>3 DEF LockStands
  <2> QED
    BY <2>1, <2>2, <2>3, <2>4, <2>5, <2>6, <2>7, NamesTyped, AnswerKeeps
<1> QED
  BY <1>2, <1>3 DEF Open

(* CLOSE keeps the invariant. *)
LEMMA CloseKeeps ==
  ASSUME IInv, NEW c, Runs(c), Close(c)
  PROVE  IInv'
<1>1. /\ c \in Conns /\ TypeOK /\ Fine(f[c], setup.access[c]) /\ f[c] \in Cob_file
      /\ K \in Nat \ {0} /\ A \in Nat \ {0}
  BY Before, StateShape DEF IInv, Runs, Fine
<1>2. CASE Refused(c, "CLOSE", CloseCheck(f[c]), Touch(f[c]))
  <2>1. CloseCheck(f[c]) = NOT_OPEN
    BY <1>1, <1>2, Checks DEF Refused
  <2>2. Fine(Touch(f[c]), setup.access[c]) /\ Touch(f[c]).flag_read_done = FALSE
    BY <1>1, TouchFine
  <2>3. NOT_OPEN \in 0..99
    BY DEF NOT_OPEN
  <2> QED
    BY <1>2, <2>1, <2>2, <2>3, NamesTyped, RefusedKeeps
<1>3. CASE /\ Answer(c, "CLOSE", SUCCESS, AfterClose(f[c], "NORMAL", SUCCESS), NewDriver)
           /\ UNCHANGED file
  <2> DEFINE g == AfterClose(f[c], "NORMAL", SUCCESS)
  <2>1. Same(f[c], g) /\ g.flag_read_done = FALSE /\ g.open_mode = "CLOSED"
    BY <1>1, CloseEffect
  <2> HIDE DEF g
  <2>2. Fine(g, setup.access[c])
    BY <1>1, <2>1, FineKept
  <2>3. NewDriver \in Driver /\ NewDriver.lock = 0 /\ SUCCESS \in 0..99
    BY <1>1, NewDriverTyped DEF SUCCESS
  <2>4. Answer(c, "CLOSE", SUCCESS, g, NewDriver) /\ UNCHANGED file
    BY <1>3 DEF g
  <2> QED
    BY <2>1, <2>2, <2>3, <2>4, NamesTyped, ReadOnlyKeeps
<1> QED
  BY <1>2, <1>3 DEF Close

(* UNLOCK keeps the invariant. *)
LEMMA UnlockKeeps ==
  ASSUME IInv, NEW c, Runs(c), Unlock(c)
  PROVE  IInv'
<1>1. /\ c \in Conns /\ TypeOK /\ Alone /\ ReadStands /\ Fine(f[c], setup.access[c])
      /\ f[c].access_mode = setup.access[c]
  BY Before DEF IInv, Runs
<1> DEFINE q == Unlocked(p[c])
<1>2. q \in Driver /\ q.lock = 0 /\ q.pkey = p[c].pkey
  BY <1>1, UnlockedResult
<1>3. prim' = prim /\ alts' = alts
  BY DEF Unlock, file
<1>4. Answer(c, "UNLOCK", SUCCESS, f[c], q) /\ SUCCESS \in 0..99
  BY DEF Unlock, SUCCESS
<1> HIDE DEF q
<1>5. Agreed(prim', alts') /\ OthersStand(c, prim') /\ LockStands(c, q.lock, prim')
  BY <1>1, <1>2, <1>3, Before DEF LockStands
<1>6. setup.access[c] = "SEQUENTIAL" /\ f[c].flag_read_done =>
        q.pkey \in Keys /\ (~setup.shared => prim'[q.pkey] # 0)
  BY <1>1, <1>2, <1>3 DEF ReadStands, Sequential
<1> QED
  BY <1>1, <1>2, <1>4, <1>5, <1>6, NamesTyped, AnswerKeeps

(* A crash keeps the invariant. *)
LEMMA CrashKeeps ==
  ASSUME IInv, NEW c, Runs(c), Crash(c)
  PROVE  IInv'
<1>1. /\ c \in Conns /\ TypeOK /\ Fine(f[c], setup.access[c])
      /\ f[c].access_mode = setup.access[c] /\ setup.access[c] \in AccessModes
      /\ K \in Nat \ {0} /\ A \in Nat \ {0}
  BY Before, StateShape DEF IInv, Runs
<1> DEFINE g == NewFile([organization |-> "INDEXED", access_mode |-> setup.access[c],
                         flag_optional |-> FALSE, special |-> 0, linage |-> FALSE])
<1>2. /\ g \in Cob_file /\ g.organization = "INDEXED" /\ g.access_mode = setup.access[c]
      /\ g.special = 0 /\ g.flag_optional = FALSE /\ g.flag_nonexistent = FALSE
      /\ g.open_mode = "CLOSED" /\ g.flag_read_done = FALSE
  BY <1>1, NewEffect
<1>3. Answer(c, "CRASH", SUCCESS, g, NewDriver) /\ UNCHANGED file
  BY <1>1 DEF Crash
<1> HIDE DEF g
<1>4. Fine(g, setup.access[c])
  BY <1>2 DEF Fine
<1>5. NewDriver \in Driver /\ NewDriver.lock = 0 /\ SUCCESS \in 0..99
  BY <1>1, NewDriverTyped DEF SUCCESS
<1> QED
  BY <1>2, <1>3, <1>4, <1>5, NamesTyped, ReadOnlyKeeps

-----------------------------------------------------------------------------
(* START and the READs.                                                    *)

(* The driver after a search that may fail. *)
LEMMA SearchedResult ==
  ASSUME NEW q \in Driver, NEW i \in {0, 1}, NEW e
  PROVE  LET s == Searched(q, i, e)
         IN  /\ s \in Driver /\ s.index = i /\ s.lock = q.lock /\ s.pkey = q.pkey
<1> DEFINE q1 == [q EXCEPT !.index = i]
           q2 == [q1 EXCEPT !.data = q1.data \/ e # Nothing]
<1>1. q1 \in Driver
  BY DriverField
<1>2. q1.index = i /\ q1.lock = q.lock /\ q1.pkey = q.pkey /\ q1.data = q.data
  BY DEF Driver
<1> HIDE DEF q1
<1>3. q2 \in Driver
  BY <1>1, DriverField
<1>4. q2.index = i /\ q2.lock = q.lock /\ q2.pkey = q.pkey
  BY <1>1, <1>2 DEF Driver
<1>5. Searched(q, i, e) = q2
  BY <1>2 DEF Searched, q1, Driver
<1> QED
  BY <1>3, <1>4, <1>5

(* The driver after it has read entry e, and its position. *)
LEMMA PositionAtResult ==
  ASSUME TypeOK, IndexesAgree, NEW q \in Driver, NEW e \in Entries(q.index)
  PROVE  LET s == PositionAt(q, e)
         IN  /\ s \in Driver /\ s.lock = q.lock /\ s.pkey = q.pkey /\ s.index = q.index
             /\ e.prim = IF s.index = 0 THEN s.last0 ELSE s.lastp
             /\ Position(s) = <<e.key, e.dup>>
<1>1. q.index \in {0, 1} /\ K \in Nat \ {0} /\ A \in Nat \ {0}
  BY StateShape DEF Driver
<1>2. /\ e.key \in 1..(IF q.index = 0 THEN K ELSE A) /\ e.dup \in 0..K /\ e.prim \in Keys
  BY <1>1, EntriesShape
<1>3. CASE q.index = 0
  <2> DEFINE q1 == [q EXCEPT !.last0 = e.key]
             q2 == [q1 EXCEPT !.data = TRUE]
  <2>1. PositionAt(q, e) = q2
    BY <1>3 DEF PositionAt
  <2>2. e.key \in 0..K
    BY <1>1, <1>2, <1>3
  <2>3. q1 \in Driver
    BY <2>2, DriverField, Zenon
  <2>4. q1.last0 = e.key /\ q1.lock = q.lock /\ q1.pkey = q.pkey /\ q1.index = 0
    BY <1>3 DEF Driver
  <2> HIDE DEF q1
  <2>5. q2 \in Driver
    BY <2>3, DriverField
  <2>6. q2.last0 = e.key /\ q2.lock = q.lock /\ q2.pkey = q.pkey /\ q2.index = 0
    BY <2>3, <2>4 DEF Driver
  <2> HIDE DEF q2
  <2>7. e.prim = e.key /\ e.dup = 0
    BY <1>3 DEF Entries
  <2>8. Position(q2) = <<e.key, e.dup>>
    BY <2>6, <2>7 DEF Position, LastKey, Numbered
  <2> QED
    BY <1>3, <2>1, <2>5, <2>6, <2>7, <2>8
<1>4. CASE q.index = 1
  <2> DEFINE q1 == [q EXCEPT !.last1 = e.key]
             q2 == [q1 EXCEPT !.lastp = e.prim]
             q3 == [q2 EXCEPT !.data = TRUE]
             q4 == [q3 EXCEPT !.dup = IF setup.dups THEN e.dup ELSE q.dup]
  <2>2. e.key \in 0..A /\ e.prim \in 0..K
    BY <1>1, <1>2, <1>4 DEF Keys
  <2>3. q1 \in Driver
    BY <2>2, DriverField, Zenon
  <2>4. /\ q1.last1 = e.key /\ q1.lock = q.lock /\ q1.pkey = q.pkey /\ q1.index = 1
        /\ q1.dup = q.dup
    BY <1>4 DEF Driver
  <2>5. q2 \in Driver
    BY <2>2, <2>3, DriverField, Zenon
  <2>6. /\ q2.last1 = e.key /\ q2.lastp = e.prim /\ q2.lock = q.lock /\ q2.pkey = q.pkey
        /\ q2.index = 1 /\ q2.dup = q.dup
    BY <2>3, <2>4 DEF Driver
  <2>7. q3 \in Driver
    BY <2>5, DriverField
  <2>8. /\ q3.last1 = e.key /\ q3.lastp = e.prim /\ q3.lock = q.lock /\ q3.pkey = q.pkey
        /\ q3.index = 1 /\ q3.dup = q.dup
    BY <2>5, <2>6 DEF Driver
  <2>9. (IF setup.dups THEN e.dup ELSE q.dup) \in 0..K
    BY <1>2 DEF Driver
  <2>10. q4 \in Driver
    BY <2>7, <2>9, DriverField, Zenon
  <2>11. /\ q4.last1 = e.key /\ q4.lastp = e.prim /\ q4.lock = q.lock /\ q4.pkey = q.pkey
         /\ q4.index = 1 /\ q4.dup = IF setup.dups THEN e.dup ELSE q.dup
    BY <2>7, <2>8 DEF Driver
  <2>1. PositionAt(q, e) = q4
    <3>1. PositionAt(q, e) = [q EXCEPT !.last1 = e.key, !.lastp = e.prim, !.data = TRUE,
                                       !.dup = IF setup.dups THEN e.dup ELSE @]
      BY <1>4 DEF PositionAt
    <3> QED
      BY <3>1 DEF Driver
  <2> HIDE DEF q4
  <2>12. ~setup.dups => e.dup = 0
    <3>1. PICK a \in 1..A : \E n \in DOMAIN alts[a] : e.dup = alts[a][n].dup
      BY <1>4 DEF Entries
    <3>2. alts[a] \in Seq(Entry)
      BY StateShape
    <3>3. \A n \in DOMAIN alts[a] : alts[a][n] \in Entry
      BY <3>1, <3>2
    <3> QED
      BY <3>1, <3>3 DEF Entry, Numbers
  <2>13. Position(q4) = <<e.key, e.dup>>
    BY <2>11, <2>12 DEF Position, LastKey, Numbered
  <2> QED
    BY <1>4, <2>1, <2>10, <2>11, <2>13
<1> QED
  BY <1>1, <1>3, <1>4

(* START keeps the invariant. *)
LEMMA StartKeeps ==
  ASSUME IInv, NEW c, Runs(c), NEW i \in {0, 1}, NEW v, NEW cond \in Conditions,
         Start(c, i, v, cond)
  PROVE  IInv'
<1>1. /\ c \in Conns /\ TypeOK /\ IndexesAgree /\ Fine(f[c], setup.access[c])
      /\ f[c] \in Cob_file /\ f[c].open_mode # "LOCKED" /\ p[c] \in Driver
      /\ setup.dups \in BOOLEAN
  BY Before, StateShape DEF IInv, Runs, Fine
<1> DEFINE L == Entries(i)
           e == Found(L, v, cond, i = 1 /\ setup.dups)
           q == Searched(p[c], i, SetRange(L, v))
<1>2. \A h \in {BeginStart(f[c]), AfterStart(f[c], SUCCESS), AfterStart(f[c], KEY_NOT_EXISTS)} :
        Fine(h, setup.access[c]) /\ h.flag_read_done = FALSE
  <2>1. \A h \in {BeginStart(f[c]), AfterStart(f[c], SUCCESS), AfterStart(f[c], KEY_NOT_EXISTS)} :
          Same(f[c], h) /\ h.flag_read_done = FALSE /\ h.open_mode = f[c].open_mode
    BY <1>1, StartEffect
  <2> QED
    BY <1>1, <2>1, FineKept
<1>3. SUCCESS \in 0..99 /\ KEY_NOT_EXISTS \in 0..99 /\ INPUT_DENIED \in 0..99
  BY DEF SUCCESS, KEY_NOT_EXISTS, INPUT_DENIED
<1>4. CASE Refused(c, "START", StartCheck(f[c]), BeginStart(f[c]))
  <2>1. StartCheck(f[c]) = INPUT_DENIED
    BY <1>1, <1>4, Checks DEF Refused
  <2> QED
    BY <1>2, <1>3, <1>4, <2>1, NamesTyped, RefusedKeeps
<1>5. CASE /\ IF e = Nothing
              THEN Answer(c, "START", KEY_NOT_EXISTS, AfterStart(f[c], KEY_NOT_EXISTS), q)
              ELSE Answer(c, "START", SUCCESS, AfterStart(f[c], SUCCESS), PositionAt(q, e))
           /\ UNCHANGED file
  <2>1. q \in Driver /\ q.index = i /\ q.lock = p[c].lock
    BY <1>1, SearchedResult
  <2>2. e \in L \cup {Nothing}
    BY <1>1, EntriesShape, FoundResult
  <2> HIDE DEF q, e
  <2>3. CASE e = Nothing
    BY <1>2, <1>3, <1>5, <2>1, <2>3, NamesTyped, ReadOnlyKeeps
  <2>4. CASE e # Nothing
    <3>1. e \in Entries(q.index)
      BY <2>1, <2>2, <2>4
    <3>2. PositionAt(q, e) \in Driver /\ PositionAt(q, e).lock = p[c].lock
      BY <1>1, <2>1, <3>1, PositionAtResult
    <3> QED
      BY <1>2, <1>3, <1>5, <2>4, <3>2, NamesTyped, ReadOnlyKeeps
  <2> QED
    BY <2>3, <2>4
<1> QED
  BY <1>4, <1>5 DEF Start

(* A READ that has come to an entry keeps the invariant. *)
LEMMA DeliverKeeps ==
  ASSUME IInv, NEW c, Runs(c), NEW op \in Statements, NEW how \in {"KEY", "NEXT", "PREVIOUS"},
         NEW q \in Driver, q.lock = 0, NEW e \in Entries(q.index), NEW opt \in LockOpts,
         Deliver(c, op, how, e, q, opt), UNCHANGED file
  PROVE  IInv'
<1>1. /\ c \in Conns /\ TypeOK /\ IndexesAgree /\ Fine(f[c], setup.access[c])
      /\ f[c] \in Cob_file /\ f[c].open_mode # "LOCKED" /\ q.index \in {0, 1}
      /\ Agreed(prim, alts) /\ OthersStand(c, prim) /\ K \in Nat
  BY Before, StateShape DEF IInv, Runs, Fine, Driver
<1>2. SUCCESS \in 0..99 /\ RECORD_LOCKED \in 0..99 /\ prim' = prim /\ alts' = alts
  BY DEF SUCCESS, RECORD_LOCKED, file
<1>3. e.prim \in Keys /\ prim[e.prim] # 0
  BY <1>1, EntriesShape
<1>4. CASE opt # "ignore" /\ Blocked(c, e.prim)
  <2> DEFINE g == AfterRead(f[c], how, RECORD_LOCKED)
  <2>1. Same(f[c], g) /\ g.flag_read_done = FALSE /\ g.open_mode = f[c].open_mode
    BY <1>1, NoReadEffect
  <2>2. Answer(c, op, RECORD_LOCKED, g, q)
    BY <1>4 DEF Deliver
  <2> HIDE DEF g
  <2>3. Fine(g, setup.access[c])
    BY <1>1, <2>1, FineKept
  <2> QED
    BY <1>2, <2>1, <2>2, <2>3, NamesTyped, ReadOnlyKeeps
<1>5. CASE ~(opt # "ignore" /\ Blocked(c, e.prim))
  <2> DEFINE g == AfterRead(f[c], how, SUCCESS)
             s == PositionAt(q, e)
             q1 == [s EXCEPT !.pkey = e.prim]
             q2 == [q1 EXCEPT !.lock = IF ReadLocks(c, opt) THEN e.prim ELSE 0]
  <2>1. Same(f[c], g) /\ g.open_mode = f[c].open_mode
    BY <1>1, ReadEffect
  <2>2. s \in Driver /\ s.lock = 0
    BY <1>1, PositionAtResult
  <2>3. Answer(c, op, SUCCESS, g, [s EXCEPT !.pkey = e.prim,
                                            !.lock = IF ReadLocks(c, opt) THEN e.prim ELSE @])
    BY <1>5 DEF Deliver
  <2> HIDE DEF g, s
  <2>4. e.prim \in 0..K /\ (IF ReadLocks(c, opt) THEN e.prim ELSE 0) \in 0..K
    BY <1>1, <1>3 DEF Keys
  <2>5. q1 \in Driver
    BY <2>2, <2>4, DriverField, Zenon
  <2>6. q1.lock = 0 /\ q1.pkey = e.prim
    BY <2>2 DEF Driver
  <2>7. Answer(c, op, SUCCESS, g, q2)
    <3>1. [s EXCEPT !.pkey = e.prim, !.lock = IF ReadLocks(c, opt) THEN e.prim ELSE @] = q2
      BY <2>2, <2>6 DEF Driver
    <3> QED
      BY <2>3, <3>1
  <2> HIDE DEF q1
  <2>8. q2 \in Driver
    BY <2>4, <2>5, DriverField, Zenon
  <2>9. q2.lock = (IF ReadLocks(c, opt) THEN e.prim ELSE 0) /\ q2.pkey = e.prim
    BY <2>5, <2>6 DEF Driver
  <2> HIDE DEF q2
  <2>10. LockStands(c, q2.lock, prim')
    <3>1. CASE ReadLocks(c, opt)
      <4>1. setup.shared /\ ~Blocked(c, e.prim)
        BY <1>5, <3>1 DEF ReadLocks
      <4> QED
        BY <1>2, <1>3, <2>9, <3>1, <4>1 DEF Blocked, LockStands
    <3>2. CASE ~ReadLocks(c, opt)
      BY <2>9, <3>2 DEF LockStands
    <3> QED
      BY <3>1, <3>2
  <2>11. Fine(g, setup.access[c])
    BY <1>1, <2>1, FineKept
  <2>12. Agreed(prim', alts') /\ OthersStand(c, prim') /\ prim'[q2.pkey] # 0 /\ q2.pkey \in Keys
    BY <1>1, <1>2, <1>3, <2>9
  <2> QED
    BY <1>2, <2>7, <2>8, <2>10, <2>11, <2>12, NamesTyped, AnswerKeeps
<1> QED
  BY <1>4, <1>5
(* READ KEY keeps the invariant. *)
LEMMA ReadKeyKeeps ==
  ASSUME IInv, NEW c, Runs(c), NEW i \in {0, 1}, NEW v, NEW opt \in LockOpts,
         ReadKey(c, i, v, opt)
  PROVE  IInv'
<1>1. /\ c \in Conns /\ TypeOK /\ IndexesAgree /\ Alone /\ Fine(f[c], setup.access[c])
      /\ f[c] \in Cob_file /\ f[c].open_mode # "LOCKED" /\ p[c] \in Driver
  BY Before DEF IInv, Runs, Fine
<1> DEFINE L == Entries(i)
           e == Found(L, v, "EQ", FALSE)
           q == Searched(Unlocked(p[c]), i, SetRange(L, v))
<1>2. \A h \in {RefusedRead(f[c]), AfterRead(f[c], "KEY", KEY_NOT_EXISTS)} :
        Fine(h, setup.access[c]) /\ h.flag_read_done = FALSE
  <2>1. \A h \in {RefusedRead(f[c]), AfterRead(f[c], "KEY", KEY_NOT_EXISTS)} :
          Same(f[c], h) /\ h.flag_read_done = FALSE /\ h.open_mode = f[c].open_mode
    BY <1>1, NoReadEffect
  <2> QED
    BY <1>1, <2>1, FineKept
<1>3. CASE Refused(c, "READ KEY", ReadCheck(f[c], "KEY"), RefusedRead(f[c]))
  <2>1. ReadCheck(f[c], "KEY") \in {READ_ERROR, INPUT_DENIED}
    BY <1>1, <1>3, Checks DEF Refused
  <2>2. ReadCheck(f[c], "KEY") \in 0..99
    BY <2>1, Statuses
  <2> QED
    BY <1>2, <1>3, <2>2, NamesTyped, RefusedKeeps
<1>4. CASE /\ IF e = Nothing
              THEN Answer(c, "READ KEY", KEY_NOT_EXISTS, AfterRead(f[c], "KEY", KEY_NOT_EXISTS), q)
              ELSE Deliver(c, "READ KEY", "KEY", e, q, opt)
           /\ UNCHANGED file
  <2>1. q \in Driver /\ q.index = i /\ q.lock = 0
    BY <1>1, UnlockedResult, SearchedResult
  <2>2. e \in L \cup {Nothing}
    BY <1>1, EntriesShape, FoundResult DEF Conditions
  <2>3. KEY_NOT_EXISTS \in 0..99
    BY DEF KEY_NOT_EXISTS
  <2> HIDE DEF q, e
  <2>4. CASE e = Nothing
    BY <1>2, <1>4, <2>1, <2>3, <2>4, NamesTyped, ReadOnlyKeeps
  <2>5. CASE e # Nothing
    <3>1. e \in Entries(q.index)
      BY <2>1, <2>2, <2>5
    <3>2. "KEY" \in {"KEY", "NEXT", "PREVIOUS"}
      OBVIOUS
    <3> QED
      BY <1>4, <2>1, <2>5, <3>1, <3>2, NamesTyped, DeliverKeeps
  <2> QED
    BY <2>4, <2>5
<1> QED
  BY <1>3, <1>4 DEF ReadKey

(* The entry a READ NEXT or PREVIOUS comes to. *)
Reached(c, how) ==
  LET q == Unlocked(p[c])
      L == Entries(q.index)
  IN IF f[c].flag_first_read # 0 /\ StillThere(L, q) # Nothing
     THEN StillThere(L, q) ELSE Beyond(L, q, Way(f[c], how))

(* The driver finds nothing before it has read anything, or before a START *)
(* has followed OPEN.                                                      *)
TooEarly(c, how) ==
  f[c].flag_first_read # 0 /\
    (~Unlocked(p[c]).data \/ (f[c].flag_first_read = 2 /\ Way(f[c], how) = "PREV"))

(* The entry READ NEXT or PREVIOUS comes to, if there is one. *)
LEMMA ReachedResult ==
  ASSUME TypeOK, IndexesAgree, Alone, NEW c \in Conns, NEW how \in {"NEXT", "PREVIOUS"}
  PROVE  Reached(c, how) \in Entries(Unlocked(p[c]).index) \cup {Nothing}
<1>1. Unlocked(p[c]).index \in {0, 1}
  BY UnlockedResult DEF Driver
<1>2. Listing(Entries(Unlocked(p[c]).index))
  BY <1>1, EntriesShape
<1>3. Way(f[c], how) \in {"FIRST", "LAST", "NEXT", "PREV"}
  BY DEF Way
<1> QED
  BY <1>2, <1>3, PlaceResult DEF Reached

(* The names of the READ statements in order. *)
LEMMA ReadNamed == ReadOp["NEXT"] = "READ NEXT" /\ ReadOp["PREVIOUS"] = "READ PREVIOUS"
BY DEF ReadOp

(* The ways a READ NEXT or PREVIOUS ends. *)
LEMMA ReadNextCases ==
  ASSUME NEW c, NEW how, NEW opt, ReadNext(c, how, opt)
  PROVE  LET q == Unlocked(p[c])
             e == Reached(c, how)
             op == ReadOp[how]
         IN \/ Refused(c, op, ReadCheck(f[c], how), RefusedRead(f[c]))
            \/ /\ UNCHANGED file
               /\ ReadCheck(f[c], how) = CallDriver
               /\ \/ /\ TooEarly(c, how) \/ e = Nothing
                     /\ Answer(c, op, END_OF_FILE, AfterRead(f[c], how, END_OF_FILE), q)
                  \/ /\ ~TooEarly(c, how) /\ e # Nothing
                     /\ Deliver(c, op, how, e, q, opt)
BY Zenon DEF ReadNext, Reached, TooEarly

(* READ NEXT and PREVIOUS keep the invariant. *)
LEMMA ReadNextKeeps ==
  ASSUME IInv, NEW c, Runs(c), NEW how \in {"NEXT", "PREVIOUS"}, NEW opt \in LockOpts,
         ReadNext(c, how, opt)
  PROVE  IInv'
<1>1. /\ c \in Conns /\ TypeOK /\ IndexesAgree /\ Alone /\ Fine(f[c], setup.access[c])
      /\ f[c] \in Cob_file /\ f[c].open_mode # "LOCKED" /\ p[c] \in Driver
      /\ how \in {"KEY", "NEXT", "PREVIOUS"}
  BY Before DEF IInv, Runs, Fine
<1> DEFINE q == Unlocked(p[c])
           e == Reached(c, how)
           op == ReadOp[how]
<1>2. \A h \in {RefusedRead(f[c]), AfterRead(f[c], how, END_OF_FILE)} :
        Fine(h, setup.access[c]) /\ h.flag_read_done = FALSE
  <2>1. \A h \in {RefusedRead(f[c]), AfterRead(f[c], how, END_OF_FILE)} :
          Same(f[c], h) /\ h.flag_read_done = FALSE /\ h.open_mode = f[c].open_mode
    BY <1>1, NoReadEffect
  <2> QED
    BY <1>1, <2>1, FineKept
<1>3. op \in Statements
  <2>1. op \in {"READ NEXT", "READ PREVIOUS"}
    BY ReadNamed
  <2> QED
    BY <2>1, NamesTyped
<1>4. q \in Driver /\ q.lock = 0
  BY <1>1, UnlockedResult
<1>5. e \in Entries(q.index) \cup {Nothing}
  BY <1>1, ReachedResult
<1>6. \/ Refused(c, op, ReadCheck(f[c], how), RefusedRead(f[c]))
      \/ /\ UNCHANGED file
         /\ \/ Answer(c, op, END_OF_FILE, AfterRead(f[c], how, END_OF_FILE), q)
            \/ e # Nothing /\ Deliver(c, op, how, e, q, opt)
  BY ReadNextCases
<1> HIDE DEF q, e, op
<1>7. CASE Refused(c, op, ReadCheck(f[c], how), RefusedRead(f[c]))
  <2>1. ReadCheck(f[c], how) \in {READ_ERROR, INPUT_DENIED}
    BY <1>1, <1>7, Checks DEF Refused
  <2>2. ReadCheck(f[c], how) \in 0..99
    BY <2>1, Statuses
  <2> QED
    BY <1>2, <1>3, <1>7, <2>2, RefusedKeeps
<1>8. CASE UNCHANGED file /\ Answer(c, op, END_OF_FILE, AfterRead(f[c], how, END_OF_FILE), q)
  <2>1. END_OF_FILE \in 0..99
    BY DEF END_OF_FILE
  <2> QED
    BY <1>2, <1>3, <1>4, <1>8, <2>1, ReadOnlyKeeps
<1>9. CASE UNCHANGED file /\ e # Nothing /\ Deliver(c, op, how, e, q, opt)
  <2>1. e \in Entries(q.index)
    BY <1>5, <1>9
  <2> QED
    BY <1>1, <1>3, <1>4, <1>9, <2>1, DeliverKeeps
<1> QED
  BY <1>6, <1>7, <1>8, <1>9

-----------------------------------------------------------------------------
(* The databases after a WRITE, REWRITE or DELETE.                         *)

(* A record that is new in both databases: they agree. *)
LEMMA WithAgreed ==
  ASSUME TypeOK, NEW prm, NEW als, Agreed(prm, als), NEW k \in Keys, prm[k] = 0,
         NEW a \in 1..A, als[a] = alts[a], Room(a), ~setup.dups => alts[a] = <<>>
  PROVE  Agreed([prm EXCEPT ![k] = a], With(als, k, a))
<1> DEFINE e == [prim |-> k, dup |-> IF setup.dups THEN NextDupno(a) ELSE 0]
           t == alts[a]
           np == [prm EXCEPT ![k] = a]
           na == With(als, k, a)
<1>1. /\ K \in Nat \ {0} /\ A \in Nat \ {0} /\ t \in Seq(Entry) /\ setup.dups \in BOOLEAN
      /\ setup.keys \in 1..K
  BY StateShape
<1>2. /\ prm \in [Keys -> 0..A] /\ als \in [1..A -> Seq(Entry)]
      /\ \A b \in 1..A : Prims(als[b]) = {x \in Keys : prm[x] = b} /\ Ordered(als[b])
  BY DEF Agreed
<1>3. t # <<>> => /\ Len(t) \in DOMAIN t /\ Last(t) = t[Len(t)] /\ Last(t) \in Entry
                  /\ \A n \in DOMAIN t : n \in Nat /\ n <= Len(t)
  BY <1>1 DEF Last
<1>4. e \in Entry
  <2>1. CASE setup.dups
    <3>1. CASE t = <<>>
      BY <1>1, <2>1, <3>1 DEF NextDupno, Entry, Numbers
    <3>2. CASE t # <<>>
      <4>1. Last(t).dup \in 1..K /\ NextDupno(a) = Last(t).dup + 1
        BY <1>3, <2>1, <3>2 DEF Entry, Numbers, NextDupno
      <4>2. NextDupno(a) \in 1..K
        BY <1>1, <2>1, <4>1 DEF Room
      <4> QED
        BY <2>1, <4>2 DEF Entry, Numbers
    <3> QED
      BY <3>1, <3>2
  <2>2. CASE ~setup.dups
    BY <2>2 DEF Entry, Numbers
  <2> QED
    BY <2>1, <2>2
<1>5. ASSUME NEW n \in DOMAIN t
      PROVE  setup.dups /\ t[n].dup < e.dup /\ t[n].prim # e.prim
  <2>1. setup.dups /\ t # <<>> /\ e.dup = Last(t).dup + 1
    BY <1>1 DEF NextDupno
  <2>2. Ordered(t)
    BY <1>2
  <2>3. t[n].dup \in Nat /\ t[Len(t)].dup \in Nat
    <3>1. t[n] \in Entry /\ t[Len(t)] \in Entry
      BY <1>1, <1>3, <2>1
    <3>2. \A x \in Entry : x.dup \in Nat
      BY <1>1 DEF Entry, Numbers
    <3> QED
      BY <3>1, <3>2
  <2>4. n = Len(t) \/ t[n].dup < t[Len(t)].dup
    BY <1>3, <2>1, <2>2 DEF Ordered
  <2>5. t[n].dup < e.dup
    BY <1>3, <2>1, <2>3, <2>4
  <2>6. t[n].prim \in Prims(t)
    BY DEF Prims
  <2>7. t[n].prim # k
    BY <1>2, <2>6
  <2> QED
    BY <2>1, <2>5, <2>7
<1>6. Append(t, e) \in Seq(Entry) /\ Ordered(Append(t, e)) /\ Prims(Append(t, e)) = Prims(t) \cup {k}
  <2>1. Ordered(t) /\ e.prim = k
    BY <1>2
  <2> HIDE DEF e, t
  <2> QED
    BY <1>1, <1>4, <1>5, <2>1, AppendOrdered
<1>7. na = [als EXCEPT ![a] = Append(t, e)]
  BY DEF With
<1> HIDE DEF e, t
<1>8. na \in [1..A -> Seq(Entry)] /\ np \in [Keys -> 0..A]
  BY <1>1, <1>2, <1>6, <1>7
<1>9. ASSUME NEW b \in 1..A
      PROVE  Prims(na[b]) = {x \in Keys : np[x] = b} /\ Ordered(na[b])
  <2>1. CASE b = a
    <3>1. na[b] = Append(t, e)
      BY <1>2, <1>7, <2>1
    <3>2. {x \in Keys : np[x] = b} = {x \in Keys : prm[x] = a} \cup {k}
      BY <1>2, <2>1
    <3> QED
      BY <1>2, <1>6, <2>1, <3>1, <3>2 DEF t
  <2>2. CASE b # a
    <3>1. na[b] = als[b]
      BY <1>2, <1>7, <2>2
    <3>2. b # 0
      BY <1>1
    <3>3. {x \in Keys : np[x] = b} = {x \in Keys : prm[x] = b}
      BY <1>2, <2>2, <3>2
    <3> QED
      BY <1>2, <3>1, <3>3
  <2> QED
    BY <2>1, <2>2
<1> QED
  BY <1>8, <1>9 DEF Agreed

(* A record taken out of both databases: they agree. *)
LEMMA WithoutAgreed ==
  ASSUME TypeOK, Agreed(prim, alts), NEW k \in Keys, prim[k] # 0
  PROVE  /\ Agreed([prim EXCEPT ![k] = 0], Without(alts, k, prim[k]))
         /\ \A b \in 1..A : b # prim[k] => Without(alts, k, prim[k])[b] = alts[b]
<1> DEFINE a == prim[k]
           t == alts[a]
           np == [prim EXCEPT ![k] = 0]
           na == Without(alts, k, a)
<1>1. /\ K \in Nat \ {0} /\ A \in Nat \ {0} /\ a \in 1..A /\ t \in Seq(Entry)
  BY StateShape
<1>2. /\ prim \in [Keys -> 0..A] /\ alts \in [1..A -> Seq(Entry)]
      /\ \A b \in 1..A : Prims(alts[b]) = {x \in Keys : prim[x] = b} /\ Ordered(alts[b])
  BY DEF Agreed
<1>3. /\ Others(t, k) \in Seq(Entry) /\ Ordered(Others(t, k))
      /\ Prims(Others(t, k)) = Prims(t) \ {k}
  BY <1>1, <1>2, OthersResult DEF Kept
<1>4. na = [alts EXCEPT ![a] = Others(t, k)]
  BY DEF Without
<1> HIDE DEF t, na
<1>5. na \in [1..A -> Seq(Entry)] /\ np \in [Keys -> 0..A]
  BY <1>1, <1>2, <1>3, <1>4
<1>6. ASSUME NEW b \in 1..A
      PROVE  Prims(na[b]) = {x \in Keys : np[x] = b} /\ Ordered(na[b])
  <2>1. CASE b = a
    <3>1. na[b] = Others(t, k)
      BY <1>1, <1>2, <1>4, <2>1
    <3>2. {x \in Keys : np[x] = b} = {x \in Keys : prim[x] = a} \ {k}
      BY <1>1, <1>2, <2>1
    <3> QED
      BY <1>1, <1>2, <1>3, <2>1, <3>1, <3>2 DEF t
  <2>2. CASE b # a
    <3>1. na[b] = alts[b]
      BY <1>2, <1>4, <2>2
    <3>2. {x \in Keys : np[x] = b} = {x \in Keys : prim[x] = b}
      BY <1>1, <1>2, <2>2
    <3> QED
      BY <1>2, <3>1, <3>2
  <2> QED
    BY <2>1, <2>2
<1>7. \A b \in 1..A : b # a => na[b] = alts[b]
  BY <1>2, <1>4
<1> QED
  BY <1>5, <1>6, <1>7 DEF Agreed, na
(* No other connector has locked the record. *)
Free(c, k) == \A d \in Conns \ {c} : p[d].lock # k

(* A statement that is refused or finds nothing to do. *)
Fruitless(c, op) ==
  /\ UNCHANGED file
  /\ \E status \in 1..99, q \in Driver : /\ q.lock \in {0, p[c].lock}
                                         /\ Answer(c, op, status, Touch(f[c]), q)

(* A statement that stores r under key k, 0 to delete the record. *)
Changed(c, op, k, r) ==
  /\ Free(c, k)
  /\ prim' = [prim EXCEPT ![k] = r] /\ Agreed(prim', alts')
  /\ \E q \in Driver : /\ q.lock = 0 \/ (q.lock = k /\ r # 0 /\ setup.shared)
                       /\ Answer(c, op, SUCCESS, Touch(f[c]), q)

Lost(c) == \E why \in {"rekeyed", "garbage", "gone"} :
             (why = "gone" => setup.shared) /\ GoAstray(c, why)

(* A statement without effect keeps the invariant. *)
LEMMA FruitlessKeeps ==
  ASSUME IInv, NEW c, Runs(c), NEW op \in Statements, Fruitless(c, op)
  PROVE  IInv'
<1>1. PICK status \in 1..99, q \in Driver : /\ q.lock \in {0, p[c].lock}
                                            /\ Answer(c, op, status, Touch(f[c]), q)
  BY DEF Fruitless
<1>2. Fine(Touch(f[c]), setup.access[c]) /\ Touch(f[c]).flag_read_done = FALSE
  BY Before, TouchFine DEF Runs
<1>3. status \in 0..99 /\ UNCHANGED file
  BY DEF Fruitless
<1> QED
  BY <1>1, <1>2, <1>3, ReadOnlyKeeps

(* A statement that changes a record keeps the invariant. *)
LEMMA ChangedKeeps ==
  ASSUME IInv, NEW c, Runs(c), NEW op \in Statements, NEW k \in Keys, NEW r \in 0..A,
         Changed(c, op, k, r)
  PROVE  IInv'
<1>1. PICK q \in Driver : /\ q.lock = 0 \/ (q.lock = k /\ r # 0 /\ setup.shared)
                          /\ Answer(c, op, SUCCESS, Touch(f[c]), q)
  BY DEF Changed
<1>2. /\ Fine(Touch(f[c]), setup.access[c]) /\ Touch(f[c]).flag_read_done = FALSE
      /\ c \in Conns /\ TypeOK /\ OthersStand(c, prim)
  BY Before, TouchFine DEF Runs, IInv
<1>3. Free(c, k) /\ prim' = [prim EXCEPT ![k] = r] /\ Agreed(prim', alts')
  BY DEF Changed
<1>4. prim \in [Keys -> 0..A] /\ \A d \in Conns : p[d] \in Driver
  BY <1>2, StateShape DEF TypeOK
<1>5. \A x \in Keys : prim'[x] = IF x = k THEN r ELSE prim[x]
  BY <1>3, <1>4
<1>6. OthersStand(c, prim')
  <2>1. ASSUME NEW d \in Conns \ {c}, p[d].lock # 0 PROVE prim'[p[d].lock] # 0
    <3>1. p[d].lock \in Keys
      <4>1. p[d].lock \in 0..K /\ K \in Nat
        BY <1>4, <2>1, IndexedAssumption DEF Driver
      <4> QED
        BY <2>1, <4>1 DEF Keys
    <3>2. p[d].lock # k /\ prim[p[d].lock] # 0
      BY <1>2, <1>3, <2>1 DEF Free, OthersStand
    <3> QED
      BY <1>5, <3>1, <3>2
  <2> QED
    BY <2>1 DEF OthersStand
<1>7. LockStands(c, q.lock, prim')
  BY <1>1, <1>3, <1>5 DEF LockStands, Free
<1>8. SUCCESS \in 0..99
  BY DEF SUCCESS
<1> QED
  BY <1>1, <1>2, <1>3, <1>6, <1>7, <1>8, AnswerKeeps

(* A driver that goes astray keeps the invariant. *)
LEMMA LostKeeps ==
  ASSUME IInv, NEW c, Runs(c), Lost(c)
  PROVE  IInv'
<1>1. PICK why \in {"rekeyed", "garbage", "gone"} : (why = "gone" => setup.shared) /\ GoAstray(c, why)
  BY DEF Lost
<1>2. /\ state' = why /\ last' = [conn |-> c, op |-> "LOST", status |-> KEY_NOT_EXISTS]
      /\ f' = f /\ p' = p /\ prim' = prim /\ alts' = alts /\ setup' = setup
  BY <1>1 DEF GoAstray
<1>3. TypeOK'
  <2>1. c \in Conns \cup {"none"} /\ "LOST" \in Statements /\ KEY_NOT_EXISTS \in 0..99
    <3>1. KEY_NOT_EXISTS \in 0..99
      BY DEF KEY_NOT_EXISTS
    <3> QED
      BY <3>1, NamesTyped DEF Runs
  <2>2. last' \in [conn : Conns \cup {"none"}, op : Statements, status : 0..99]
    BY <1>2, <2>1, Zenon
  <2>3. TypeOK /\ state' \in {"running", "rekeyed", "garbage", "gone"}
    BY <1>1, <1>2 DEF IInv
  <2> QED
    BY <1>2, <2>2, <2>3 DEF TypeOK
<1>4. (Fixed /\ IndexesAgree /\ LockedStands /\ Alone /\ ReadStands)'
  BY <1>2 DEF IInv, Fixed, IndexesAgree, LockedStands, Alone, ReadStands, Sequential
<1>5. UpdateFindsRecord'
  BY <1>1, <1>2 DEF UpdateFindsRecord
<1> QED
  BY <1>3, <1>4, <1>5 DEF IInv

(* A lock taken twice would be blocked; without an environment nothing is. *)
LEMMA BlockedMeaning ==
  ASSUME IInv, NEW c \in Conns, NEW k \in Keys
  PROVE  /\ Blocked(c, k) => prim[k] # 0
         /\ ~Blocked(c, k) => Free(c, k)
         /\ prim[k] = 0 => Free(c, k)
<1>1. K \in Nat \ {0} /\ k # 0
  BY IndexedAssumption DEF Keys
<1> QED
  BY <1>1 DEF IInv, Alone, LockedStands, Blocked, Free

(* Refused by the public interface. *)
LEMMA RefusedFruitless ==
  ASSUME IInv, NEW c \in Conns, NEW op, NEW status \in 1..99, Refused(c, op, status, Touch(f[c]))
  PROVE  Fruitless(c, op)
BY Before DEF Refused, Fruitless

(* What each status of WRITE says of the databases. *)
LEMMA WriteStatusMeaning ==
  ASSUME NEW c, NEW k, NEW a, NEW lock \in BOOLEAN
  PROVE  LET s == WriteStatus(c, k, a, lock)
         IN  /\ s \in {KEY_INVALID, KEY_EXISTS, RECORD_LOCKED, SUCCESS}
             /\ s \in {SUCCESS, RECORD_LOCKED} =>
                  prim[k] = 0 /\ (~setup.dups => alts[a] = <<>>)
             /\ s = RECORD_LOCKED => Blocked(c, k)
<1> DEFINE low == Sequential(c) /\ p[c].last_key > k
           there == Taken(a, k, FALSE) \/ prim[k] # 0
           s == WriteStatus(c, k, a, lock)
<1>1. /\ KEY_INVALID \notin {SUCCESS, RECORD_LOCKED} /\ KEY_EXISTS \notin {SUCCESS, RECORD_LOCKED}
      /\ SUCCESS # RECORD_LOCKED
  BY DEF KEY_INVALID, KEY_EXISTS, RECORD_LOCKED, SUCCESS
<1>2. CASE low
  <2>1. s = KEY_INVALID
    BY <1>2 DEF WriteStatus
  <2> QED
    BY <1>1, <2>1
<1>3. CASE ~low /\ there
  <2>1. s = KEY_EXISTS
    BY <1>3 DEF WriteStatus
  <2> QED
    BY <1>1, <2>1
<1>4. CASE ~low /\ ~there /\ lock /\ Blocked(c, k)
  <2>1. s = RECORD_LOCKED
    BY <1>4 DEF WriteStatus
  <2> QED
    BY <1>1, <1>4, <2>1 DEF Taken
<1>5. CASE ~low /\ ~there /\ ~(lock /\ Blocked(c, k))
  <2>1. s = SUCCESS
    BY <1>5 DEF WriteStatus
  <2> QED
    BY <1>1, <1>5, <2>1 DEF Taken
<1> QED
  BY <1>2, <1>3, <1>4, <1>5

(* WRITE puts one new record, or nothing. *)
LEMMA WriteCases ==
  ASSUME IInv, NEW c, Runs(c), NEW k \in Keys, NEW a \in 1..A, NEW lock \in BOOLEAN,
         Write(c, k, a, lock)
  PROVE  Fruitless(c, "WRITE") \/ (prim[k] = 0 /\ Changed(c, "WRITE", k, a))
<1>1. /\ c \in Conns /\ TypeOK /\ Alone /\ Fine(f[c], setup.access[c]) /\ Agreed(prim, alts)
      /\ K \in Nat \ {0} /\ A \in Nat \ {0}
  BY Before, StateShape DEF IInv, Runs
<1>2. CASE Refused(c, "WRITE", WriteCheck(f[c], TRUE), Touch(f[c]))
  <2>1. WriteCheck(f[c], TRUE) = OUTPUT_DENIED
    BY <1>1, <1>2, Checks DEF Refused
  <2>2. OUTPUT_DENIED \in 1..99
    BY DEF OUTPUT_DENIED
  <2> QED
    BY <1>1, <1>2, <2>1, <2>2, RefusedFruitless
<1> DEFINE status == WriteStatus(c, k, a, lock)
           q == Unlocked(p[c])
           q1 == [q EXCEPT !.last_key = k]
           q2 == [q1 EXCEPT !.data = TRUE]
           q3 == [q2 EXCEPT !.lock = IF status = SUCCESS /\ lock /\ setup.shared THEN k ELSE 0]
<1>3. CASE /\ Room(a)
           /\ Answer(c, "WRITE", status, Touch(f[c]),
                     IF status = KEY_INVALID THEN q
                     ELSE [q EXCEPT !.last_key = k, !.data = TRUE,
                                    !.lock = IF status = SUCCESS /\ lock /\ setup.shared THEN k ELSE @])
           /\ IF status \in {SUCCESS, RECORD_LOCKED}
              THEN prim' = [prim EXCEPT ![k] = a] /\ alts' = With(alts, k, a)
              ELSE UNCHANGED file
  <2>1. q \in Driver /\ q.lock = 0
    BY <1>1, UnlockedResult
  <2>2. /\ status \in {KEY_INVALID, KEY_EXISTS, RECORD_LOCKED, SUCCESS}
        /\ status \in {SUCCESS, RECORD_LOCKED} => prim[k] = 0 /\ (~setup.dups => alts[a] = <<>>)
        /\ status = RECORD_LOCKED => Blocked(c, k)
    BY WriteStatusMeaning
  <2>3. status # RECORD_LOCKED
    BY <1>1, <2>2, BlockedMeaning
  <2> HIDE DEF status, q
  <2>4. k \in 0..K
    BY <1>1 DEF Keys
  <2>5. q1 \in Driver /\ q1.lock = 0
    <3>1. q1 \in Driver
      BY <2>1, <2>4, DriverField, Zenon
    <3> QED
      BY <2>1, <3>1 DEF Driver
  <2> HIDE DEF q1
  <2>6. q2 \in Driver /\ q2.lock = 0
    <3>1. q2 \in Driver
      BY <2>5, DriverField
    <3> QED
      BY <2>5, <3>1 DEF Driver
  <2>7. [q EXCEPT !.last_key = k, !.data = TRUE,
                  !.lock = IF status = SUCCESS /\ lock /\ setup.shared THEN k ELSE @] = q3
    BY <2>1 DEF Driver, q1
  <2> HIDE DEF q2
  <2>8. (IF status = SUCCESS /\ lock /\ setup.shared THEN k ELSE 0) \in 0..K
    BY <1>1, <2>4
  <2>9. q3 \in Driver
    BY <2>6, <2>8, DriverField, Zenon
  <2>10. q3.lock = IF status = SUCCESS /\ lock /\ setup.shared THEN k ELSE 0
    BY <2>6 DEF Driver
  <2> HIDE DEF q3
  <2>11. Answer(c, "WRITE", status, Touch(f[c]), IF status = KEY_INVALID THEN q ELSE q3)
    BY <1>3, <2>7
  <2>12. CASE status # SUCCESS
    <3>1. status \in 1..99 /\ status \notin {SUCCESS, RECORD_LOCKED}
      BY <2>2, <2>3, <2>12 DEF KEY_INVALID, KEY_EXISTS
    <3>2. UNCHANGED file
      BY <1>3, <3>1
    <3>3. q3.lock = 0
      BY <2>10, <2>12
    <3> QED
      BY <2>1, <2>9, <2>11, <3>1, <3>2, <3>3 DEF Fruitless
  <2>13. CASE status = SUCCESS
    <3>1. SUCCESS # KEY_INVALID
      BY DEF SUCCESS, KEY_INVALID
    <3>2. Answer(c, "WRITE", SUCCESS, Touch(f[c]), q3)
      BY <2>11, <2>13, <3>1
    <3>3. prim' = [prim EXCEPT ![k] = a] /\ alts' = With(alts, k, a) /\ prim[k] = 0
      BY <1>3, <2>2, <2>13
    <3>4. Agreed(prim', alts')
      BY <1>1, <1>3, <2>2, <2>13, <3>3, WithAgreed
    <3>5. Free(c, k)
      BY <1>1, <3>3, BlockedMeaning
    <3>6. q3.lock = 0 \/ (q3.lock = k /\ a # 0 /\ setup.shared)
      BY <1>1, <2>10
    <3> QED
      BY <2>9, <3>2, <3>3, <3>4, <3>5, <3>6 DEF Changed
  <2> QED
    BY <2>12, <2>13
<1> QED
  BY <1>2, <1>3 DEF Write
(* q, the record of the driver after UNLOCK, with a key read or not and    *)
(* with a lock or none.                                                    *)
LEMMA UpdateRecord ==
  ASSUME NEW q \in Driver, q.lock = 0, NEW l \in 0..K
  PROVE  /\ [q EXCEPT !.data = TRUE] \in Driver /\ [q EXCEPT !.data = TRUE].lock = 0
         /\ [q EXCEPT !.data = TRUE, !.lock = l] \in Driver
         /\ [q EXCEPT !.data = TRUE, !.lock = l].lock = l
<1> DEFINE q1 == [q EXCEPT !.data = TRUE]
           q2 == [q1 EXCEPT !.lock = l]
<1>1. q1 \in Driver
  BY DriverField
<1>2. q1.lock = 0
  BY DEF Driver
<1>3. [q EXCEPT !.data = TRUE, !.lock = l] = q2
  OBVIOUS
<1> HIDE DEF q1
<1>4. q2 \in Driver
  BY <1>1, DriverField, Zenon
<1>5. q2.lock = l
  BY <1>1 DEF Driver
<1> QED
  BY <1>1, <1>2, <1>3, <1>4, <1>5 DEF q1

(* REWRITE replaces one record, does nothing, or goes astray. *)
LEMMA RewriteCases ==
  ASSUME IInv, NEW c, Runs(c), NEW k \in Keys, NEW a \in 1..A, NEW lock \in BOOLEAN,
         Rewrite(c, k, a, lock)
  PROVE  Fruitless(c, "REWRITE") \/ Lost(c)
           \/ (prim[k] # 0 /\ Changed(c, "REWRITE", k, a))
<1>1. /\ c \in Conns /\ TypeOK /\ Alone /\ ReadStands /\ Fine(f[c], setup.access[c])
      /\ f[c].access_mode = setup.access[c] /\ Agreed(prim, alts)
      /\ K \in Nat \ {0} /\ A \in Nat \ {0} /\ setup.dups \in BOOLEAN
  BY Before, StateShape DEF IInv, Runs
<1>2. CASE Refused(c, "REWRITE", UpdateCheck(f[c], TRUE), Touch(f[c]))
  <2>1. UpdateCheck(f[c], TRUE) \in {I_O_DENIED, READ_NOT_DONE}
    BY <1>1, <1>2, Checks DEF Refused
  <2>2. I_O_DENIED \in 1..99 /\ READ_NOT_DONE \in 1..99
    BY DEF I_O_DENIED, READ_NOT_DONE
  <2> QED
    BY <1>1, <1>2, <2>1, <2>2, RefusedFruitless
<1> DEFINE q == Unlocked(p[c])
           q1 == [q EXCEPT !.data = TRUE]
           q2 == [q EXCEPT !.data = TRUE, !.lock = IF lock /\ setup.shared THEN k ELSE 0]
           Keyed == Answer(c, "REWRITE", KEY_EXISTS, Touch(f[c]), q1) /\ UNCHANGED file
           Missing == Answer(c, "REWRITE", KEY_NOT_EXISTS, Touch(f[c]), q) /\ UNCHANGED file
           Barred == Answer(c, "REWRITE", RECORD_LOCKED, Touch(f[c]), q1) /\ UNCHANGED file
           Stored == Answer(c, "REWRITE", SUCCESS, Touch(f[c]), q2) /\ Replaced(k, a)
<1>3. q \in Driver /\ q.lock = 0 /\ q.pkey = p[c].pkey
  BY <1>1, UnlockedResult
<1>4. k \in 0..K /\ (IF lock /\ setup.shared THEN k ELSE 0) \in 0..K
  BY <1>1 DEF Keys
<1>5. q1 \in Driver /\ q1.lock = 0
  BY <1>3, <1>4, UpdateRecord
<1>6. q2 \in Driver /\ q2.lock = IF lock /\ setup.shared THEN k ELSE 0
  BY <1>3, <1>4, UpdateRecord
<1>7. CASE /\ UpdateCheck(f[c], TRUE) = CallDriver /\ Room(a)
           /\ CASE Taken(a, k, TRUE) -> Keyed
                [] ~Taken(a, k, TRUE) /\ Sequential(c) /\ ~setup.dups -> GoAstray(c, "garbage")
                [] Sequential(c) /\ setup.dups /\ prim[q.pkey] = 0    -> GoAstray(c, "gone")
                [] Sequential(c) /\ setup.dups /\ prim[q.pkey] # 0 /\ k # q.pkey -> GoAstray(c, "rekeyed")
                [] ~Taken(a, k, TRUE) /\ ~Sequential(c) /\ prim[k] = 0 -> Missing
                [] ~Taken(a, k, TRUE) /\ prim[k] # 0 /\ (Sequential(c) => setup.dups /\ k = q.pkey) ->
                     IF Blocked(c, k) THEN Barred ELSE Stored
  <2>1. setup.dups => ~Taken(a, k, TRUE)
    BY DEF Taken
  <2> HIDE DEF Keyed, Missing, Barred, Stored, q
  <2>2. CASE Taken(a, k, TRUE)
    <3>1. Keyed
      BY <1>1, <1>7, <2>1, <2>2
    <3>2. KEY_EXISTS \in 1..99
      BY DEF KEY_EXISTS
    <3> QED
      BY <1>5, <3>1, <3>2 DEF Keyed, Fruitless
  <2>3. CASE ~Taken(a, k, TRUE) /\ Sequential(c) /\ ~setup.dups
    <3>1. GoAstray(c, "garbage")
      BY <1>1, <1>7, <2>3
    <3> QED
      BY <3>1 DEF Lost
  <2>4. CASE Sequential(c) /\ setup.dups /\ prim[q.pkey] = 0
    <3>1. GoAstray(c, "gone")
      BY <1>1, <1>7, <2>1, <2>4
    <3>2. f[c].flag_read_done
      BY <1>1, <1>7, <2>4, Checks DEF Sequential
    <3>3. setup.shared
      BY <1>1, <1>3, <2>4, <3>2 DEF ReadStands
    <3> QED
      BY <3>1, <3>3 DEF Lost
  <2>5. CASE Sequential(c) /\ setup.dups /\ prim[q.pkey] # 0 /\ k # q.pkey
    <3>1. GoAstray(c, "rekeyed")
      BY <1>1, <1>7, <2>1, <2>5
    <3> QED
      BY <3>1 DEF Lost
  <2>6. CASE ~Taken(a, k, TRUE) /\ ~Sequential(c) /\ prim[k] = 0
    <3>1. Missing
      BY <1>1, <1>7, <2>6
    <3>2. KEY_NOT_EXISTS \in 1..99
      BY DEF KEY_NOT_EXISTS
    <3> QED
      BY <1>3, <3>1, <3>2 DEF Missing, Fruitless
  <2>7. CASE ~Taken(a, k, TRUE) /\ prim[k] # 0 /\ (Sequential(c) => setup.dups /\ k = q.pkey)
    <3>1. IF Blocked(c, k) THEN Barred ELSE Stored
      BY <1>1, <1>7, <2>7
    <3>2. CASE Blocked(c, k)
      <4>1. RECORD_LOCKED \in 1..99 /\ Barred
        BY <3>1, <3>2 DEF RECORD_LOCKED
      <4> QED
        BY <1>5, <4>1 DEF Barred, Fruitless
    <3>3. CASE ~Blocked(c, k)
      <4>1. Free(c, k) /\ Stored
        BY <1>1, <3>1, <3>3, BlockedMeaning
      <4>2. prim' = [prim EXCEPT ![k] = a]
        BY <4>1 DEF Stored, Replaced
      <4>3. Agreed(prim', alts')
        <5>1. prim \in [Keys -> 0..A]
          BY <1>1 DEF TypeOK
        <5>2. CASE prim[k] = a
          <6>1. alts' = alts /\ prim' = prim
            BY <4>1, <4>2, <5>1, <5>2 DEF Stored, Replaced
          <6> QED
            BY <1>1, <6>1
        <5>3. CASE prim[k] # a
          <6> DEFINE prm == [prim EXCEPT ![k] = 0]
                     als == Without(alts, k, prim[k])
          <6>1. Agreed(prm, als) /\ als[a] = alts[a]
            BY <1>1, <2>7, <5>3, WithoutAgreed
          <6>2. prm[k] = 0 /\ [prm EXCEPT ![k] = a] = [prim EXCEPT ![k] = a]
            BY <5>1
          <6>3. ~setup.dups => alts[a] = <<>>
            <7> SUFFICES ASSUME ~setup.dups, alts[a] # <<>> PROVE FALSE
              OBVIOUS
            <7>1. alts[a][1].prim = k
              BY <2>7 DEF Taken
            <7>2. alts[a] \in Seq(Entry)
              BY <1>1 DEF Agreed
            <7>3. 1 \in DOMAIN alts[a]
              BY <7>2
            <7>4. k \in Prims(alts[a])
              BY <7>1, <7>3 DEF Prims
            <7> QED
              BY <1>1, <5>3, <7>4 DEF Agreed
          <6>4. alts' = With(als, k, a)
            BY <4>1, <5>3 DEF Stored, Replaced
          <6> HIDE DEF prm, als
          <6> QED
            BY <1>1, <1>7, <4>2, <6>1, <6>2, <6>3, <6>4, WithAgreed
        <5> QED
          BY <5>2, <5>3
      <4>4. q2.lock = 0 \/ (q2.lock = k /\ a # 0 /\ setup.shared)
        BY <1>1, <1>6
      <4>5. Answer(c, "REWRITE", SUCCESS, Touch(f[c]), q2)
        BY <4>1 DEF Stored
      <4> HIDE DEF q2
      <4> QED
        BY <1>6, <2>7, <4>1, <4>2, <4>3, <4>4, <4>5 DEF Changed
    <3> QED
      BY <3>2, <3>3
  <2>8. Sequential(c) \in BOOLEAN
    BY DEF Sequential
  <2> QED
    BY <1>1, <2>2, <2>3, <2>4, <2>5, <2>6, <2>7, <2>8
<1>8. [q EXCEPT !.data = TRUE, !.lock = IF lock /\ setup.shared THEN k ELSE @] = q2
  BY <1>3 DEF Driver
<1> QED
  BY <1>2, <1>7, <1>8, Zenon DEF Rewrite

(* DELETE takes one record away, does nothing, or goes astray. *)
LEMMA DeleteCases ==
  ASSUME IInv, NEW c, Runs(c), NEW k \in Keys, Delete(c, k)
  PROVE  Fruitless(c, "DELETE") \/ Lost(c)
           \/ \E t \in Keys : prim[t] # 0 /\ Changed(c, "DELETE", t, 0)
<1>1. /\ c \in Conns /\ TypeOK /\ Alone /\ ReadStands /\ Fine(f[c], setup.access[c])
      /\ f[c].access_mode = setup.access[c] /\ Agreed(prim, alts)
      /\ K \in Nat \ {0} /\ A \in Nat \ {0}
  BY Before, StateShape DEF IInv, Runs
<1>2. CASE Refused(c, "DELETE", UpdateCheck(f[c], TRUE), Touch(f[c]))
  <2>1. UpdateCheck(f[c], TRUE) \in {I_O_DENIED, READ_NOT_DONE}
    BY <1>1, <1>2, Checks DEF Refused
  <2>2. I_O_DENIED \in 1..99 /\ READ_NOT_DONE \in 1..99
    BY DEF I_O_DENIED, READ_NOT_DONE
  <2> QED
    BY <1>1, <1>2, <2>1, <2>2, RefusedFruitless
<1> DEFINE q == Unlocked(p[c])
           q1 == [q EXCEPT !.data = TRUE]
           t == IF Sequential(c) THEN q.pkey ELSE k
           Missing == Answer(c, "DELETE", KEY_NOT_EXISTS, Touch(f[c]), q) /\ UNCHANGED file
           Barred == Answer(c, "DELETE", RECORD_LOCKED, Touch(f[c]), q1) /\ UNCHANGED file
           Removed == /\ Answer(c, "DELETE", SUCCESS, Touch(f[c]), q1)
                      /\ prim' = [prim EXCEPT ![t] = 0]
                      /\ alts' = Without(alts, t, prim[t])
<1>3. q \in Driver /\ q.lock = 0 /\ q.pkey = p[c].pkey /\ 0 \in 0..K
  BY <1>1, UnlockedResult
<1>4. q1 \in Driver /\ q1.lock = 0
  BY <1>3, UpdateRecord
<1>5. CASE /\ UpdateCheck(f[c], TRUE) = CallDriver
           /\ CASE prim[t] = 0 /\ Sequential(c)  -> GoAstray(c, "gone")
                [] prim[t] = 0 /\ ~Sequential(c) -> Missing
                [] prim[t] # 0 -> IF Blocked(c, t) THEN Barred ELSE Removed
  <2>1. Sequential(c) => f[c].flag_read_done
    BY <1>1, <1>5, Checks DEF Sequential
  <2>2. t \in Keys /\ (Sequential(c) /\ prim[t] = 0 => setup.shared)
    BY <1>1, <1>3, <2>1 DEF ReadStands
  <2> HIDE DEF Missing, Barred, Removed, t, q
  <2>3. CASE prim[t] = 0 /\ Sequential(c)
    <3>1. GoAstray(c, "gone")
      BY <1>5, <2>3
    <3> QED
      BY <2>2, <2>3, <3>1 DEF Lost
  <2>4. CASE prim[t] = 0 /\ ~Sequential(c)
    <3>1. Missing
      BY <1>5, <2>4
    <3>2. KEY_NOT_EXISTS \in 1..99
      BY DEF KEY_NOT_EXISTS
    <3> QED
      BY <1>3, <3>1, <3>2 DEF Missing, Fruitless
  <2>5. CASE prim[t] # 0
    <3>1. IF Blocked(c, t) THEN Barred ELSE Removed
      BY <1>5, <2>5
    <3>2. CASE Blocked(c, t)
      <4>1. RECORD_LOCKED \in 1..99 /\ Barred
        BY <3>1, <3>2 DEF RECORD_LOCKED
      <4> QED
        BY <1>4, <4>1 DEF Barred, Fruitless
    <3>3. CASE ~Blocked(c, t)
      <4>1. Free(c, t) /\ Removed
        BY <1>1, <2>2, <3>1, <3>3, BlockedMeaning
      <4>2. Agreed(prim', alts')
        BY <1>1, <2>2, <2>5, <4>1, WithoutAgreed DEF Removed
      <4>3. /\ Answer(c, "DELETE", SUCCESS, Touch(f[c]), q1)
            /\ prim' = [prim EXCEPT ![t] = 0]
        BY <4>1 DEF Removed
      <4> HIDE DEF q1
      <4> QED
        BY <1>4, <2>2, <2>5, <4>1, <4>2, <4>3 DEF Changed
    <3> QED
      BY <3>2, <3>3
  <2> QED
    BY <2>3, <2>4, <2>5
<1> QED
  BY <1>2, <1>5, Zenon DEF Delete
-----------------------------------------------------------------------------
(* Every step keeps the invariant.                                         *)

(* The statements of connector c, with what they are given. *)
Statement(c) ==
  \/ \E mode \in OpenOptions : Open(c, mode)
  \/ Close(c) \/ Unlock(c) \/ Crash(c)
  \/ \E i \in {0, 1}, v \in Nat, cond \in Conditions : Start(c, i, v, cond)
  \/ \E i \in {0, 1}, v \in Nat, opt \in LockOpts : ReadKey(c, i, v, opt)
  \/ \E how \in {"NEXT", "PREVIOUS"}, opt \in LockOpts :
       setup.access[c] # "RANDOM" /\ ReadNext(c, how, opt)
  \/ \E k \in Keys, a \in 1..A, lock \in BOOLEAN : Write(c, k, a, lock) \/ Rewrite(c, k, a, lock)
  \/ \E k \in Keys : Delete(c, k)

(* Every step is a statement of one connector. *)
LEMMA NextStatement ==
  ASSUME TypeOK, Fixed, Next
  PROVE  \E c : Runs(c) /\ Statement(c)
<1>1. /\ setup.uses \subseteq {0, 1} /\ setup.keys \in 1..K /\ setup.values \in 1..A
      /\ setup.shared \in BOOLEAN /\ K \in Nat \ {0} /\ A \in Nat \ {0} /\ Conns # {}
  BY StateShape, IndexedAssumption DEF TypeOK, Setup
<1>2. PICK c \in (IF setup.shared THEN Conns ELSE {CHOOSE d \in Conns : TRUE}) :
     \/ \E mode \in OpenOptions : Open(c, mode)
     \/ Close(c) \/ Unlock(c) \/ Crash(c)
     \/ \E i \in setup.uses : \E v \in 1..(IF i = 0 THEN setup.keys ELSE setup.values) :
          \/ \E cond \in Conditions : Start(c, i, v, cond)
          \/ f[c].access_mode # "SEQUENTIAL" /\ \E opt \in Opts : ReadKey(c, i, v, opt)
     \/ f[c].access_mode # "RANDOM" /\ \E how \in {"NEXT", "PREVIOUS"}, opt \in Opts : ReadNext(c, how, opt)
     \/ \E k \in 1..setup.keys, a \in 1..setup.values, lock \in Locking : Write(c, k, a, lock) \/ Rewrite(c, k, a, lock)
     \/ \E k \in 1..setup.keys : Delete(c, k)
  BY Zenon DEF Next
<1>3. Runs(c)
  BY <1>1, <1>2 DEF Runs
<1>4. f[c].access_mode = setup.access[c]
  BY <1>3 DEF Fixed, Fine, Runs
<1>5. /\ Opts \subseteq LockOpts /\ Locking \subseteq BOOLEAN
      /\ 1..setup.keys \subseteq Keys /\ 1..setup.values \subseteq 1..A
      /\ \A i \in setup.uses : 1..(IF i = 0 THEN setup.keys ELSE setup.values) \subseteq Nat
  <2>1. Opts \subseteq LockOpts /\ Locking \subseteq BOOLEAN
    BY <1>1 DEF Opts, LockOpts, Locking
  <2>2. 1..setup.keys \subseteq Keys /\ 1..setup.values \subseteq 1..A
    BY <1>1 DEF Keys
  <2>3. 1..setup.keys \subseteq Nat /\ 1..setup.values \subseteq Nat
    BY <1>1
  <2> QED
    BY <2>1, <2>2, <2>3
<1>6. ASSUME \E i \in setup.uses : \E v \in 1..(IF i = 0 THEN setup.keys ELSE setup.values) :
               \/ \E cond \in Conditions : Start(c, i, v, cond)
               \/ f[c].access_mode # "SEQUENTIAL" /\ \E opt \in Opts : ReadKey(c, i, v, opt)
      PROVE  Statement(c)
  <2>1. PICK i \in setup.uses : \E v \in 1..(IF i = 0 THEN setup.keys ELSE setup.values) :
             \/ \E cond \in Conditions : Start(c, i, v, cond)
             \/ f[c].access_mode # "SEQUENTIAL" /\ \E opt \in Opts : ReadKey(c, i, v, opt)
    BY <1>6
  <2>2. PICK v \in Nat : \/ \E cond \in Conditions : Start(c, i, v, cond)
                         \/ \E opt \in Opts : ReadKey(c, i, v, opt)
    BY <1>5, <2>1, Zenon
  <2>3. i \in {0, 1}
    BY <1>1
  <2> QED
    BY <1>5, <2>2, <2>3, Zenon DEF Statement
<1>7. ASSUME \E mode \in OpenOptions : Open(c, mode)
      PROVE  Statement(c)
  BY <1>7, Zenon DEF Statement
<1>8. ASSUME Close(c) \/ Unlock(c) \/ Crash(c)
      PROVE  Statement(c)
  BY <1>8, Zenon DEF Statement
<1>9. ASSUME f[c].access_mode # "RANDOM" /\ \E how \in {"NEXT", "PREVIOUS"}, opt \in Opts : ReadNext(c, how, opt)
      PROVE  Statement(c)
  BY <1>4, <1>5, <1>9, Zenon DEF Statement
<1>10. ASSUME \E k \in 1..setup.keys, a \in 1..setup.values, lock \in Locking : Write(c, k, a, lock) \/ Rewrite(c, k, a, lock)
       PROVE  Statement(c)
  BY <1>5, <1>10, Zenon DEF Statement
<1>11. ASSUME \E k \in 1..setup.keys : Delete(c, k)
       PROVE  Statement(c)
  BY <1>5, <1>11, Zenon DEF Statement
<1> QED
  BY <1>2, <1>3, <1>6, <1>7, <1>8, <1>9, <1>10, <1>11, Zenon

(* Every statement keeps the invariant. *)
LEMMA StatementKeeps ==
  ASSUME IInv, NEW c, Runs(c), Statement(c)
  PROVE  IInv'
<1>1. ASSUME NEW mode \in OpenOptions, Open(c, mode) PROVE IInv'
  BY <1>1, OpenKeeps
<1>2. ASSUME Close(c) PROVE IInv'
  BY <1>2, CloseKeeps
<1>3. ASSUME Unlock(c) PROVE IInv'
  BY <1>3, UnlockKeeps
<1>4. ASSUME Crash(c) PROVE IInv'
  BY <1>4, CrashKeeps
<1>5. ASSUME NEW i \in {0, 1}, NEW v \in Nat, NEW cond \in Conditions, Start(c, i, v, cond)
      PROVE  IInv'
  BY <1>5, StartKeeps
<1>6. ASSUME NEW i \in {0, 1}, NEW v \in Nat, NEW opt \in LockOpts, ReadKey(c, i, v, opt)
      PROVE  IInv'
  BY <1>6, ReadKeyKeeps
<1>7. ASSUME NEW how \in {"NEXT", "PREVIOUS"}, NEW opt \in LockOpts, ReadNext(c, how, opt)
      PROVE  IInv'
  BY <1>7, ReadNextKeeps
<1>8. A \in Nat /\ 1..A \subseteq 0..A /\ 0 \in 0..A
  BY IndexedAssumption
<1>9. ASSUME NEW k \in Keys, NEW a \in 1..A, NEW lock \in BOOLEAN, Write(c, k, a, lock)
      PROVE  IInv'
  BY <1>8, <1>9, WriteCases, FruitlessKeeps, ChangedKeeps, NamesTyped
<1>10. ASSUME NEW k \in Keys, NEW a \in 1..A, NEW lock \in BOOLEAN, Rewrite(c, k, a, lock)
       PROVE  IInv'
  BY <1>8, <1>10, RewriteCases, FruitlessKeeps, ChangedKeeps, LostKeeps, NamesTyped
<1>11. ASSUME NEW k \in Keys, Delete(c, k) PROVE IInv'
  BY <1>8, <1>11, DeleteCases, FruitlessKeeps, ChangedKeeps, LostKeeps, NamesTyped
<1> QED
  BY <1>1, <1>2, <1>3, <1>4, <1>5, <1>6, <1>7, <1>9, <1>10, <1>11, Zenon DEF Statement

(* The first states satisfy the invariant. *)
LEMMA InitSound == Init => IInv
<1> SUFFICES ASSUME Init PROVE IInv
  OBVIOUS
<1>1. /\ setup \in Setup /\ setup.dups \in BOOLEAN /\ setup.access \in [Conns -> AccessModes]
      /\ K \in Nat \ {0} /\ A \in Nat \ {0}
  BY IndexedAssumption DEF Init, Setup
<1>2. /\ f = [c \in Conns |-> NewFile([organization |-> "INDEXED", access_mode |-> setup.access[c],
                                   flag_optional |-> FALSE, special |-> 0, linage |-> FALSE])]
      /\ p = [c \in Conns |-> NewDriver]
      /\ prim = [k \in Keys |-> 0] /\ alts = [a \in 1..A |-> <<>>]
      /\ last = [conn |-> "none", op |-> "none", status |-> SUCCESS]
      /\ state = "running"
  BY DEF Init
<1>3. \A c \in Conns : Fine(f[c], setup.access[c]) /\ f[c].flag_read_done = FALSE
  <2> SUFFICES ASSUME NEW c \in Conns
               PROVE  Fine(f[c], setup.access[c]) /\ f[c].flag_read_done = FALSE
    OBVIOUS
  <2> DEFINE g == NewFile([organization |-> "INDEXED", access_mode |-> setup.access[c],
                           flag_optional |-> FALSE, special |-> 0, linage |-> FALSE])
  <2>1. /\ g \in Cob_file /\ g.organization = "INDEXED" /\ g.access_mode = setup.access[c]
        /\ g.special = 0 /\ g.flag_optional = FALSE /\ g.flag_nonexistent = FALSE
        /\ g.open_mode = "CLOSED" /\ g.flag_read_done = FALSE
    BY <1>1, NewEffect
  <2>2. f[c] = g
    BY <1>2
  <2> HIDE DEF g
  <2> QED
    BY <2>1, <2>2 DEF Fine
<1>4. \A c \in Conns : p[c] \in Driver /\ p[c].lock = 0
  BY <1>1, <1>2, NewDriverTyped
<1>5. Agreed(prim, alts)
  BY <1>1, <1>2, EmptyAgreed
<1>6. TypeOK
  <2>1. f \in [Conns -> Cob_file]
    <3>1. f = [c \in Conns |-> f[c]] /\ \A c \in Conns : f[c] \in Cob_file
      BY <1>2, <1>3 DEF Fine
    <3> QED
      BY <3>1
  <2>2. p \in [Conns -> Driver]
    <3>1. NewDriver \in Driver
      BY <1>1, NewDriverTyped
    <3> QED
      BY <1>2, <3>1
  <2>3. last \in [conn : Conns \cup {"none"}, op : Statements, status : 0..99]
    <3>1. SUCCESS \in 0..99
      BY DEF SUCCESS
    <3>2. "none" \in Statements /\ "none" \in Conns \cup {"none"}
      BY DEF Statements
    <3> QED
      BY <1>2, <3>1, <3>2, Zenon
  <2>4. /\ prim \in [Keys -> 0..A]
        /\ alts \in [1..A -> Seq([prim : Keys, dup : IF setup.dups THEN 1..K ELSE {0}])]
    BY <1>5 DEF Agreed, Entry, Numbers
  <2> QED
    BY <1>1, <1>2, <2>1, <2>2, <2>3, <2>4 DEF TypeOK
<1>7. Fixed
  BY <1>3 DEF Fixed
<1>8. IndexesAgree
  BY <1>5, AgreeShape DEF Agreed
<1>9. LockedStands /\ Alone /\ ReadStands /\ UpdateFindsRecord
  BY <1>2, <1>3, <1>4 DEF LockedStands, Alone, ReadStands, UpdateFindsRecord
<1> QED
  BY <1>6, <1>7, <1>8, <1>9 DEF IInv

(* Every step keeps the invariant. *)
LEMMA NextSound == IInv /\ [Next]_vars => IInv'
<1> SUFFICES ASSUME IInv, [Next]_vars PROVE IInv'
  OBVIOUS
<1>1. CASE Next
  <2>1. PICK c : Runs(c) /\ Statement(c)
    BY <1>1, NextStatement DEF IInv
  <2> QED
    BY <2>1, StatementKeeps
<1>2. CASE UNCHANGED vars
  <2>1. /\ f' = f /\ p' = p /\ prim' = prim /\ alts' = alts /\ setup' = setup /\ last' = last
        /\ state' = state
    BY <1>2 DEF vars
  <2>2. TypeOK'
    BY <2>1 DEF IInv, TypeOK
  <2>3. Fixed' /\ IndexesAgree' /\ LockedStands'
    BY <2>1 DEF IInv, Fixed, IndexesAgree, LockedStands
  <2>4. Alone' /\ ReadStands' /\ UpdateFindsRecord'
    BY <2>1 DEF IInv, Alone, ReadStands, Sequential, UpdateFindsRecord
  <2> QED
    BY <2>2, <2>3, <2>4 DEF IInv
<1> QED
  BY <1>1, <1>2

(* The invariant holds in every state. *)
LEMMA Invariant == Spec => []IInv
<1>1. Init => IInv
  BY InitSound
<1>2. IInv /\ [Next]_vars => IInv'
  BY NextSound
<1> QED
  BY <1>1, <1>2, PTL DEF Spec

(* The databases of an INDEXED file agree with each other whatever is      *)
(* written, rewritten and deleted, and by whom: every record once in the   *)
(* alternate database, under its key; duplicates numbered in their order.  *)
(* A locked record is there and locked once.  A program alone with its     *)
(* file finds the record it has read.                                      *)
THEOREM DatabasesAgree == Spec => []IndexSound
<1>1. IInv => IndexSound
  BY DEF IInv, IndexSound
<1> QED
  BY <1>1, Invariant, PTL

-----------------------------------------------------------------------------
(* What a statement does to the primary database.                          *)

(* Nothing, and no WRITE is answered as done. *)
Quiet(c) == /\ last'.conn = c /\ prim' = prim
            /\ last'.op # "WRITE" \/ last'.status # SUCCESS

(* OPEN OUTPUT, alone with the file *)
Cleared(c) == /\ last' = [conn |-> c, op |-> "OPEN", status |-> SUCCESS]
              /\ ~setup.shared /\ prim' = [k \in Keys |-> 0]

(* one record, that no other connector has locked *)
Effective(c) ==
  \E k \in Keys :
    /\ Free(c, k)
    /\ \/ /\ last' = [conn |-> c, op |-> "WRITE", status |-> SUCCESS]
          /\ prim[k] = 0 /\ \E a \in 1..A : prim' = [prim EXCEPT ![k] = a]
       \/ /\ last' = [conn |-> c, op |-> "REWRITE", status |-> SUCCESS]
          /\ prim[k] # 0 /\ \E a \in 1..A : prim' = [prim EXCEPT ![k] = a]
       \/ /\ last' = [conn |-> c, op |-> "DELETE", status |-> SUCCESS]
          /\ prim[k] # 0 /\ prim' = [prim EXCEPT ![k] = 0]

(* What a statement that changes a record answers. *)
LEMMA ChangedLast ==
  ASSUME NEW c, NEW op, NEW k, NEW r, Changed(c, op, k, r)
  PROVE  /\ Free(c, k) /\ prim' = [prim EXCEPT ![k] = r]
         /\ last' = [conn |-> c, op |-> op, status |-> SUCCESS]
BY DEF Changed, Answer

(* A statement without effect is quiet. *)
LEMMA FruitlessQuiet ==
  ASSUME NEW c, NEW op, Fruitless(c, op)
  PROVE  Quiet(c)
<1>1. PICK status \in 1..99 : last' = [conn |-> c, op |-> op, status |-> status]
  BY DEF Fruitless, Answer
<1>2. status # SUCCESS
  BY DEF SUCCESS
<1> QED
  BY <1>1, <1>2 DEF Quiet, Fruitless, file

(* So is a driver that goes astray. *)
LEMMA LostQuiet ==
  ASSUME NEW c, Lost(c)
  PROVE  Quiet(c)
BY DEF Lost, GoAstray, Quiet

(* An answer names its connector and its statement. *)
LEMMA AnswerNamed ==
  ASSUME NEW c, NEW op, NEW status, NEW g, NEW q, Answer(c, op, status, g, q)
  PROVE  last'.conn = c /\ last'.op = op
BY DEF Answer

(* The effect of a statement on the primary database. *)
LEMMA StatementEffect ==
  ASSUME IInv, NEW c, Runs(c), Statement(c)
  PROVE  Quiet(c) \/ Cleared(c) \/ Effective(c)
<1>1. ASSUME NEW mode \in OpenOptions, Open(c, mode) PROVE Quiet(c) \/ Cleared(c)
  <2>1. \/ \E status, g : Refused(c, "OPEN", status, g)
        \/ /\ setup.shared => mode \in {"INPUT", "I_O"}
           /\ prim' = IF mode = "OUTPUT" THEN [k \in Keys |-> 0] ELSE prim
           /\ last' = [conn |-> c, op |-> "OPEN", status |-> SUCCESS]
    BY <1>1 DEF Open, Answer
  <2>2. CASE \E status, g : Refused(c, "OPEN", status, g)
    BY <2>2 DEF Refused, Answer, Quiet, file
  <2>3. CASE /\ setup.shared => mode \in {"INPUT", "I_O"}
             /\ prim' = IF mode = "OUTPUT" THEN [k \in Keys |-> 0] ELSE prim
             /\ last' = [conn |-> c, op |-> "OPEN", status |-> SUCCESS]
    BY <2>3 DEF Quiet, Cleared
  <2> QED
    BY <2>1, <2>2, <2>3
<1>2. ASSUME Close(c) PROVE Quiet(c)
  BY <1>2 DEF Close, Refused, Answer, Quiet, file
<1>3. ASSUME Unlock(c) PROVE Quiet(c)
  BY <1>3 DEF Unlock, Answer, Quiet, file
<1>4. ASSUME Crash(c) PROVE Quiet(c)
  BY <1>4 DEF Crash, Answer, Quiet, file
<1>5. ASSUME NEW i \in {0, 1}, NEW v \in Nat, NEW cond \in Conditions, Start(c, i, v, cond)
      PROVE  Quiet(c)
  <2>1. UNCHANGED file /\ last'.conn = c /\ last'.op = "START"
    BY <1>5, AnswerNamed DEF Start, Refused
  <2> QED
    BY <2>1 DEF Quiet, file
<1>6. ASSUME NEW i \in {0, 1}, NEW v \in Nat, NEW opt \in LockOpts, ReadKey(c, i, v, opt)
      PROVE  Quiet(c)
  <2>1. UNCHANGED file /\ last'.conn = c /\ last'.op = "READ KEY"
    BY <1>6, AnswerNamed DEF ReadKey, Refused, Deliver
  <2> QED
    BY <2>1 DEF Quiet, file
<1>7. ASSUME NEW how \in {"NEXT", "PREVIOUS"}, NEW opt \in LockOpts, ReadNext(c, how, opt)
      PROVE  Quiet(c)
  <2>1. UNCHANGED file /\ last'.conn = c /\ last'.op = ReadOp[how]
    <3> DEFINE q == Unlocked(p[c])
               e == Reached(c, how)
               op == ReadOp[how]
    <3>1. \/ Refused(c, op, ReadCheck(f[c], how), RefusedRead(f[c]))
          \/ /\ UNCHANGED file
             /\ \/ Answer(c, op, END_OF_FILE, AfterRead(f[c], how, END_OF_FILE), q)
                \/ Deliver(c, op, how, e, q, opt)
      BY <1>7, ReadNextCases
    <3> HIDE DEF q, e, op
    <3>2. UNCHANGED file /\ last'.conn = c /\ last'.op = op
      BY <3>1, AnswerNamed DEF Refused, Deliver
    <3> QED
      BY <3>2 DEF op
  <2>2. ReadOp[how] # "WRITE"
    BY ReadNamed
  <2> QED
    BY <2>1, <2>2 DEF Quiet, file
<1>8. ASSUME NEW k \in Keys, NEW a \in 1..A, NEW lock \in BOOLEAN, Write(c, k, a, lock)
      PROVE  Quiet(c) \/ Effective(c)
  BY <1>8, WriteCases, FruitlessQuiet, ChangedLast DEF Effective
<1>9. ASSUME NEW k \in Keys, NEW a \in 1..A, NEW lock \in BOOLEAN, Rewrite(c, k, a, lock)
      PROVE  Quiet(c) \/ Effective(c)
  BY <1>9, RewriteCases, FruitlessQuiet, LostQuiet, ChangedLast DEF Effective
<1>10. ASSUME NEW k \in Keys, Delete(c, k) PROVE Quiet(c) \/ Effective(c)
  BY <1>10, DeleteCases, FruitlessQuiet, LostQuiet, ChangedLast DEF Effective
<1> QED
  BY <1>1, <1>2, <1>3, <1>4, <1>5, <1>6, <1>7, <1>8, <1>9, <1>10, Zenon DEF Statement

(* No step of another connector changes a locked record. *)
LEMMA LockedStep ==
  ASSUME IInv, Next, NEW d \in Conns, p[d].lock # 0, last'.conn # d
  PROVE  prim'[p[d].lock] = prim[p[d].lock]
<1>1. PICK c : Runs(c) /\ Statement(c)
  BY NextStatement DEF IInv
<1>2. Quiet(c) \/ Cleared(c) \/ Effective(c)
  BY <1>1, StatementEffect
<1>3. /\ p[d].lock \in Keys /\ prim \in [Keys -> 0..A] /\ setup.shared
  <2>1. TypeOK /\ Alone
    BY DEF IInv
  <2>2. p[d].lock \in 0..K /\ K \in Nat
    BY <2>1, StateShape DEF Driver
  <2>3. p[d].lock \in Keys
    BY <2>2 DEF Keys
  <2> QED
    BY <2>1, <2>3 DEF TypeOK, Alone
<1>4. CASE Quiet(c)
  BY <1>4 DEF Quiet
<1>5. CASE Cleared(c)
  BY <1>3, <1>5 DEF Cleared
<1>6. CASE Effective(c)
  <2>1. PICK k \in Keys : /\ Free(c, k) /\ last'.conn = c
                          /\ \E r : prim' = [prim EXCEPT ![k] = r]
    BY <1>6 DEF Effective
  <2>2. p[d].lock # k
    BY <2>1 DEF Free
  <2> QED
    BY <1>3, <2>1, <2>2
<1> QED
  BY <1>2, <1>4, <1>5, <1>6

(* Until its lock is given up, a locked record is changed by no other      *)
(* connector: WRITE, REWRITE and DELETE look for the locks of others, and  *)
(* no file that is shared is opened OUTPUT.                                *)
THEOREM LocksHold == Spec => LockedUnchanged
<1>1. IInv /\ [Next]_vars =>
        [\A c \in Conns : p[c].lock # 0 /\ last'.conn # c
           => prim'[p[c].lock] = prim[p[c].lock]]_vars
  BY LockedStep
<1> QED
  BY <1>1, Invariant, PTL DEF Spec, LockedUnchanged

(* Every step is one of the record store, or none. *)
LEMMA StoreStep == IInv /\ [Next]_vars => [Store!Next]_Store!vars
<1> SUFFICES ASSUME IInv, [Next]_vars PROVE [Store!Next]_Store!vars
  OBVIOUS
<1>1. CASE UNCHANGED vars
  BY <1>1 DEF vars, Store!vars
<1>2. CASE Next
  <2>1. PICK c : Runs(c) /\ Statement(c)
    BY <1>2, NextStatement DEF IInv
  <2>2. Quiet(c) \/ Cleared(c) \/ Effective(c)
    BY <2>1, StatementEffect
  <2>3. CASE Quiet(c)
    <3>1. Store!Look
      BY <2>3 DEF Quiet, Store!Look
    <3> QED
      BY <3>1 DEF Store!Next
  <2>4. CASE Cleared(c)
    <3>1. Store!Clear
      BY <2>4 DEF Cleared, Store!Clear, Store!Done
    <3> QED
      BY <3>1 DEF Store!Next
  <2>5. CASE Effective(c)
    <3>1. PICK k \in Keys :
            \/ /\ last' = [conn |-> c, op |-> "WRITE", status |-> SUCCESS]
               /\ prim[k] = 0 /\ \E a \in 1..A : prim' = [prim EXCEPT ![k] = a]
            \/ /\ last' = [conn |-> c, op |-> "REWRITE", status |-> SUCCESS]
               /\ prim[k] # 0 /\ \E a \in 1..A : prim' = [prim EXCEPT ![k] = a]
            \/ /\ last' = [conn |-> c, op |-> "DELETE", status |-> SUCCESS]
               /\ prim[k] # 0 /\ prim' = [prim EXCEPT ![k] = 0]
      BY <2>5 DEF Effective
    <3>2. CASE /\ last' = [conn |-> c, op |-> "WRITE", status |-> SUCCESS]
               /\ prim[k] = 0 /\ \E a \in 1..A : prim' = [prim EXCEPT ![k] = a]
      <4>1. PICK a \in 1..A : prim' = [prim EXCEPT ![k] = a]
        BY <3>2
      <4>2. Store!Put(k, a)
        BY <3>2, <4>1 DEF Store!Put, Store!Done
      <4> QED
        BY <4>2 DEF Store!Next
    <3>3. CASE /\ last' = [conn |-> c, op |-> "REWRITE", status |-> SUCCESS]
               /\ prim[k] # 0 /\ \E a \in 1..A : prim' = [prim EXCEPT ![k] = a]
      <4>1. PICK a \in 1..A : prim' = [prim EXCEPT ![k] = a]
        BY <3>3
      <4>2. Store!Replace(k, a)
        BY <3>3, <4>1 DEF Store!Replace, Store!Done
      <4> QED
        BY <4>2 DEF Store!Next
    <3>4. CASE /\ last' = [conn |-> c, op |-> "DELETE", status |-> SUCCESS]
               /\ prim[k] # 0 /\ prim' = [prim EXCEPT ![k] = 0]
      <4>1. Store!Remove(k)
        BY <3>4 DEF Store!Remove, Store!Done
      <4> QED
        BY <4>1 DEF Store!Next
    <3> QED
      BY <3>1, <3>2, <3>3, <3>4
  <2> QED
    BY <2>2, <2>3, <2>4, <2>5
<1> QED
  BY <1>1, <1>2

(* The primary database of an INDEXED file implements the record store: it *)
(* changes by one record, in the statement that answers it has, and a      *)
(* WRITE answered as done has stored its record.                           *)
THEOREM PrimaryImplementsStore == Spec => ImplementsStore
<1>1. Init => Store!Init
  <2> SUFFICES ASSUME Init PROVE Store!Init
    OBVIOUS
  <2>1. /\ prim = [k \in Keys |-> 0]
        /\ last = [conn |-> "none", op |-> "none", status |-> SUCCESS]
    BY DEF Init
  <2> QED
    BY <2>1 DEF Store!Init
<1>2. IInv /\ [Next]_vars => [Store!Next]_Store!vars
  BY StoreStep
<1> QED
  BY <1>1, <1>2, Invariant, PTL DEF Spec, ImplementsStore, Store!Spec
-----------------------------------------------------------------------------
(* READ NEXT and PREVIOUS come to the neighbour of their position.         *)

At(x) == <<x.key, x.dup>>

(* The places of the entries give the order of their keys and numbers.     *)
InOrder(L) ==
  /\ Listing(L)
  /\ \A x \in L : x.key \in Nat /\ x.dup \in Nat
  /\ \A x, y \in L : Behind(x, y) <=> Precedes(At(y), At(x))

(* The entries of an index, in the order of keys and numbers. *)
LEMMA EntriesInOrder ==
  ASSUME TypeOK, IndexesAgree, NEW i \in {0, 1}
  PROVE  /\ InOrder(Entries(i))
         /\ ~(i = 1 /\ setup.dups) => \A x \in Entries(i) : x.dup = 0
<1> DEFINE L == Entries(i)
<1>1. Listing(L) /\ \A x \in L : x.key \in Nat /\ x.dup \in Nat
  <2>1. K \in Nat /\ A \in Nat
    BY StateShape
  <2> HIDE DEF L
  <2> QED
    BY <2>1, EntriesShape DEF L
<1>2. CASE i = 0
  <2>1. \A x \in L : x.place = 1 /\ x.dup = 0
    BY <1>2 DEF Entries
  <2> HIDE DEF L
  <2>2. ASSUME NEW x \in L, NEW y \in L PROVE Behind(x, y) <=> Precedes(At(y), At(x))
    <3>1. Behind(x, y) <=> x.key > y.key
      BY <1>1, <2>1 DEF Behind
    <3>2. Precedes(At(y), At(x)) <=> y.key < x.key
      BY <1>1, <2>1 DEF Precedes, At
    <3> QED
      BY <1>1, <3>1, <3>2
  <2> QED
    BY <1>1, <2>1, <2>2 DEF InOrder, L
<1>3. CASE i = 1
  <2>1. ASSUME NEW x \in L
        PROVE  /\ x.key \in 1..A /\ x.place \in DOMAIN alts[x.key]
               /\ x.dup = alts[x.key][x.place].dup
    <3>1. PICK a \in 1..A : x \in {[key |-> a, place |-> n, dup |-> alts[a][n].dup,
                                    prim |-> alts[a][n].prim] : n \in DOMAIN alts[a]}
      BY <1>3 DEF Entries
    <3>2. PICK n \in DOMAIN alts[a] : x = [key |-> a, place |-> n, dup |-> alts[a][n].dup,
                                            prim |-> alts[a][n].prim]
      BY <3>1
    <3> QED
      BY <3>2
  <2> HIDE DEF L
  <2>2. ASSUME NEW x \in L, NEW y \in L PROVE Behind(x, y) <=> Precedes(At(y), At(x))
    <3>1. CASE x.key # y.key
      <4>1. Behind(x, y) <=> x.key > y.key
        BY <3>1 DEF Behind
      <4>2. Precedes(At(y), At(x)) <=> y.key < x.key
        BY <3>1 DEF Precedes, At
      <4> QED
        BY <1>1, <4>1, <4>2
    <3>2. CASE x.key = y.key
      <4> DEFINE s == alts[x.key]
      <4>1. /\ s \in Seq(Entry) /\ x.place \in DOMAIN s /\ y.place \in DOMAIN s
            /\ x.dup = s[x.place].dup /\ y.dup = s[y.place].dup
        BY <2>1, <3>2, StateShape
      <4>2. Ordered(s)
        BY <2>1, AgreeShape
      <4> HIDE DEF s
      <4>3. x.place \in Nat /\ y.place \in Nat
        BY <4>1
      <4>4. Behind(x, y) <=> x.place > y.place
        BY <1>1, <3>2 DEF Behind
      <4>5. Precedes(At(y), At(x)) <=> y.dup < x.dup
        BY <1>1, <3>2 DEF Precedes, At
      <4>6. x.place > y.place => y.dup < x.dup
        BY <4>1, <4>2, <4>3 DEF Ordered
      <4>7. y.place > x.place => x.dup < y.dup
        BY <4>1, <4>2, <4>3 DEF Ordered
      <4>8. x.place = y.place => x.dup = y.dup
        BY <4>1
      <4> QED
        BY <1>1, <4>3, <4>4, <4>5, <4>6, <4>7, <4>8
    <3> QED
      BY <3>1, <3>2
  <2>3. ASSUME ~setup.dups, NEW x \in L PROVE x.dup = 0
    <3>1. alts[x.key][x.place] \in Entry
      <4>1. alts[x.key] \in Seq(Entry) /\ x.place \in DOMAIN alts[x.key]
        BY <2>1, StateShape
      <4> QED
        BY <4>1
    <3> QED
      BY <2>1, <2>3, <3>1 DEF Entry, Numbers
  <2> QED
    BY <1>1, <1>3, <2>2, <2>3 DEF InOrder, L
<1> QED
  BY <1>2, <1>3

IsFirst(e, T) == IF T = {} THEN e = Nothing ELSE e \in T /\ \A y \in T \ {e} : Behind(y, e)
IsLast(e, T)  == IF T = {} THEN e = Nothing ELSE e \in T /\ \A y \in T \ {e} : Behind(e, y)

(* FirstOf and LastOf find the first and the last. *)
LEMMA CursorFirstLast ==
  ASSUME NEW L, Listing(L), NEW T \in SUBSET L
  PROVE  IsFirst(FirstOf(T), T) /\ IsLast(LastOf(T), T)
<1>1. Listing(T)
  BY PartOfListing
<1>2. CASE T = {}
  BY <1>2, CursorResult DEF IsFirst, IsLast
<1>3. CASE T # {}
  BY <1>1, <1>3, FirstResult, LastResult DEF IsFirst, IsLast
<1> QED
  BY <1>2, <1>3

(* The entries from a position on, behind it and before it. *)
From(L, pos)  == {x \in L : ~Precedes(At(x), pos)}
After(L, pos) == {x \in L : Precedes(pos, At(x))}
Ahead(L, pos) == {x \in L : Precedes(At(x), pos)}

(* SkipTo finds the first entry from key v and number d on, when it starts *)
(* at the first with a key not less than v and that key is v.              *)
LEMMA SkipFinds ==
  ASSUME NEW L, InOrder(L), NEW v \in Nat, NEW d \in Nat, NEW n,
         IsFirst(n, {x \in L : x.key >= v}), n # Nothing, n.key = v
  PROVE  IsFirst(SkipTo(L, n, v, d), From(L, <<v, d>>))
<1>1. /\ Listing(L) /\ \A x \in L : x.key \in Nat /\ x.dup \in Nat
  BY DEF InOrder
<1>2. n \in L /\ \A y \in L : y.key >= v /\ y # n => Behind(y, n)
  BY DEF IsFirst
<1>3. ASSUME NEW x \in L
      PROVE  (~Behind(n, x) /\ ~(x.key = v /\ x.dup < d)) <=> ~Precedes(At(x), <<v, d>>)
  <2>1. Precedes(At(x), <<v, d>>) <=> x.key < v \/ (x.key = v /\ x.dup < d)
    BY DEF Precedes, At
  <2>2. x.key >= v => ~Behind(n, x)
    BY <1>1, <1>2, ListingOrder
  <2>3. x.key < v => Behind(n, x)
    BY <1>1 DEF Behind
  <2> QED
    BY <1>1, <2>1, <2>2, <2>3
<1>4. {x \in L : ~Behind(n, x) /\ ~(x.key = v /\ x.dup < d)} = From(L, <<v, d>>)
  BY <1>3 DEF From
<1>5. SkipTo(L, n, v, d) = FirstOf(From(L, <<v, d>>))
  BY <1>4 DEF SkipTo
<1>6. From(L, <<v, d>>) \in SUBSET L
  BY DEF From
<1> QED
  BY <1>1, <1>5, <1>6, CursorFirstLast

(* The place found again by the key and the number last read. *)
Refound(L, q) ==
  LET n == SetRange(L, LastKey(q))
  IN IF n # Nothing /\ Numbered(q) /\ n.key = q.last1 THEN SkipTo(L, n, q.last1, q.dup) ELSE n

(* A position is a key and a number. *)
LEMMA PositionNumbers ==
  ASSUME TypeOK, NEW q \in Driver
  PROVE  /\ LastKey(q) \in Nat /\ q.dup \in Nat
         /\ Position(q) = <<LastKey(q), IF Numbered(q) THEN q.dup ELSE 0>>
         /\ Numbered(q) => LastKey(q) = q.last1
<1>1. q.last0 \in Nat /\ q.last1 \in Nat /\ q.dup \in Nat /\ q.index \in {0, 1}
  BY StateShape DEF Driver
<1> QED
  BY <1>1 DEF LastKey, Position, Numbered

(* It is the first entry that is not before the position. *)
LEMMA RefoundIsFirst ==
  ASSUME TypeOK, IndexesAgree, NEW q \in Driver
  PROVE  IsFirst(Refound(Entries(q.index), q), From(Entries(q.index), Position(q)))
<1> DEFINE L == Entries(q.index)
           v == LastKey(q)
           n == SetRange(L, v)
           d == IF Numbered(q) THEN q.dup ELSE 0
<1>1. q.index \in {0, 1}
  BY DEF Driver
<1>2. InOrder(L) /\ (~Numbered(q) => \A x \in L : x.dup = 0)
  BY <1>1, EntriesInOrder DEF Numbered
<1>3. v \in Nat /\ d \in Nat /\ Position(q) = <<v, d>>
  BY PositionNumbers
<1>4. Listing(L) /\ \A x \in L : x.key \in Nat /\ x.dup \in Nat
  BY <1>2 DEF InOrder
<1> HIDE DEF L, v, d
<1>5. IsFirst(n, {x \in L : x.key >= v})
  BY <1>4, CursorFirstLast DEF SetRange
<1> HIDE DEF n
<1>6. CASE n # Nothing /\ Numbered(q) /\ n.key = q.last1
  <2>1. v = q.last1 /\ d = q.dup
    BY <1>6, PositionNumbers DEF v, d
  <2>2. IsFirst(SkipTo(L, n, v, d), From(L, <<v, d>>))
    BY <1>2, <1>3, <1>5, <1>6, <2>1, SkipFinds
  <2>3. Refound(L, q) = SkipTo(L, n, v, d)
    BY <1>6, <2>1 DEF Refound, n, v
  <2> QED
    BY <1>3, <2>2, <2>3 DEF L
<1>7. CASE ~(n # Nothing /\ Numbered(q) /\ n.key = q.last1)
  <2>1. Refound(L, q) = n
    BY <1>7 DEF Refound, n, v
  <2>2. ASSUME NEW x \in L PROVE x.key >= v <=> ~Precedes(At(x), <<v, d>>)
    <3>1. Precedes(At(x), <<v, d>>) <=> x.key < v \/ (x.key = v /\ x.dup < d)
      BY DEF Precedes, At
    <3>2. ~(x.key = v /\ x.dup < d)
      <4>1. CASE ~Numbered(q)
        <5>1. d = 0 /\ x.dup = 0
          BY <1>2, <4>1 DEF d
        <5> QED
          BY <5>1
      <4>2. CASE Numbered(q)
        <5> SUFFICES ASSUME x.key = v PROVE FALSE
          OBVIOUS
        <5>1. n \in L /\ n # Nothing /\ n.key >= v /\ (x # n => Behind(x, n))
          BY <1>3, <1>4, <1>5, ListingOrder DEF IsFirst
        <5>2. n.key # v
          BY <1>7, <4>2, <5>1, PositionNumbers DEF v
        <5> QED
          BY <1>3, <1>4, <5>1, <5>2 DEF Behind
      <4> QED
        BY <4>1, <4>2
    <3> QED
      BY <1>3, <1>4, <3>1, <3>2
  <2>3. {x \in L : x.key >= v} = From(L, <<v, d>>)
    BY <2>2 DEF From
  <2> QED
    BY <1>3, <1>5, <2>1, <2>3 DEF L
<1> QED
  BY <1>6, <1>7
(* The entry behind the place, and the one before it. *)
LEMMA BeyondResult ==
  ASSUME TypeOK, IndexesAgree, NEW q \in Driver
  PROVE  LET L == Entries(q.index)
         IN  /\ IsFirst(Beyond(L, q, "FIRST"), L) /\ IsLast(Beyond(L, q, "LAST"), L)
             /\ IsFirst(Beyond(L, q, "NEXT"), After(L, Position(q)))
             /\ IsLast(Beyond(L, q, "PREV"), Ahead(L, Position(q)))
<1> DEFINE L == Entries(q.index)
           v == LastKey(q)
           d == IF Numbered(q) THEN q.dup ELSE 0
           pos == Position(q)
           e == Refound(L, q)
           here == e # Nothing /\ e.key = v /\ (Numbered(q) => e.dup = q.dup)
<1>1. q.index \in {0, 1}
  BY DEF Driver
<1>2. InOrder(L) /\ (~Numbered(q) => \A x \in L : x.dup = 0)
  BY <1>1, EntriesInOrder DEF Numbered
<1>3. v \in Nat /\ d \in Nat /\ pos = <<v, d>>
  BY PositionNumbers
<1>4. /\ Listing(L) /\ \A x \in L : x.key \in Nat /\ x.dup \in Nat
      /\ \A x, y \in L : Behind(x, y) <=> Precedes(At(y), At(x))
  BY <1>2 DEF InOrder
<1>5. IsFirst(e, From(L, pos))
  BY RefoundIsFirst
<1>6. /\ Beyond(L, q, "FIRST") = FirstOf(L) /\ Beyond(L, q, "LAST") = LastOf(L)
      /\ Beyond(L, q, "NEXT") = (IF here THEN Step(L, e, "NEXT") ELSE e)
      /\ Beyond(L, q, "PREV") = Below(L, e)
  BY DEF Beyond, Refound
<1> HIDE DEF L, e, v, d, pos
<1>7. IsFirst(FirstOf(L), L) /\ IsLast(LastOf(L), L)
  BY <1>4, CursorFirstLast
<1>8. \A x \in L : /\ Precedes(At(x), pos) <=> x.key < v \/ (x.key = v /\ x.dup < d)
                   /\ Precedes(pos, At(x)) <=> v < x.key \/ (v = x.key /\ d < x.dup)
  BY <1>3 DEF Precedes, At
<1>9. e # Nothing => e \in L /\ ~Precedes(At(e), pos) /\ \A y \in L :
                       ~Precedes(At(y), pos) /\ y # e => Behind(y, e)
  BY <1>5 DEF IsFirst, From
<1>10. e = Nothing => \A y \in L : Precedes(At(y), pos)
  BY <1>4, <1>5, ListingOrder DEF IsFirst, From
<1>11. IsFirst(IF here THEN Step(L, e, "NEXT") ELSE e, After(L, pos))
  <2>1. CASE here
    <3>1. e \in L /\ e.key = v /\ e.dup = d
      BY <1>2, <1>9, <2>1 DEF d
    <3>2. At(e) = pos
      BY <1>3, <3>1 DEF At
    <3>3. {x \in L : Behind(x, e)} = After(L, pos)
      BY <1>4, <3>1, <3>2 DEF After
    <3>4. Step(L, e, "NEXT") = FirstOf(After(L, pos))
      BY <3>3 DEF Step
    <3>5. After(L, pos) \in SUBSET L
      BY DEF After
    <3>6. IsFirst(FirstOf(After(L, pos)), After(L, pos))
      BY <1>4, <3>5, CursorFirstLast
    <3> QED
      BY <2>1, <3>4, <3>6
  <2>2. CASE ~here
    <3>1. ASSUME NEW x \in L PROVE Precedes(pos, At(x)) <=> ~Precedes(At(x), pos)
      <4>1. Precedes(pos, At(x)) => ~Precedes(At(x), pos)
        BY <1>3, <1>4, <1>8
      <4>2. ASSUME ~Precedes(At(x), pos), ~Precedes(pos, At(x)) PROVE FALSE
        <5>1. x.key = v /\ x.dup = d
          BY <1>3, <1>4, <1>8, <4>2
        <5>2. e # Nothing /\ e \in L /\ (x # e => Behind(x, e))
          BY <1>9, <1>10, <4>2
        <5>3. x # e
          BY <2>2, <5>1, <5>2 DEF d
        <5>4. Precedes(At(e), At(x))
          BY <1>4, <5>2, <5>3
        <5>5. At(x) = pos
          BY <1>3, <5>1 DEF At
        <5> QED
          BY <1>9, <5>2, <5>4, <5>5
      <4> QED
        BY <4>1, <4>2
    <3>2. After(L, pos) = From(L, pos)
      BY <3>1 DEF After, From
    <3> QED
      BY <1>5, <2>2, <3>2
  <2> QED
    BY <2>1, <2>2
<1>12. IsLast(Below(L, e), Ahead(L, pos))
  <2>1. CASE e = Nothing
    <3>1. Ahead(L, pos) = L
      BY <1>10, <2>1 DEF Ahead
    <3> QED
      BY <1>7, <2>1, <3>1 DEF Below
  <2>2. CASE e # Nothing
    <3>1. ASSUME NEW x \in L PROVE Behind(e, x) <=> Precedes(At(x), pos)
      <4>1. ASSUME Precedes(At(x), pos) PROVE Behind(e, x)
        <5>1. x.key < v \/ (x.key = v /\ x.dup < d)
          BY <1>8, <4>1
        <5>2. ~(e.key < v \/ (e.key = v /\ e.dup < d)) /\ e \in L
          BY <1>8, <1>9, <2>2
        <5>3. x.key < e.key \/ (x.key = e.key /\ x.dup < e.dup)
          BY <1>3, <1>4, <5>1, <5>2
        <5>4. Precedes(At(x), At(e))
          BY <5>3 DEF Precedes, At
        <5> QED
          BY <1>4, <5>2, <5>4
      <4>2. ASSUME Behind(e, x), ~Precedes(At(x), pos) PROVE FALSE
        <5>1. e \in L /\ (x # e => Behind(x, e))
          BY <1>9, <2>2, <4>2
        <5> QED
          BY <1>4, <4>2, <5>1, ListingOrder
      <4> QED
        BY <4>1, <4>2
    <3>2. {x \in L : Behind(e, x)} = Ahead(L, pos)
      BY <3>1 DEF Ahead
    <3>3. Below(L, e) = LastOf(Ahead(L, pos))
      BY <2>2, <3>2 DEF Below, Step
    <3>4. Ahead(L, pos) \in SUBSET L
      BY DEF Ahead
    <3> QED
      BY <1>4, <3>3, <3>4, CursorFirstLast
  <2> QED
    BY <2>1, <2>2
<1> QED
  BY <1>6, <1>7, <1>11, <1>12 DEF L, pos

(* The entries at the position of the last READ, OPEN or START. *)
There(q) == {x \in Entries(q.index) : At(x) = Position(q) /\ (q.index = 1 => x.prim = q.lastp)}

(* StillThere finds the entry at the position when it is there. *)
LEMMA StillThereResult ==
  ASSUME TypeOK, IndexesAgree, NEW q \in Driver
  PROVE  LET e == StillThere(Entries(q.index), q)
         IN  IF There(q) = {} THEN e = Nothing ELSE e \in There(q)
<1> DEFINE L == Entries(q.index)
           v == LastKey(q)
           d == IF Numbered(q) THEN q.dup ELSE 0
           pos == Position(q)
           first == FirstOf({x \in L : x.key = v})
           e == IF first # Nothing /\ Numbered(q) THEN SkipTo(L, first, q.last1, q.dup) ELSE first
           kept == e.prim = q.lastp /\ e.key = q.last1 /\ (setup.dups => e.dup = q.dup)
<1>1. q.index \in {0, 1} /\ q.last0 \in Nat /\ q.last1 \in Nat
  BY StateShape DEF Driver
<1>2. InOrder(L) /\ (~Numbered(q) => \A x \in L : x.dup = 0)
  BY <1>1, EntriesInOrder DEF Numbered
<1>3. v \in Nat /\ d \in Nat /\ pos = <<v, d>> /\ q.dup \in Nat
  BY PositionNumbers
<1>4. /\ Listing(L) /\ \A x \in L : x.key \in Nat /\ x.dup \in Nat
      /\ \A x, y \in L : Behind(x, y) <=> Precedes(At(y), At(x))
  BY <1>2 DEF InOrder
<1>5. StillThere(L, q) = IF q.index = 1 /\ ~kept THEN Nothing ELSE e
  BY DEF StillThere
<1>6. There(q) = {x \in L : At(x) = pos /\ (q.index = 1 => x.prim = q.lastp)}
  BY DEF There
<1>7. (q.index = 1 => v = q.last1) /\ (Numbered(q) <=> q.index = 1 /\ setup.dups)
  BY DEF LastKey, Numbered
<1>8. Numbered(q) => d = q.dup
  OBVIOUS
<1>9. ~Numbered(q) => d = 0
  OBVIOUS
<1> HIDE DEF L, v, d, pos, first
<1>10. IsFirst(first, {x \in L : x.key = v})
  BY <1>4, CursorFirstLast DEF first
<1>11. \A x \in L : At(x) = pos <=> x.key = v /\ x.dup = d
  BY <1>3 DEF At
<1>12. \A x, y \in L : At(x) = At(y) => x = y
  <2> SUFFICES ASSUME NEW x \in L, NEW y \in L, At(x) = At(y), x # y PROVE FALSE
    OBVIOUS
  <2>1. Precedes(At(x), At(y)) \/ Precedes(At(y), At(x))
    BY <1>4, ListingOrder
  <2>2. x.key = y.key /\ x.dup = y.dup
    BY DEF At
  <2> QED
    BY <1>4, <2>1, <2>2 DEF Precedes, At
(* the entry found, and that none other can be there *)
<1>13. e = Nothing \/ e \in L
  <2>1. first = Nothing \/ first \in L
    BY <1>10 DEF IsFirst
  <2>2. {x \in L : ~Behind(first, x) /\ ~(x.key = q.last1 /\ x.dup < q.dup)} \in SUBSET L
    OBVIOUS
  <2>3. SkipTo(L, first, q.last1, q.dup) \in L \cup {Nothing}
    BY <1>4, <2>2, CursorResult DEF SkipTo
  <2> QED
    BY <2>1, <2>3
<1>14. ASSUME NEW s \in L, At(s) = pos PROVE e = s
  <2>1. s.key = v /\ s.dup = d
    BY <1>11, <1>14
  <2>2. first \in L /\ first.key = v /\ first # Nothing
    BY <1>4, <1>10, <2>1, ListingOrder DEF IsFirst
  <2>3. CASE ~Numbered(q)
    <3>1. e = first /\ d = 0 /\ first.dup = 0
      BY <1>2, <1>9, <2>2, <2>3
    <3>2. At(first) = pos
      BY <1>11, <2>2, <3>1
    <3> QED
      BY <1>12, <1>14, <2>2, <3>1, <3>2
  <2>4. CASE Numbered(q)
    <3>1. v = q.last1 /\ d = q.dup
      BY <1>7, <1>8, <2>4
    <3>2. IsFirst(first, {x \in L : x.key >= v})
      <4>1. first \in {x \in L : x.key >= v}
        BY <1>3, <2>2
      <4>2. ASSUME NEW x \in L, x.key >= v, x # first PROVE Behind(x, first)
        <5>1. CASE x.key = v
          BY <1>10, <2>2, <4>2, <5>1 DEF IsFirst
        <5>2. CASE x.key # v
          BY <1>3, <1>4, <2>2, <4>2, <5>2 DEF Behind
        <5> QED
          BY <5>1, <5>2
      <4> QED
        BY <4>1, <4>2 DEF IsFirst
    <3>3. IsFirst(SkipTo(L, first, v, d), From(L, pos))
      BY <1>2, <1>3, <2>2, <3>2, SkipFinds
    <3>4. e = SkipTo(L, first, v, d)
      BY <2>2, <2>4, <3>1
    <3> HIDE DEF e
    <3>5. s \in From(L, pos)
      <4>1. ~Precedes(At(s), pos)
        BY <1>3, <1>14 DEF Precedes
      <4> QED
        BY <4>1 DEF From
    <3>6. e \in From(L, pos) /\ (s # e => Behind(s, e))
      BY <3>3, <3>4, <3>5 DEF IsFirst
    <3>7. Behind(s, e) => Precedes(At(e), pos)
      BY <1>4, <1>14, <3>6 DEF From
    <3> QED
      BY <3>6, <3>7 DEF From
  <2> QED
    BY <2>3, <2>4
<1> HIDE DEF e
<1>15. ASSUME There(q) # {} PROVE StillThere(L, q) \in There(q)
  <2>1. PICK s \in L : At(s) = pos /\ (q.index = 1 => s.prim = q.lastp)
    BY <1>6, <1>15
  <2>2. e = s /\ s.key = v /\ s.dup = d
    BY <1>11, <1>14, <2>1
  <2>3. q.index = 1 => kept
    BY <1>7, <1>8, <2>1, <2>2
  <2> QED
    BY <1>5, <1>6, <2>1, <2>2, <2>3
<1>16. ASSUME There(q) = {} PROVE StillThere(L, q) = Nothing
  <2> SUFFICES ASSUME e # Nothing, q.index = 1 => kept PROVE FALSE
    BY <1>5
  <2>1. e \in L
    BY <1>13
  <2>2. At(e) = pos
    <3>1. CASE q.index = 1
      <4>1. kept
        BY <3>1
      <4>2. e.key = v /\ e.dup = d
        BY <1>2, <1>7, <1>8, <1>9, <2>1, <3>1, <4>1
      <4> QED
        BY <1>11, <2>1, <4>2
    <3>2. CASE q.index = 0
      <4>1. ~Numbered(q) /\ e = first
        BY <1>7, <3>2 DEF e
      <4>2. e.key = v /\ e.dup = d
        BY <1>2, <1>9, <1>10, <2>1, <4>1 DEF IsFirst
      <4> QED
        BY <1>11, <2>1, <4>2
    <3> QED
      BY <1>1, <3>1, <3>2
  <2>3. e \in There(q)
    BY <1>6, <2>1, <2>2
  <2> QED
    BY <1>16, <2>3
<1> QED
  BY <1>15, <1>16 DEF L
(* What the scan of READ NEXT and PREVIOUS comes to. *)

Nearer(how, x, y) == IF how = "NEXT" THEN Precedes(At(x), At(y)) ELSE Precedes(At(y), At(x))

(* e is the entry of T that the scan comes to first. *)
Nearest(e, T, how) ==
  IF T = {} THEN e = Nothing ELSE e \in T /\ e # Nothing /\ \A d \in T : ~Nearer(how, d, e)

(* In a listing the first entry is the nearest forwards, the last backwards. *)
LEMMA NearestOne ==
  ASSUME NEW L, InOrder(L), NEW T \in SUBSET L, NEW e
  PROVE  /\ IsFirst(e, T) => Nearest(e, T, "NEXT")
         /\ IsLast(e, T) => Nearest(e, T, "PREVIOUS")
<1>1. /\ Listing(L) /\ \A x, y \in L : Behind(x, y) <=> Precedes(At(y), At(x))
  BY DEF InOrder
<1>2. CASE T = {}
  BY <1>2 DEF IsFirst, IsLast, Nearest
<1>3. ASSUME T # {}, IsFirst(e, T) PROVE Nearest(e, T, "NEXT")
  <2>1. e \in T /\ e \in L /\ \A y \in T \ {e} : Behind(y, e)
    BY <1>3 DEF IsFirst
  <2>2. ASSUME NEW d \in T PROVE ~Precedes(At(d), At(e))
    <3>1. d \in L
      OBVIOUS
    <3>2. d # e => Behind(d, e)
      BY <2>1
    <3>3. ~Behind(e, d)
      BY <1>1, <2>1, <3>1, <3>2, ListingOrder
    <3> QED
      BY <1>1, <2>1, <3>1, <3>3
  <2>3. e # Nothing
    BY <1>1, <2>1, ListingOrder
  <2> QED
    BY <1>3, <2>1, <2>2, <2>3 DEF Nearest, Nearer
<1>4. ASSUME T # {}, IsLast(e, T) PROVE Nearest(e, T, "PREVIOUS")
  <2>1. e \in T /\ e \in L /\ \A y \in T \ {e} : Behind(e, y)
    BY <1>4 DEF IsLast
  <2>2. ASSUME NEW d \in T PROVE ~Precedes(At(e), At(d))
    <3>1. d \in L
      OBVIOUS
    <3>2. d # e => Behind(e, d)
      BY <2>1
    <3>3. ~Behind(d, e)
      BY <1>1, <2>1, <3>1, <3>2, ListingOrder
    <3> QED
      BY <1>1, <2>1, <3>1, <3>3
  <2>3. e # Nothing
    BY <1>1, <2>1, ListingOrder
  <2> QED
    BY <1>4, <2>1, <2>2, <2>3 DEF Nearest, Nearer
<1> QED
  BY <1>2, <1>3, <1>4

(* A driver's position says where the scan goes on; its lock does not. *)
LEMMA SamePlace ==
  ASSUME TypeOK, NEW q \in Driver, NEW r \in Driver,
         r.index = q.index, r.last0 = q.last0, r.last1 = q.last1, r.lastp = q.lastp, r.dup = q.dup
  PROVE  Position(r) = Position(q)
BY DEF Position, LastKey, Numbered

(* READ NEXT and PREVIOUS come to the nearest of the entries wanted. *)
LEMMA ScanFinds ==
  ASSUME TypeOK, IndexesAgree, Alone, NEW c \in Conns, NEW how \in {"NEXT", "PREVIOUS"}
  PROVE  Nearest(Reached(c, how), Wanted(c, how), how)
<1> DEFINE q == Unlocked(p[c])
           L == Entries(q.index)
           T == There(q)
           e == Reached(c, how)
           pos == Position(q)
<1>1. p[c] \in Driver /\ q \in Driver /\ q.index \in {0, 1}
  BY StateShape, UnlockedResult DEF Driver
<1>2. q.index = p[c].index /\ q.lastp = p[c].lastp /\ pos = Position(p[c])
  <2>1. /\ q.index = p[c].index /\ q.last0 = p[c].last0 /\ q.last1 = p[c].last1
        /\ q.lastp = p[c].lastp /\ q.dup = p[c].dup
    BY UnlockedResult
  <2> HIDE DEF q
  <2> QED
    BY <1>1, <2>1, SamePlace
<1>3. T \in SUBSET L /\ After(L, pos) \in SUBSET L /\ Ahead(L, pos) \in SUBSET L
  BY DEF There, After, Ahead
<1>4. InOrder(L)
  BY <1>1, EntriesInOrder
<1>5. Wanted(c, how) =
        IF f[c].flag_first_read # 0 /\ T # {} THEN T
        ELSE IF how = "NEXT" THEN IF f[c].flag_begin_of_file THEN L ELSE After(L, pos)
        ELSE IF f[c].flag_end_of_file THEN L ELSE Ahead(L, pos)
  <2>1. T = {x \in Entries(p[c].index) : <<x.key, x.dup>> = Position(p[c])
                                          /\ (p[c].index = 1 => x.prim = p[c].lastp)}
    BY <1>2 DEF There, At
  <2>2. /\ After(L, pos) = {x \in Entries(p[c].index) : Precedes(Position(p[c]), <<x.key, x.dup>>)}
        /\ Ahead(L, pos) = {x \in Entries(p[c].index) : Precedes(<<x.key, x.dup>>, Position(p[c]))}
    BY <1>2 DEF After, Ahead, At
  <2> HIDE DEF q
  <2>3. L = Entries(p[c].index)
    BY <1>2
  <2> HIDE DEF T, L, pos
  <2>4. CASE f[c].flag_first_read # 0 /\ T # {}
    BY <2>1, <2>4 DEF Wanted
  <2>5. CASE ~(f[c].flag_first_read # 0 /\ T # {}) /\ how = "NEXT"
    BY <2>1, <2>2, <2>3, <2>5 DEF Wanted
  <2>6. CASE ~(f[c].flag_first_read # 0 /\ T # {}) /\ how = "PREVIOUS"
    BY <2>1, <2>2, <2>3, <2>6 DEF Wanted
  <2> QED
    BY <2>4, <2>5, <2>6, Zenon
<1>6. e = IF f[c].flag_first_read # 0 /\ StillThere(L, q) # Nothing
          THEN StillThere(L, q) ELSE Beyond(L, q, Way(f[c], how))
  BY DEF Reached
<1>7. IF T = {} THEN StillThere(L, q) = Nothing ELSE StillThere(L, q) \in T
  BY <1>1, StillThereResult
<1>8. /\ IsFirst(Beyond(L, q, "FIRST"), L) /\ IsLast(Beyond(L, q, "LAST"), L)
      /\ IsFirst(Beyond(L, q, "NEXT"), After(L, pos))
      /\ IsLast(Beyond(L, q, "PREV"), Ahead(L, pos))
  BY <1>1, BeyondResult
<1>9. \A x \in T : At(x) = pos
  BY DEF There
<1>10. pos[1] \in Nat /\ pos[2] \in Nat
  <2> HIDE DEF q
  <2>1. LastKey(q) \in Nat /\ q.dup \in Nat /\ pos = <<LastKey(q), IF Numbered(q) THEN q.dup ELSE 0>>
    BY <1>1, PositionNumbers
  <2> HIDE DEF pos
  <2> QED
    BY <2>1
<1> HIDE DEF q, L, T, e, pos
<1>11. \A x \in L : x # Nothing
  BY <1>4, ListingOrder DEF InOrder
<1>12. CASE f[c].flag_first_read # 0 /\ T # {}
  <2>1. StillThere(L, q) \in T /\ StillThere(L, q) # Nothing
    BY <1>3, <1>7, <1>11, <1>12
  <2>2. e \in T /\ e # Nothing
    BY <1>6, <1>12, <2>1
  <2>3. ~Precedes(pos, pos)
    BY <1>10 DEF Precedes
  <2>4. \A d \in T : ~Nearer(how, d, e)
    BY <1>9, <2>2, <2>3 DEF Nearer
  <2> QED
    BY <1>5, <1>12, <2>2, <2>4 DEF Nearest, e
<1>13. CASE ~(f[c].flag_first_read # 0 /\ T # {})
  <2>1. e = Beyond(L, q, Way(f[c], how))
    BY <1>6, <1>7, <1>13
  <2>2. CASE how = "NEXT"
    <3>1. IsFirst(e, Wanted(c, how)) /\ Wanted(c, how) \in SUBSET L
      BY <1>3, <1>5, <1>8, <1>13, <2>1, <2>2 DEF Way
    <3> QED
      BY <1>4, <2>2, <3>1, NearestOne DEF e
  <2>3. CASE how = "PREVIOUS"
    <3>1. IsLast(e, Wanted(c, how)) /\ Wanted(c, how) \in SUBSET L
      BY <1>3, <1>5, <1>8, <1>13, <2>1, <2>3 DEF Way
    <3> QED
      BY <1>4, <2>3, <3>1, NearestOne DEF e
  <2> QED
    BY <2>2, <2>3
<1> QED
  BY <1>12, <1>13
(* A step that is named READ NEXT or READ PREVIOUS is that statement. *)
LEMMA ReadStep ==
  ASSUME IInv, Next, NEW how \in {"NEXT", "PREVIOUS"}, last'.op = ReadOp[how]
  PROVE  \E c : /\ Runs(c) /\ last'.conn = c /\ setup.access[c] # "RANDOM"
                /\ \E opt \in LockOpts : ReadNext(c, how, opt)
<1>1. PICK c : Runs(c) /\ Statement(c)
  BY NextStatement DEF IInv
<1>2. ReadOp[how] \in {"READ NEXT", "READ PREVIOUS"}
  BY ReadNamed
<1> DEFINE Other == last'.op \in {"OPEN", "CLOSE", "UNLOCK", "CRASH", "START", "READ KEY", "WRITE",
                                  "REWRITE", "DELETE", "LOST"}
<1>3. /\ ~Other
      /\ \A op \in {"OPEN", "CLOSE", "UNLOCK", "CRASH", "START", "READ KEY", "WRITE",
                    "REWRITE", "DELETE", "LOST"} : last'.op = op => Other
  BY <1>2
<1> HIDE DEF Other
<1>4. ASSUME NEW mode \in OpenOptions, Open(c, mode) PROVE Other
  <2>1. last'.op = "OPEN"
    BY <1>4, AnswerNamed, Zenon DEF Open, Refused
  <2> QED
    BY <2>1, <1>3
<1>5. ASSUME Close(c) \/ Unlock(c) \/ Crash(c) PROVE Other
  <2>1. last'.op \in {"CLOSE", "UNLOCK", "CRASH"}
    BY <1>5, AnswerNamed DEF Close, Unlock, Crash, Refused
  <2> QED
    BY <2>1, <1>3
<1>6. ASSUME NEW i, NEW v, NEW cond, Start(c, i, v, cond) PROVE Other
  <2>1. last'.op = "START"
    BY <1>6, AnswerNamed, Zenon DEF Start, Refused
  <2> QED
    BY <2>1, <1>3
<1>7. ASSUME NEW i, NEW v, NEW opt, ReadKey(c, i, v, opt) PROVE Other
  <2>1. last'.op = "READ KEY"
    BY <1>7, AnswerNamed, Zenon DEF ReadKey, Refused, Deliver
  <2> QED
    BY <2>1, <1>3
<1>8. ASSUME NEW op, Fruitless(c, op) PROVE last'.op = op
  BY <1>8, AnswerNamed DEF Fruitless
<1>9. ASSUME Lost(c) PROVE Other
  <2>1. last'.op = "LOST"
    BY <1>9 DEF Lost, GoAstray
  <2> QED
    BY <2>1, <1>3
<1>10. ASSUME NEW k \in Keys, NEW a \in 1..A, NEW lock \in BOOLEAN,
              Write(c, k, a, lock) \/ Rewrite(c, k, a, lock)
       PROVE  Other
  <2>1. last'.op = "WRITE" \/ last'.op = "REWRITE" \/ Lost(c)
    BY <1>1, <1>8, <1>10, WriteCases, RewriteCases, ChangedLast
  <2> QED
    BY <2>1, <1>9, <1>3
<1>11. ASSUME NEW k \in Keys, Delete(c, k) PROVE Other
  <2>1. last'.op = "DELETE" \/ Lost(c)
    BY <1>1, <1>8, <1>11, DeleteCases, ChangedLast
  <2> QED
    BY <2>1, <1>9, <1>3
<1>12. \E h \in {"NEXT", "PREVIOUS"}, opt \in LockOpts :
         setup.access[c] # "RANDOM" /\ ReadNext(c, h, opt)
  BY <1>1, <1>3, <1>4, <1>5, <1>6, <1>7, <1>10, <1>11, Zenon DEF Statement
<1>13. PICK h \in {"NEXT", "PREVIOUS"}, opt \in LockOpts :
         setup.access[c] # "RANDOM" /\ ReadNext(c, h, opt)
  BY <1>12
<1>14. last'.conn = c /\ last'.op = ReadOp[h]
  <2> DEFINE op == ReadOp[h]
             e == Reached(c, h)
             q == Unlocked(p[c])
  <2>1. \/ \E status, g : Refused(c, op, status, g)
        \/ \E status, g : Answer(c, op, status, g, q)
        \/ Deliver(c, op, h, e, q, opt)
    BY <1>13, ReadNextCases
  <2> HIDE DEF op, e, q
  <2>2. last'.conn = c /\ last'.op = op
    BY <2>1, AnswerNamed DEF Refused, Deliver
  <2> QED
    BY <2>2 DEF op
<1>15. h = how
  BY <1>14, ReadNamed
<1> QED
  BY <1>1, <1>13, <1>14, <1>15

(* What the property says of one READ. *)
Exact(c, how) ==
  /\ last'.status = END_OF_FILE => Wanted(c, how) = {}
  /\ last'.status = SUCCESS =>
       \E e \in Wanted(c, how) :
         /\ e.prim = IF p'[c].index = 0 THEN p'[c].last0 ELSE p'[c].lastp
         /\ Position(p'[c]) = <<e.key, e.dup>>
         /\ \A d \in Wanted(c, how) : ~Nearer(how, d, e)

(* A READ NEXT or PREVIOUS is exact. *)
LEMMA ScanStep ==
  ASSUME IInv, NEW c, Runs(c), setup.access[c] # "RANDOM", NEW how \in {"NEXT", "PREVIOUS"},
         NEW opt \in LockOpts, ReadNext(c, how, opt), p[c].data,
         ~(how = "PREVIOUS" /\ f[c].flag_first_read = 2)
  PROVE  Exact(c, how)
<1> DEFINE q == Unlocked(p[c])
           e == Reached(c, how)
           op == ReadOp[how]
           W == Wanted(c, how)
<1>1. /\ c \in Conns /\ TypeOK /\ IndexesAgree /\ Alone /\ Fine(f[c], setup.access[c])
      /\ K \in Nat \ {0} /\ A \in Nat \ {0} /\ setup.access[c] \in AccessModes
  BY Before, StateShape DEF IInv, Runs
<1>2. q \in Driver /\ q.data = p[c].data
  BY <1>1, UnlockedResult
<1>3. ~TooEarly(c, how)
  BY <1>2 DEF TooEarly, Way
<1>4. Nearest(e, W, how) /\ e \in Entries(q.index) \cup {Nothing}
  BY <1>1, ScanFinds, ReachedResult
<1>5. \/ Refused(c, op, ReadCheck(f[c], how), RefusedRead(f[c]))
      \/ e = Nothing /\ Answer(c, op, END_OF_FILE, AfterRead(f[c], how, END_OF_FILE), q)
      \/ e # Nothing /\ Deliver(c, op, how, e, q, opt)
  BY <1>3, ReadNextCases
<1> HIDE DEF q, e, op, W
<1>6. CASE Refused(c, op, ReadCheck(f[c], how), RefusedRead(f[c]))
  <2>1. ReadCheck(f[c], how) \in {READ_ERROR, INPUT_DENIED}
    BY <1>1, <1>6, Checks DEF Refused
  <2>2. last'.status \in {READ_ERROR, INPUT_DENIED}
    BY <1>6, <2>1 DEF Refused, Answer
  <2>3. last'.status # SUCCESS /\ last'.status # END_OF_FILE
    BY <2>2 DEF READ_ERROR, INPUT_DENIED, SUCCESS, END_OF_FILE
  <2> QED
    BY <2>3 DEF Exact
<1>7. CASE e = Nothing /\ Answer(c, op, END_OF_FILE, AfterRead(f[c], how, END_OF_FILE), q)
  <2>1. last'.status = END_OF_FILE /\ END_OF_FILE # SUCCESS
    BY <1>7 DEF Answer, END_OF_FILE, SUCCESS
  <2>2. W = {}
    BY <1>4, <1>7 DEF Nearest
  <2> QED
    BY <2>1, <2>2 DEF Exact, W
<1>8. CASE e # Nothing /\ Deliver(c, op, how, e, q, opt)
  <2>1. CASE opt # "ignore" /\ Blocked(c, e.prim)
    <3>1. last'.status = RECORD_LOCKED
      BY <1>8, <2>1 DEF Deliver, Answer
    <3>2. RECORD_LOCKED # SUCCESS /\ RECORD_LOCKED # END_OF_FILE
      BY DEF RECORD_LOCKED, SUCCESS, END_OF_FILE
    <3> QED
      BY <3>1, <3>2 DEF Exact
  <2>2. CASE ~(opt # "ignore" /\ Blocked(c, e.prim))
    <3> DEFINE s == PositionAt(q, e)
               s1 == [s EXCEPT !.pkey = e.prim]
               lock == IF ReadLocks(c, opt) THEN e.prim ELSE s.lock
               s2 == [s1 EXCEPT !.lock = lock]
               g == AfterRead(f[c], how, SUCCESS)
               u == Used(g.access_mode, s2)
    <3>1. e \in W /\ e \in Entries(q.index) /\ (\A d \in W : ~Nearer(how, d, e))
      BY <1>4, <1>8 DEF Nearest
    <3>2. e.prim \in Keys
      <4>1. q.index \in {0, 1}
        BY <1>2 DEF Driver
      <4> QED
        BY <1>1, <3>1, <4>1, EntriesShape
    <3>3. /\ s \in Driver /\ Position(s) = <<e.key, e.dup>>
          /\ e.prim = IF s.index = 0 THEN s.last0 ELSE s.lastp
      BY <1>1, <1>2, <3>1, PositionAtResult
    <3>4. Answer(c, op, SUCCESS, g, [s EXCEPT !.pkey = e.prim,
                                              !.lock = IF ReadLocks(c, opt) THEN e.prim ELSE @])
      BY <1>8, <2>2 DEF Deliver
    <3>5. g.access_mode = setup.access[c]
      <4>1. f[c] \in Cob_file /\ f[c].access_mode = setup.access[c]
        BY <1>1 DEF Fine
      <4>2. how \in {"KEY", "NEXT", "PREVIOUS"}
        OBVIOUS
      <4>3. Same(f[c], g)
        BY <4>1, <4>2, ReadEffect
      <4> HIDE DEF g
      <4> QED
        BY <4>1, <4>3 DEF Same
    <3> HIDE DEF s, g
    <3>6. e.prim \in 0..K /\ lock \in 0..K
      BY <1>1, <3>2, <3>3 DEF Keys, Driver
    <3> HIDE DEF lock
    <3>7. s1 \in Driver
      BY <3>3, <3>6, DriverField, Zenon
    <3>8. /\ s1.index = s.index /\ s1.last0 = s.last0 /\ s1.last1 = s.last1
          /\ s1.lastp = s.lastp /\ s1.dup = s.dup /\ s1.lock = s.lock
      BY <3>3 DEF Driver
    <3>9. [s EXCEPT !.pkey = e.prim, !.lock = IF ReadLocks(c, opt) THEN e.prim ELSE @] = s2
      BY <3>3, <3>8 DEF s1, lock, Driver
    <3> HIDE DEF s1
    <3>10. s2 \in Driver
      BY <3>6, <3>7, DriverField, Zenon
    <3>11. /\ s2.index = s.index /\ s2.last0 = s.last0 /\ s2.last1 = s.last1
           /\ s2.lastp = s.lastp /\ s2.dup = s.dup
      BY <3>7, <3>8 DEF Driver
    <3>12. last'.status = SUCCESS /\ p'[c] = u /\ setup' = setup
      BY <1>1, <3>4, <3>9, Zenon DEF Answer, TypeOK
    <3> HIDE DEF s2
    <3>13. /\ u \in Driver /\ u.index = s.index /\ u.last0 = s.last0 /\ u.last1 = s.last1
           /\ u.lastp = s.lastp /\ u.dup = s.dup
      BY <1>1, <3>5, <3>10, <3>11, UsedResult
    <3> HIDE DEF u
    <3>14. Position(u) = <<e.key, e.dup>>
      BY <1>1, <3>3, <3>13, SamePlace
    <3>15. SUCCESS # END_OF_FILE
      BY DEF SUCCESS, END_OF_FILE
    <3> QED
      BY <3>1, <3>3, <3>12, <3>13, <3>14, <3>15 DEF Exact, W, Position, LastKey, Numbered
  <2> QED
    BY <2>1, <2>2
<1> QED
  BY <1>5, <1>6, <1>7, <1>8

(* READ NEXT and READ PREVIOUS give the entry next to the position that    *)
(* the connector has, whatever other statements and connectors have        *)
(* written, rewritten or deleted since, and end the file only when there   *)
(* is none; the first READ gives the entry that OPEN or START found, if it *)
(* is still there.                                                         *)
THEOREM ReadsAreExact == Spec => ScanIsExact
<1> DEFINE P(c, how) ==
       last'.conn = c /\ last'.op = ReadOp[how] /\ p[c].data
         /\ ~(how = "PREVIOUS" /\ f[c].flag_first_read = 2) =>
       /\ last'.status = END_OF_FILE => Wanted(c, how) = {}
       /\ last'.status = SUCCESS =>
            \E e \in Wanted(c, how) :
              /\ e.prim = IF p'[c].index = 0 THEN p'[c].last0 ELSE p'[c].lastp
              /\ Position(p'[c]) = <<e.key, e.dup>>
              /\ \A d \in Wanted(c, how) :
                   ~Precedes(IF how = "NEXT" THEN <<d.key, d.dup>> ELSE <<e.key, e.dup>>,
                             IF how = "NEXT" THEN <<e.key, e.dup>> ELSE <<d.key, d.dup>>)
<1>1. ASSUME IInv, Next, NEW c \in Conns, NEW how \in {"NEXT", "PREVIOUS"} PROVE P(c, how)
  <2> SUFFICES ASSUME last'.conn = c, last'.op = ReadOp[how], p[c].data,
                      ~(how = "PREVIOUS" /\ f[c].flag_first_read = 2)
               PROVE  P(c, how)
    OBVIOUS
  <2>1. /\ Runs(c) /\ setup.access[c] # "RANDOM"
        /\ \E opt \in LockOpts : ReadNext(c, how, opt)
    BY <1>1, ReadStep
  <2>2. Exact(c, how)
    BY <1>1, <2>1, ScanStep
  <2>3. ASSUME NEW x, NEW y
        PROVE  Nearer(how, x, y) <=> Precedes(IF how = "NEXT" THEN At(x) ELSE At(y),
                                              IF how = "NEXT" THEN At(y) ELSE At(x))
    BY DEF Nearer
  <2> QED
    BY <2>2, <2>3, Zenon DEF Exact, At
<1>2. IInv /\ [Next]_vars =>
        [\A c \in Conns, how \in {"NEXT", "PREVIOUS"} : P(c, how)]_vars
  BY <1>1
<1> QED
  BY <1>2, Invariant, PTL DEF Spec, ScanIsExact
==============================================================================
