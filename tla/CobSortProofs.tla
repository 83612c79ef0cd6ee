----------------------------- MODULE CobSortProofs -----------------------------
(***************************************************************************)
(* CobSort for every program, every memory and any number of records: what *)
(* the queues and files hold at each stage of a SORT, block by block, and  *)
(* from it that the engine implements SortContract.                        *)
(***************************************************************************)
EXTENDS CobSort, FiniteSetTheorems, SequenceTheorems, WellFoundedInduction, NaturalsInduction, TLAPS

(***************************************************************************)
(* Blocks: on a queue a block ends with an item that says so, on a file    *)
(* with a marker.  What is read of a file begins at position a.            *)
(***************************************************************************)
EndsOf(s, a) == {j \in DOMAIN s : j >= a /\ s[j].eob}
Blocks(s, a) == Cardinality(EndsOf(s, a))

Closed(s)        == s # <<>> => s[Len(s)].eob
Rising(s)        == \A j \in 1..Len(s) - 1 : ~s[j].eob => Less(s[j], s[j + 1])
RisingFrom(s, a) == \A j \in a..Len(s) - 1 : ~s[j].eob /\ ~s[j + 1].eob => Less(s[j], s[j + 1])
Single(s)        == \A j \in 1..Len(s) - 1 : Less(s[j], s[j + 1])

(* The last item of a list belongs to a block that is not ended. *)
Unended(s) == s # <<>> /\ ~s[Len(s)].eob

-----------------------------------------------------------------------------
(* Facts about sequences of items.                                         *)

(* A nonempty set of numbers has a least one. *)
LEMMA LeastExists ==
  ASSUME NEW S \in SUBSET Nat, S # {}
  PROVE  \E n \in S : \A m \in S : n <= m
<1> DEFINE R == OpToRel(<, Nat)
<1>1. PICK n \in S : \A m \in S : ~ (<<m, n>> \in R)
  BY NatLessThanWellFounded, WFMin, Zenon
<1>2. ASSUME NEW m \in S PROVE n <= m
  <2>1. <<m, n>> \notin {pair \in Nat \X Nat : pair[1] < pair[2]}
    BY <1>1 DEF OpToRel
  <2>2. <<m, n>> \in Nat \X Nat
    OBVIOUS
  <2>3. ~(m < n)
    BY <2>1, <2>2
  <2> QED
    BY <2>3
<1> QED
  BY <1>2

(* The order of items is a strict order, total where stamps differ. *)
LEMMA LessTransitive ==
  ASSUME NEW x, NEW y, NEW z, x.key \in Nat, y.key \in Nat, z.key \in Nat,
         x.unique \in Nat, y.unique \in Nat, z.unique \in Nat, Less(x, y), Less(y, z)
  PROVE  Less(x, z)
BY DEF Less

(* Of two items with different stamps one comes first. *)
LEMMA LessTotal ==
  ASSUME NEW x, NEW y, x.key \in Nat, y.key \in Nat,
         x.unique \in Nat, y.unique \in Nat, x.unique # y.unique
  PROVE  ~Less(x, y) <=> Less(y, x)
BY DEF Less

(* Numbers of blocks are numbers. *)
LEMMA BlocksFinite ==
  ASSUME NEW S, NEW s \in Seq(S), NEW a \in Nat
  PROVE  IsFiniteSet(EndsOf(s, a)) /\ Blocks(s, a) \in Nat
<1>1. EndsOf(s, a) \in SUBSET (1..Len(s)) /\ Len(s) \in Nat
  BY LenProperties DEF EndsOf
<1>2. IsFiniteSet(1..Len(s))
  BY <1>1, FS_Interval
<1>3. IsFiniteSet(EndsOf(s, a))
  BY <1>1, <1>2, FS_Subset
<1> QED
  BY <1>3, FS_CardinalityType DEF Blocks

(* A list without items from a on has no block. *)
LEMMA NoBlocks ==
  ASSUME NEW S, NEW s \in Seq(S), NEW a \in Nat, a > Len(s)
  PROVE  Blocks(s, a) = 0
<1>1. EndsOf(s, a) = {}
  BY LenProperties DEF EndsOf
<1> QED
  BY <1>1, FS_EmptySet DEF Blocks

(* The first item that is read ends a block or not. *)
LEMMA BlocksAdvance ==
  ASSUME NEW S, NEW s \in Seq(S), NEW a \in 1..Len(s)
  PROVE  Blocks(s, a) = Blocks(s, a + 1) + (IF s[a].eob THEN 1 ELSE 0)
<1> DEFINE E == EndsOf(s, a + 1)
<1>0. Len(s) \in Nat /\ DOMAIN s = 1..Len(s) /\ a \in Nat /\ a + 1 \in Nat
  BY LenProperties
<1>1. IsFiniteSet(E) /\ Cardinality(E) = Blocks(s, a + 1) /\ Cardinality(E) \in Nat
  BY <1>0, BlocksFinite DEF Blocks
<1>2. a \notin E
  BY <1>0 DEF EndsOf
<1>3. CASE s[a].eob
  <2>1. EndsOf(s, a) = E \cup {a}
    BY <1>0, <1>3 DEF EndsOf
  <2> QED
    BY <1>1, <1>2, <1>3, <2>1, FS_AddElement DEF Blocks
<1>4. CASE ~s[a].eob
  <2>1. EndsOf(s, a) = E
    BY <1>0, <1>4 DEF EndsOf
  <2> QED
    BY <1>1, <1>4, <2>1 DEF Blocks
<1> QED
  BY <1>3, <1>4

(* A list that is closed has a block where it has items, and while it has one *)
(* block only its last item ends one.                                       *)
LEMMA ClosedBlocks ==
  ASSUME NEW S, NEW s \in Seq(S), NEW a \in 1..Len(s), Closed(s)
  PROVE  /\ Blocks(s, a) >= 1
         /\ Blocks(s, a) = 1 => s[Len(s)].eob /\ \A j \in a..Len(s) - 1 : ~s[j].eob
<1>0. Len(s) \in Nat /\ DOMAIN s = 1..Len(s) /\ a \in Nat
  BY LenProperties
<1>1. IsFiniteSet(EndsOf(s, a)) /\ Blocks(s, a) \in Nat
  BY <1>0, BlocksFinite
<1>2. s # <<>> /\ s[Len(s)].eob
  BY <1>0 DEF Closed
<1>3. Len(s) \in EndsOf(s, a)
  BY <1>0, <1>2 DEF EndsOf
<1>4. Blocks(s, a) # 0
  BY <1>1, <1>3, FS_EmptySet DEF Blocks
<1>5. ASSUME Blocks(s, a) = 1, NEW j \in a..Len(s) - 1, s[j].eob
      PROVE  FALSE
  <2>1. j \in EndsOf(s, a)
    BY <1>0, <1>5 DEF EndsOf
  <2>2. PICK x : EndsOf(s, a) = {x}
    BY <1>1, <1>5, FS_Singleton DEF Blocks
  <2> QED
    BY <1>0, <1>3, <1>5, <2>1, <2>2
<1> QED
  BY <1>1, <1>2, <1>4, <1>5

(* A list all of whose items end a block. *)
LEMMA BlocksOfSingles ==
  ASSUME NEW S, NEW s \in Seq(S), \A j \in DOMAIN s : s[j].eob
  PROVE  Blocks(s, 1) = Len(s) /\ Closed(s) /\ Rising(s)
<1>0. Len(s) \in Nat /\ DOMAIN s = 1..Len(s)
  BY LenProperties
<1>1. EndsOf(s, 1) = 1..Len(s)
  BY <1>0 DEF EndsOf
<1>2. Cardinality(1..Len(s)) = Len(s)
  <2> DEFINE n == Len(s)
  <2>1. n \in Nat
    BY <1>0
  <2> HIDE DEF n
  <2>2. 1 \in Int /\ n \in Int
    BY <2>1
  <2>3. Cardinality(1..n) = IF 1 > n THEN 0 ELSE n - 1 + 1
    BY <2>2, FS_Interval
  <2>4. Cardinality(1..n) = n
    BY <2>1, <2>3
  <2> QED
    BY <2>4 DEF n
<1>3. Closed(s)
  <2>1. s # <<>> => Len(s) \in DOMAIN s
    BY <1>0, EmptySeq
  <2> QED
    BY <2>1 DEF Closed
<1> QED
  BY <1>0, <1>1, <1>2, <1>3 DEF Blocks, Rising

(* One item more. *)
LEMMA BlocksAppend ==
  ASSUME NEW S, NEW s \in Seq(S), NEW x \in S, NEW a \in 1..Len(s) + 1
  PROVE  /\ Blocks(Append(s, x), a) = Blocks(s, a) + (IF x.eob THEN 1 ELSE 0)
         /\ Closed(Append(s, x)) <=> x.eob
         /\ Unended(Append(s, x)) <=> ~x.eob
<1> DEFINE t == Append(s, x)
           E == EndsOf(s, a)
<1>0. /\ Len(s) \in Nat /\ DOMAIN s = 1..Len(s) /\ a \in Nat
      /\ t \in Seq(S) /\ Len(t) = Len(s) + 1 /\ DOMAIN t = 1..Len(s) + 1 /\ t # <<>>
      /\ t[Len(s) + 1] = x /\ \A j \in 1..Len(s) : t[j] = s[j]
  BY LenProperties, AppendProperties
<1> HIDE DEF t
<1>1. IsFiniteSet(E) /\ Cardinality(E) = Blocks(s, a) /\ Cardinality(E) \in Nat
  BY <1>0, BlocksFinite DEF Blocks
<1>2. Len(s) + 1 \notin E
  BY <1>0 DEF EndsOf
<1>3. Blocks(t, a) = Blocks(s, a) + (IF x.eob THEN 1 ELSE 0)
  <2>1. CASE x.eob
    <3>1. EndsOf(t, a) = E \cup {Len(s) + 1}
      BY <1>0, <2>1 DEF EndsOf
    <3> QED
      BY <1>1, <1>2, <2>1, <3>1, FS_AddElement DEF Blocks
  <2>2. CASE ~x.eob
    <3>1. EndsOf(t, a) = E
      BY <1>0, <2>2 DEF EndsOf
    <3> QED
      BY <1>1, <2>2, <3>1 DEF Blocks
  <2> QED
    BY <2>1, <2>2
<1>4. t[Len(t)] = x
  BY <1>0
<1> QED
  BY <1>0, <1>3, <1>4 DEF t, Closed, Unended

(* An item that follows the last one of a block that is not ended. *)
LEMMA RisingAppend ==
  ASSUME NEW S, NEW s \in Seq(S), NEW x \in S, NEW a \in Nat \ {0}
  PROVE  /\ Rising(s) /\ (Unended(s) => Less(s[Len(s)], x)) => Rising(Append(s, x))
         /\ RisingFrom(s, a) /\ (Unended(s) /\ ~x.eob => Less(s[Len(s)], x))
              => RisingFrom(Append(s, x), a)
<1> DEFINE t == Append(s, x)
<1>0. /\ Len(s) \in Nat /\ Len(t) = Len(s) + 1
      /\ t[Len(s) + 1] = x /\ \A j \in 1..Len(s) : t[j] = s[j]
      /\ Len(s) > 0 => s # <<>>
  BY LenProperties, AppendProperties, EmptySeq
<1> HIDE DEF t
<1>1. ASSUME Rising(s), Unended(s) => Less(s[Len(s)], x) PROVE Rising(t)
  <2> SUFFICES ASSUME NEW j \in 1..Len(t) - 1, ~t[j].eob PROVE Less(t[j], t[j + 1])
    BY DEF Rising
  <2>1. CASE j = Len(s)
    BY <1>0, <1>1, <2>1 DEF Unended
  <2>2. CASE j # Len(s)
    BY <1>0, <1>1, <2>2 DEF Rising
  <2> QED
    BY <2>1, <2>2
<1>2. ASSUME RisingFrom(s, a), Unended(s) /\ ~x.eob => Less(s[Len(s)], x) PROVE RisingFrom(t, a)
  <2> SUFFICES ASSUME NEW j \in a..Len(t) - 1, ~t[j].eob, ~t[j + 1].eob PROVE Less(t[j], t[j + 1])
    BY DEF RisingFrom
  <2>1. CASE j = Len(s)
    BY <1>0, <1>2, <2>1 DEF Unended
  <2>2. CASE j # Len(s)
    BY <1>0, <1>2, <2>2 DEF RisingFrom
  <2> QED
    BY <2>1, <2>2
<1> QED
  BY <1>1, <1>2 DEF t

(* The first item less. *)
LEMMA BlocksTail ==
  ASSUME NEW S, NEW s \in Seq(S), s # <<>>
  PROVE  /\ Blocks(s, 1) = Blocks(Tail(s), 1) + (IF s[1].eob THEN 1 ELSE 0)
         /\ Closed(s) => Closed(Tail(s))
         /\ Rising(s) => Rising(Tail(s))
         /\ Closed(s) /\ Tail(s) = <<>> => s[1].eob
<1> DEFINE t == Tail(s)
<1>0. /\ Len(s) \in Nat \ {0} /\ DOMAIN s = 1..Len(s)
      /\ t \in Seq(S) /\ Len(t) = Len(s) - 1 /\ DOMAIN t = 1..Len(s) - 1
      /\ \A j \in 1..Len(s) - 1 : t[j] = s[j + 1]
      /\ t # <<>> => Len(t) > 0 /\ Len(s) > 1
      /\ t = <<>> => Len(s) = 1
  <2>1. Len(s) \in Nat \ {0} /\ DOMAIN s = 1..Len(s)
    BY LenProperties, EmptySeq
  <2>2. /\ t \in Seq(S) /\ Len(t) = Len(s) - 1
        /\ \A j \in 1..Len(t) : t[j] = s[j + 1]
    BY HeadTailProperties
  <2> HIDE DEF t
  <2>3. DOMAIN t = 1..Len(t) /\ Len(t) \in Nat /\ (t # <<>> => Len(t) # 0) /\ (t = <<>> => Len(t) = 0)
    BY <2>2, LenProperties, EmptySeq
  <2> QED
    BY <2>1, <2>2, <2>3
<1> HIDE DEF t
<1>1. Blocks(s, 1) = Blocks(s, 2) + (IF s[1].eob THEN 1 ELSE 0)
  BY <1>0, BlocksAdvance
<1>2. Blocks(s, 2) = Blocks(t, 1)
  <2> DEFINE E == EndsOf(t, 1)
             F == EndsOf(s, 2)
             g == [j \in E |-> j + 1]
  <2>1. /\ \A j \in E : j \in Nat /\ j + 1 \in F
        /\ \A j \in F : j - 1 \in E /\ j = (j - 1) + 1 /\ j \in Nat
    BY <1>0 DEF EndsOf
  <2>2. g \in Bijection(E, F)
    <3>1. g \in [E -> F]
      BY <2>1
    <3>2. \A j, k \in E : g[j] = g[k] => j = k
      BY <2>1
    <3>3. \A j \in F : \E k \in E : g[k] = j
      BY <2>1
    <3> QED
      BY <3>1, <3>2, <3>3 DEF Bijection, Injection, Surjection, IsInjective
  <2>3. ExistsBijection(E, F)
    BY <2>2 DEF ExistsBijection
  <2>4. IsFiniteSet(E)
    BY <1>0, BlocksFinite
  <2> QED
    BY <2>3, <2>4, FS_Bijection DEF Blocks
<1>3. Closed(s) => Closed(t)
  BY <1>0 DEF Closed
<1>4. Rising(s) => Rising(t)
  <2> SUFFICES ASSUME Rising(s), NEW j \in 1..Len(t) - 1, ~t[j].eob PROVE Less(t[j], t[j + 1])
    BY DEF Rising
  <2>1. t[j] = s[j + 1] /\ t[j + 1] = s[j + 2] /\ j + 1 \in 1..Len(s) - 1 /\ (j + 1) + 1 = j + 2
    BY <1>0
  <2> QED
    BY <2>1 DEF Rising
<1>5. Closed(s) /\ t = <<>> => s[1].eob
  BY <1>0, EmptySeq DEF Closed
<1> QED
  BY <1>1, <1>2, <1>3, <1>4, <1>5 DEF t
(* The last block of a queue is ended: what QueueBlock does. *)
LEMMA LastEnds ==
  ASSUME NEW S, NEW s \in Seq(S), Unended(s), NEW t \in Seq(S), Len(t) = Len(s),
         t[Len(s)].eob, t[Len(s)].key = s[Len(s)].key, t[Len(s)].unique = s[Len(s)].unique,
         \A j \in 1..Len(s) - 1 : t[j] = s[j]
  PROVE  Blocks(t, 1) = Blocks(s, 1) + 1 /\ Closed(t) /\ (Rising(s) => Rising(t))
<1> DEFINE E == EndsOf(s, 1)
           n == Len(s)
<1>0. n \in Nat \ {0} /\ DOMAIN s = 1..n /\ DOMAIN t = 1..n /\ ~s[n].eob
  BY LenProperties, EmptySeq DEF Unended
<1>1. IsFiniteSet(E) /\ Cardinality(E) = Blocks(s, 1) /\ Cardinality(E) \in Nat
  BY BlocksFinite DEF Blocks
<1>2. n \notin E
  BY <1>0 DEF EndsOf
<1>3. EndsOf(t, 1) = E \cup {n}
  BY <1>0 DEF EndsOf
<1>4. Blocks(t, 1) = Blocks(s, 1) + 1
  BY <1>1, <1>2, <1>3, FS_AddElement DEF Blocks
<1>5. ASSUME Rising(s), NEW j \in 1..Len(t) - 1, ~t[j].eob PROVE Less(t[j], t[j + 1])
  <2>1. ~s[j].eob /\ Less(s[j], s[j + 1]) /\ t[j] = s[j]
    BY <1>0, <1>5 DEF Rising
  <2>2. t[j + 1].key = s[j + 1].key /\ t[j + 1].unique = s[j + 1].unique
    BY <1>0
  <2> QED
    BY <2>1, <2>2 DEF Less
<1> QED
  BY <1>4, <1>5 DEF Closed, Rising

(* cob_write_block: a sorted list and a marker behind what is closed. *)
LEMMA BlockWritten ==
  ASSUME NEW S, NEW s \in Seq(S), NEW q \in Seq(S), NEW t \in Seq(S),
         Closed(s), Single(q),
         Len(t) = Len(s) + Len(q) + 1,
         \A j \in 1..Len(s) : t[j] = s[j],
         \A j \in 1..Len(q) : /\ t[Len(s) + j].key = q[j].key
                              /\ t[Len(s) + j].unique = q[j].unique
                              /\ ~t[Len(s) + j].eob,
         t[Len(s) + Len(q) + 1].eob
  PROVE  /\ Blocks(t, 1) = Blocks(s, 1) + 1 /\ Closed(t)
         /\ RisingFrom(s, 1) => RisingFrom(t, 1)
<1> DEFINE E == EndsOf(s, 1)
           m == Len(s)
           n == Len(q)
<1>0. /\ m \in Nat /\ n \in Nat /\ DOMAIN s = 1..m /\ Len(t) = m + n + 1 /\ DOMAIN t = 1..m + n + 1
      /\ m # 0 => s[m].eob
  BY LenProperties, EmptySeq DEF Closed
<1>1. IsFiniteSet(E) /\ Cardinality(E) = Blocks(s, 1) /\ Cardinality(E) \in Nat
  BY BlocksFinite DEF Blocks
<1>a. ASSUME NEW j \in m + 1..m + n
      PROVE  j - m \in 1..n /\ j = m + (j - m) /\ ~t[j].eob
  <2>1. j - m \in 1..n /\ j = m + (j - m)
    BY <1>0
  <2> QED
    BY <2>1
<1> HIDE DEF m, n
<1>2. m + n + 1 \notin E
  BY <1>0 DEF EndsOf
<1>3. EndsOf(t, 1) = E \cup {m + n + 1}
  <2>1. \A j \in 1..m : t[j] = s[j]
    BY DEF m
  <2>2. t[m + n + 1].eob
    BY DEF m, n
  <2>3. ASSUME NEW j \in EndsOf(t, 1) PROVE j \in E \cup {m + n + 1}
    <3>1. j \in 1..m + n + 1 /\ t[j].eob
      BY <1>0, <2>3 DEF EndsOf
    <3>2. j \notin m + 1..m + n
      BY <1>a, <3>1
    <3>3. CASE j \in 1..m
      BY <1>0, <2>1, <3>1, <3>3 DEF EndsOf
    <3> QED
      BY <1>0, <3>1, <3>2, <3>3
  <2>4. ASSUME NEW j \in E PROVE j \in EndsOf(t, 1)
    BY <1>0, <2>1, <2>4 DEF EndsOf
  <2>5. m + n + 1 \in EndsOf(t, 1)
    BY <1>0, <2>2 DEF EndsOf
  <2> HIDE DEF E
  <2> QED
    BY <2>3, <2>4, <2>5
<1>4. Blocks(t, 1) = Blocks(s, 1) + 1
  BY <1>1, <1>2, <1>3, FS_AddElement DEF Blocks
<1>5. Closed(t)
  BY <1>0 DEF Closed, m, n
<1>6. ASSUME RisingFrom(s, 1), NEW j \in 1..Len(t) - 1, ~t[j].eob, ~t[j + 1].eob
      PROVE  Less(t[j], t[j + 1])
  <2>0. j \in 1..m + n /\ \A i \in 1..m : t[i] = s[i]
    BY <1>0 DEF m, n
  <2>1. CASE j \in 1..m - 1
    BY <1>0, <1>6, <2>0, <2>1 DEF RisingFrom, m
  <2>2. CASE j = m
    BY <1>0, <1>6, <2>0, <2>2
  <2>3. CASE j > m
    <3>1. j # m + n
      BY <1>0, <1>6 DEF m, n
    <3>2. j - m \in 1..n - 1 /\ j = m + (j - m) /\ (j - m) + 1 \in 1..n /\ j + 1 = m + ((j - m) + 1) /\ j - m \in 1..n
      BY <1>0, <2>0, <2>3, <3>1
    <3>3. Less(q[j - m], q[(j - m) + 1])
      BY <3>2 DEF Single, n
    <3>4. /\ t[j].key = q[j - m].key /\ t[j].unique = q[j - m].unique
          /\ t[j + 1].key = q[(j - m) + 1].key /\ t[j + 1].unique = q[(j - m) + 1].unique
      <4>1. \A k \in 1..n : t[m + k].key = q[k].key /\ t[m + k].unique = q[k].unique
        BY DEF m, n
      <4>2. /\ t[m + (j - m)].key = q[j - m].key /\ t[m + (j - m)].unique = q[j - m].unique
            /\ t[m + ((j - m) + 1)].key = q[(j - m) + 1].key
            /\ t[m + ((j - m) + 1)].unique = q[(j - m) + 1].unique
        BY <3>2, <4>1
      <4> QED
        BY <3>2, <4>2
    <3> QED
      BY <3>3, <3>4 DEF Less
  <2> QED
    BY <1>0, <2>0, <2>1, <2>2, <2>3
<1> QED
  BY <1>4, <1>5, <1>6 DEF RisingFrom

(* The first item of a list that rises is less than the others. *)
LEMMA FirstIsLeast ==
  ASSUME NEW s, NEW a \in Nat, NEW b \in Nat,
         \A j \in a..b : s[j].key \in Nat /\ s[j].unique \in Nat,
         \A j \in a..b - 1 : Less(s[j], s[j + 1])
  PROVE  \A j \in a + 1..b : Less(s[a], s[j])
<1> DEFINE Bad == {j \in a + 1..b : ~Less(s[a], s[j])}
<1> SUFFICES ASSUME Bad # {} PROVE FALSE
  OBVIOUS
<1>1. Bad \in SUBSET Nat
  OBVIOUS
<1>2. PICK n \in Bad : \A m \in Bad : n <= m
  BY <1>1, LeastExists
<1>3. n \in a + 1..b /\ ~Less(s[a], s[n]) /\ n - 1 \in a..b - 1 /\ n - 1 < n /\ (n - 1) + 1 = n
  BY <1>2
<1>4. Less(s[n - 1], s[n])
  BY <1>3
<1>5. CASE n - 1 = a
  BY <1>3, <1>4, <1>5
<1>6. CASE n - 1 # a
  <2>1. n - 1 \in a + 1..b
    BY <1>3, <1>6
  <2>2. n - 1 \notin Bad
    BY <1>2, <1>3
  <2>3. Less(s[a], s[n - 1])
    BY <2>1, <2>2
  <2>4. a \in a..b /\ n - 1 \in a..b /\ n \in a..b
    BY <1>3
  <2>5. Less(s[a], s[n])
    BY <1>4, <2>3, <2>4, LessTransitive
  <2> QED
    BY <1>3, <2>5
<1> QED
  BY <1>5, <1>6

(* A closed queue with one block is one rising list. *)
LEMMA OneBlockSingle ==
  ASSUME NEW S, NEW s \in Seq(S), Closed(s), Rising(s), Blocks(s, 1) <= 1
  PROVE  Single(s)
<1>0. Len(s) \in Nat /\ Blocks(s, 1) \in Nat
  BY LenProperties, BlocksFinite
<1>1. CASE Len(s) = 0
  BY <1>1 DEF Single
<1>2. CASE Len(s) # 0
  <2>1. 1 \in 1..Len(s)
    BY <1>0, <1>2
  <2>2. \A j \in 1..Len(s) - 1 : ~s[j].eob
    BY <1>0, <2>1, ClosedBlocks
  <2> QED
    BY <2>2 DEF Single, Rising
<1> QED
  BY <1>1, <1>2

-----------------------------------------------------------------------------
(* The invariant: what the engine holds at each stage of a statement.      *)

File == [data : Seq(Item), at : Nat \ {0}, count : 0..SizeMax, tail : BOOLEAN]

Loop == {"pass", "pair", "move", "sorted"}

(* The engine sorts on queues, or merges files, or reads what it merged. *)
InQueues   == \/ pc \in Loop
              \/ pc \in {"idle", "retrieve"} /\ ~(retrieving /\ files_used)
Merging    == pc \in {"filepass", "filepair", "filemove"}
Reading    == pc \in {"idle", "retrieve"} /\ retrieving /\ files_used
Submitting == pc \in Loop /\ cont = "submit"

Shapes ==
  /\ setup \in Setups /\ memory = setup.memory /\ using = setup.using
  /\ unique \in 0..Len(setup.choices)
  /\ retrieving \in BOOLEAN /\ files_used \in BOOLEAN
  /\ destination_file \in 0..1 /\ retrieval_queue \in {0, 2}
  /\ queue \in [Four -> Seq(Item)]
  /\ empty \in Nat
  /\ file \in [Four -> File]
  /\ \A i \in Four : file[i].at <= Len(file[i].data) + 1
  /\ pc \in Loop \cup {"idle", "filepass", "filepair", "filemove", "retrieve", "crashed", "broken"}
  /\ cont \in {"none", "submit", "retrieve"}
  /\ source \in {0, 2} /\ destination \in Four /\ ended \in [0..1 -> BOOLEAN]
  /\ pending \in Keys \cup {0}
  /\ ret \in {0, 10, 30} /\ sort_return \in {0, 16} /\ failed \in BOOLEAN
  /\ out \in Seq([key : Keys, unique : 0..Len(setup.choices)])

(* Who runs the loops, and what the program has seen of it. *)
Stages ==
  /\ pc \in Loop =>
       \/ /\ cont = "submit" /\ ~retrieving /\ files_used
          /\ pending \in Keys /\ unique < Len(setup.choices)
       \/ cont = "retrieve" /\ retrieving /\ out = <<>>
  /\ Merging => cont = "retrieve" /\ retrieving /\ files_used
  /\ pc = "retrieve" => retrieving
  /\ ~retrieving => out = <<>>
  /\ ret = 10 => retrieving /\ pc \in {"idle", "retrieve"}
  /\ failed <=> pc = "broken"
  /\ failed => sort_return = 16 \/ (using /\ ~retrieving)
  /\ pc = "crashed" => memory < 4

(* The items in memory, on queues and on the free list. *)
InMemory ==
  /\ Live + empty <= IF memory = 0 THEN 1 ELSE memory
  /\ Live + empty <= unique
  /\ files_used => Live + empty >= memory

(* Every item that is not a marker is a record released. *)
IsRecord(x) == x.key \in Keys /\ x.unique \in 0..unique - 1
GoodItems ==
  /\ \A i \in Four : \A j \in 1..Len(file[i].data) :
       IF file[i].data[j].eob THEN file[i].data[j] = Marker ELSE IsRecord(file[i].data[j])
  /\ InQueues => \A i \in Four : \A j \in 1..Len(queue[i]) : IsRecord(queue[i][j])
  /\ Merging \/ Reading => \A i \in Four : /\ Len(queue[i]) = 1
                                           /\ ~queue[i][1].eob => IsRecord(queue[i][1])

(* The places where a record lies: item j of queue i, or of file i. *)
InQueue(i, j) == i \in Four /\ j \in 1..Len(queue[i]) /\ (OnFiles => ~queue[i][j].eob)
InFile(i, j)  == i \in Four /\ j \in file[i].at..Len(file[i].data) /\ ~file[i].data[j].eob
Places == {p \in {"queue", "file"} \X Four \X Nat :
             IF p[1] = "queue" THEN InQueue(p[2], p[3]) ELSE InFile(p[2], p[3])}
Held(p) == Record(IF p[1] = "queue" THEN queue[p[2]][p[3]] ELSE file[p[2]].data[p[3]])

(* What SortContract calls the pool. *)
PoolPlaced == Pool = {Held(p) : p \in Places}

(* No record is in two places; none is lost. *)
NoTwice == \A p, r \in Places : Held(p).unique = Held(r).unique => p = r
Counted == IsFiniteSet(Pool) /\ Cardinality(Pool) + Len(out) = unique
PoolKept == pc \notin {"broken", "crashed"} => NoTwice /\ Counted

(* The files while the engine sorts on queues. *)
FilesWait ==
  InQueues =>
    /\ file[2] = NoFile /\ file[3] = NoFile
    /\ \A i \in 0..1 : /\ file[i].at = 1
                       /\ file[i].count = Blocks(file[i].data, 1)
                       /\ Closed(file[i].data)
                       /\ RisingFrom(file[i].data, 1)
    /\ file[0].count = file[1].count + destination_file
    /\ file[0].count + file[1].count <= unique
    /\ ~files_used => file[0].data = <<>> /\ file[1].data = <<>> /\ destination_file = 0
    /\ files_used /\ ~Submitting => file[0].count >= 1

(* Of two lists, the first may have one block more. *)
Balanced(m, n) == m = n \/ m = n + 1

Count(i) == Blocks(queue[i], 1)
Target   == IF source = 0 THEN 2 ELSE 0    \* the first of the two destinations

QueuesRise == InQueues => \A i \in Four : Rising(queue[i])

QueuesIdle ==
  pc = "idle" /\ ~retrieving =>
    /\ queue[2] = <<>> /\ queue[3] = <<>>
    /\ \A i \in 0..1 : \A j \in 1..Len(queue[i]) : queue[i][j].eob
    /\ Balanced(Len(queue[0]), Len(queue[1]))

QueuesPass ==
  pc = "pass" =>
    /\ queue[Target] = <<>> /\ queue[Target + 1] = <<>>
    /\ Closed(queue[source]) /\ Closed(queue[source + 1])
    /\ Balanced(Count(source), Count(source + 1))

(* The two destinations take blocks in turn. *)
InTurn == destination \in {Target, Target + 1}
QueuesInTurn == InTurn /\ Count(Target) = Count(Target + 1) + (destination - Target)

QueuesPair ==
  pc = "pair" =>
    /\ \A i \in Four : Closed(queue[i])
    /\ Balanced(Count(source), Count(source + 1))
    /\ QueuesInTurn

(* The blocks of list m when the pair that is being merged has ended. *)
After(m) == IF ended[m] THEN Count(source + m) ELSE Count(source + m) - 1

LastOf(s) == s[Len(s)]
QueuesMove ==
  pc = "move" =>
    /\ \A i \in Four \ {destination} : Closed(queue[i])
    /\ \A m \in 0..1 : ~ended[m] => queue[source + m] # <<>>
    /\ Balanced(After(0), After(1))
    /\ QueuesInTurn
    /\ ended[0] /\ ended[1] => Unended(queue[destination])
    /\ Unended(queue[destination]) =>
         \A m \in 0..1 : ~ended[m] => Less(LastOf(queue[destination]), queue[source + m][1])

QueuesSorted ==
  pc = "sorted" => /\ \A i \in Four \ {source} : queue[i] = <<>>
                   /\ Single(queue[source])

QueuesOut ==
  InQueues /\ retrieving /\ pc \in {"idle", "retrieve"} =>
    /\ \A i \in Four \ {retrieval_queue} : queue[i] = <<>>
    /\ Single(queue[retrieval_queue])

(* The blocks of file i that have not been read; its head in memory. *)
Left(i)  == Blocks(file[i].data, file[i].at)
First(i) == queue[i][1]

FilesRise == Merging \/ Reading => \A i \in Four : RisingFrom(file[i].data, file[i].at)

FilesPass ==
  pc = "filepass" =>
    /\ \A i \in Four : First(i).eob /\ file[i].at = 1 /\ Closed(file[i].data)
    /\ file[Target].data = <<>> /\ file[Target + 1].data = <<>>
    /\ file[source].count = Left(source) /\ file[source + 1].count = Left(source + 1)
    /\ Balanced(Left(source), Left(source + 1))
    /\ Left(source) + Left(source + 1) >= 2

(* The two files that are written, and the blocks there will be. *)
FilesInTurn ==
  /\ InTurn
  /\ \A i \in {Target, Target + 1} : file[i].at = 1 /\ file[i].count = Left(i) /\ First(i).eob
  /\ Left(Target) = Left(Target + 1) + (destination - Target)
  /\ Left(Target) + Left(Target + 1) + file[source].count >= 2
  /\ Left(Target) + Left(Target + 1) + file[source].count <= SizeMax

FilesPair ==
  pc = "filepair" =>
    /\ FilesInTurn
    /\ \A i \in Four : Closed(file[i].data)
    /\ First(source).eob /\ First(source + 1).eob
    /\ file[source].count = Left(source)
    /\ \/ file[source + 1].count = Left(source + 1) /\ Balanced(Left(source), Left(source + 1))
       \/ Left(source) = 0 /\ Left(source + 1) = 0

(* The head of file i comes before what is left of its block. *)
FirstRises(i) ==
  LET s == file[i].data
  IN  ~First(i).eob /\ file[i].at <= Len(s) /\ ~s[file[i].at].eob => Less(First(i), s[file[i].at])

(* The count of a file that is read counts the block of its head. *)
Opened(i) == /\ file[i].count >= 1
             /\ Left(i) = IF First(i).eob THEN file[i].count - 1 ELSE file[i].count

FilesMove ==
  pc = "filemove" =>
    /\ FilesInTurn
    /\ \A i \in Four \ {destination} : Closed(file[i].data)
    /\ Opened(source)
    /\ \/ Opened(source + 1)
       \/ file[source + 1].count = 0 /\ First(source + 1).eob /\ Left(source + 1) = 0
    /\ Balanced(file[source].count, file[source + 1].count)
    /\ FirstRises(source) /\ FirstRises(source + 1)
    /\ Unended(file[destination].data) =>
         \A m \in 0..1 : ~First(source + m).eob =>
           Less(LastOf(file[destination].data), First(source + m))

FilesOut ==
  Reading =>
    /\ \A i \in {Target, Target + 1} : file[i].data = <<>> /\ First(i).eob
    /\ \A m \in 0..1 : /\ Left(source + m) = IF First(source + m).eob THEN 0 ELSE 1
                       /\ Closed(file[source + m].data)
                       /\ FirstRises(source + m)

(* When RETURN has said AT END, none is left. *)
AllReturned == ret = 10 => Pool = {}

Queues == /\ FilesWait /\ QueuesRise /\ QueuesIdle /\ QueuesPass /\ QueuesPair /\ QueuesMove
          /\ QueuesSorted /\ QueuesOut
Files  == FilesRise /\ FilesPass /\ FilesPair /\ FilesMove /\ FilesOut
Engine == Shapes /\ Stages /\ InMemory /\ GoodItems /\ Queues /\ Files
IInv   == Engine /\ PoolKept /\ AllReturned

-----------------------------------------------------------------------------
(* Facts every step uses.                                                  *)

(* The two lists a loop reads, and the two it writes. *)
LEMMA Lists ==
  ASSUME source \in {0, 2}
  PROVE  /\ Target \in {0, 2} /\ Target # source
         /\ Four = {source, source + 1, Target, Target + 1}
         /\ source \in Four /\ source + 1 \in Four /\ Target \in Four /\ Target + 1 \in Four
         /\ Other(source) = Target /\ Base(Target) = Target /\ Base(Target + 1) = Target
         /\ Twin(Target) = Target + 1 /\ Twin(Target + 1) = Target
         /\ {source, source + 1} \cap {Target, Target + 1} = {}
         /\ \A i \in Four : Base(i) = source <=> i \in {source, source + 1}
<1>1. CASE source = 0
  BY <1>1 DEF Target, Four, Other, Base, Twin
<1>2. CASE source = 2
  BY <1>2 DEF Target, Four, Other, Base, Twin
<1> QED
  BY <1>1, <1>2

(* The destination is one of the two, the other is its twin. *)
LEMMA Turns ==
  ASSUME source \in {0, 2}, InTurn
  PROVE  /\ destination \in Four /\ destination \in {Target, Target + 1} /\ Base(destination) = Target
         /\ Twin(destination) \in {Target, Target + 1}
         /\ destination # source /\ destination # source + 1
         /\ destination - Target \in {0, 1}
         /\ destination - Target = 0 => Twin(destination) = Target + 1
         /\ destination - Target = 1 => Twin(destination) = Target
         /\ Twin(destination) - Target = 1 - (destination - Target)
<1>1. CASE source = 0
  BY <1>1 DEF Target, Four, Base, Twin, InTurn
<1>2. CASE source = 2
  BY <1>2 DEF Target, Four, Base, Twin, InTurn
<1> QED
  BY <1>1, <1>2

(* What the constants say of the program that runs. *)
LEMMA Program ==
  ASSUME setup \in Setups
  PROVE  /\ Keys \subseteq Nat /\ SizeMax \in Nat \ {0}
         /\ setup.choices \in Seq(SUBSET Keys) /\ Len(setup.choices) \in Nat
         /\ Len(setup.choices) <= SizeMax
         /\ setup.memory \in Nat /\ setup.mayFail \in BOOLEAN /\ setup.using \in BOOLEAN
<1>1. setup \in Setup
  BY SortAssumption
<1>2. /\ setup.choices \in Seq(SUBSET Keys)
      /\ setup.memory \in Nat /\ setup.mayFail \in BOOLEAN /\ setup.using \in BOOLEAN
  BY <1>1 DEF Setup
<1> QED
  BY <1>2, SortAssumption, LenProperties

(* Keys and stamps are numbers; an item stays one when its end is marked. *)
LEMMA Items ==
  ASSUME setup \in Setups
  PROVE  /\ \A x \in Item : x.key \in Nat /\ x.unique \in Nat /\ x.eob \in BOOLEAN
         /\ Marker \in Item
         /\ \A x \in Item : \A b \in BOOLEAN : /\ [x EXCEPT !.eob = b] \in Item
                                               /\ [x EXCEPT !.eob = b].key = x.key
                                               /\ [x EXCEPT !.eob = b].unique = x.unique
                                               /\ [x EXCEPT !.eob = b].eob = b
<1>1. Keys \subseteq Nat /\ Len(setup.choices) \in Nat
  BY Program
<1> QED
  BY <1>1 DEF Item, Marker

(* Items in a queue, or in a file, are items. *)
LEMMA ItemsOf ==
  ASSUME NEW S, NEW s \in Seq(S)
  PROVE  /\ Len(s) \in Nat /\ DOMAIN s = 1..Len(s)
         /\ \A j \in 1..Len(s) : s[j] \in S
         /\ s = <<>> <=> Len(s) = 0
BY LenProperties, EmptySeq, ElementOfSeq

(* The set of records in terms of the places where they lie. *)
LEMMA PoolIs == Shapes /\ GoodItems => PoolPlaced
<1> SUFFICES ASSUME queue \in [Four -> Seq(Item)], file \in [Four -> File],
                    \A i \in Four : \A j \in 1..Len(file[i].data) :
                      file[i].data[j].eob => file[i].data[j] = Marker
             PROVE  Pool = {Held(p) : p \in Places}
  BY DEF Shapes, GoodItems, PoolPlaced
<1>0. \A i \in Four : /\ Len(queue[i]) \in Nat /\ DOMAIN queue[i] = 1..Len(queue[i])
                      /\ Len(file[i].data) \in Nat /\ file[i].at \in Nat \ {0}
  <2>1. \A i \in Four : queue[i] \in Seq(Item) /\ file[i].data \in Seq(Item) /\ file[i].at \in Nat \ {0}
    BY DEF File
  <2> QED
    BY <2>1, ItemsOf
<1>1. ASSUME NEW r \in Pool PROVE \E p \in Places : r = Held(p)
  <2>1. PICK x \in Queued \cup UNION {Unread(i) : i \in Four} : r = Record(x)
    BY DEF Pool
  <2>2. CASE x \in Queued
    <3>1. PICK i \in Four : x \in RangeOf(queue[i])
      BY <2>2 DEF Queued
    <3>2. OnFiles => ~x.eob
      BY <2>2 DEF Queued
    <3>3. PICK j \in 1..Len(queue[i]) : x = queue[i][j]
      BY <1>0, <3>1 DEF RangeOf
    <3>4. j \in Nat /\ InQueue(i, j)
      BY <1>0, <3>2, <3>3 DEF InQueue
    <3> DEFINE p == <<"queue", i, j>>
    <3>5. p \in {"queue", "file"} \X Four \X Nat /\ p[1] = "queue" /\ p[2] = i /\ p[3] = j
      BY <3>4
    <3> HIDE DEF p
    <3>6. p \in Places /\ Held(p) = Record(x)
      BY <3>3, <3>4, <3>5 DEF Places, Held
    <3> QED
      BY <2>1, <3>6
  <2>3. CASE x \in UNION {Unread(i) : i \in Four}
    <3>1. PICK i \in Four : x \in Unread(i)
      BY <2>3
    <3>2. PICK j \in file[i].at..Len(file[i].data) : x = file[i].data[j] /\ x # Marker
      BY <3>1 DEF Unread
    <3>3. j \in 1..Len(file[i].data) /\ j \in Nat
      BY <1>0, <3>2
    <3>4. ~file[i].data[j].eob
      BY <3>2, <3>3
    <3>5. InFile(i, j)
      BY <3>2, <3>4 DEF InFile
    <3> DEFINE p == <<"file", i, j>>
    <3>6. p \in {"queue", "file"} \X Four \X Nat /\ p[1] # "queue" /\ p[2] = i /\ p[3] = j
      BY <3>3
    <3> HIDE DEF p
    <3>7. p \in Places /\ Held(p) = Record(x)
      BY <3>2, <3>5, <3>6 DEF Places, Held
    <3> QED
      BY <2>1, <3>7
  <2> QED
    BY <2>1, <2>2, <2>3
<1>2. ASSUME NEW p \in Places PROVE Held(p) \in Pool
  <2>1. CASE p[1] = "queue"
    <3>1. InQueue(p[2], p[3]) /\ Held(p) = Record(queue[p[2]][p[3]])
      BY <2>1 DEF Places, Held
    <3>2. queue[p[2]][p[3]] \in Queued
      BY <1>0, <3>1 DEF InQueue, Queued, RangeOf
    <3> QED
      BY <3>1, <3>2 DEF Pool
  <2>2. CASE p[1] # "queue"
    <3>1. InFile(p[2], p[3]) /\ Held(p) = Record(file[p[2]].data[p[3]])
      BY <2>2 DEF Places, Held
    <3>2. file[p[2]].data[p[3]] # Marker
      BY <3>1 DEF InFile, Marker
    <3>3. file[p[2]].data[p[3]] \in Unread(p[2]) /\ p[2] \in Four
      BY <3>1, <3>2 DEF InFile, Unread
    <3> QED
      BY <3>1, <3>3 DEF Pool
  <2> QED
    BY <2>1, <2>2
<1> QED
  BY <1>1, <1>2

(* And after a step. *)
LEMMA PoolIsNext == (Shapes /\ GoodItems)' => PoolPlaced'
BY PoolIs, PTL

(* A step that takes every record to another place, or leaves it where it is. *)
LEMMA Rearranged ==
  ASSUME NEW phi, NEW psi, PoolPlaced, PoolPlaced', NoTwice, Counted,
         \A p \in Places' : phi[p] \in Places /\ psi[phi[p]] = p /\ Held(p)' = Held(phi[p]),
         \A p \in Places : psi[p] \in Places' /\ phi[psi[p]] = p,
         UNCHANGED <<out, unique>>
  PROVE  NoTwice' /\ Counted' /\ Pool' = Pool
<1>1. NoTwice'
  <2> SUFFICES ASSUME NEW p \in Places', NEW r \in Places', Held(p)'.unique = Held(r)'.unique
               PROVE  p = r
    BY DEF NoTwice
  <2>1. Held(phi[p]).unique = Held(phi[r]).unique /\ phi[p] \in Places /\ phi[r] \in Places
    OBVIOUS
  <2>2. phi[p] = phi[r]
    BY <2>1, Zenon DEF NoTwice
  <2> QED
    BY <2>2, Zenon
<1>2. \A x : x \in Pool' <=> x \in Pool
  <2>1. ASSUME NEW x, x \in Pool' PROVE x \in Pool
    <3>1. PICK p \in Places' : x = Held(p)'
      BY <2>1, Zenon DEF PoolPlaced
    <3>2. phi[p] \in Places /\ x = Held(phi[p])
      BY <3>1, Zenon
    <3> QED
      BY <3>2, Zenon DEF PoolPlaced
  <2>2. ASSUME NEW x, x \in Pool PROVE x \in Pool'
    <3>1. PICK p \in Places : x = Held(p)
      BY <2>2, Zenon DEF PoolPlaced
    <3>2. psi[p] \in Places' /\ phi[psi[p]] = p
      BY <3>1, Zenon
    <3>3. x = Held(psi[p])'
      BY <3>1, <3>2, Zenon
    <3> QED
      BY <3>2, <3>3, Zenon DEF PoolPlaced
  <2> QED
    BY <2>1, <2>2, Zenon
<1>3. Pool' = Pool
  <2> HIDE DEF Pool
  <2> QED
    BY <1>2
<1> QED
  BY <1>1, <1>3 DEF Counted

(* A step that brings one record, with a stamp that none has. *)
Brings(phi, psi, n) ==
  /\ n \in Places' /\ Held(n)'.unique = unique
  /\ \A p \in Places' \ {n} : phi[p] \in Places /\ psi[phi[p]] = p /\ Held(p)' = Held(phi[p])
  /\ \A p \in Places : psi[p] \in Places' \ {n} /\ phi[psi[p]] = p

(* Then nothing is lost, and the new record comes after all the others. *)
LEMMA Accepted ==
  ASSUME NEW phi, NEW psi, NEW n, Brings(phi, psi, n), PoolPlaced, PoolPlaced', NoTwice, Counted,
         unique \in Nat, out \in Seq([key : Keys, unique : 0..Len(setup.choices)]),
         \A p \in Places : Held(p).unique \in Nat /\ Held(p).unique < unique,
         out' = out, unique' = unique + 1
  PROVE  NoTwice' /\ Counted' /\ Held(n)' \notin Pool /\ Pool' = Pool \cup {Held(n)'}
         /\ \A y \in Pool : y.unique < unique
<1>a. n \in Places' /\ Held(n)'.unique = unique
  BY DEF Brings
<1>b. \A p \in Places' \ {n} : phi[p] \in Places /\ psi[phi[p]] = p /\ Held(p)' = Held(phi[p])
  BY DEF Brings
<1>c. \A p \in Places : psi[p] \in Places' \ {n} /\ phi[psi[p]] = p
  BY DEF Brings
<1> USE <1>a, <1>b, <1>c
<1>1. \A p \in Places' \ {n} : Held(p)'.unique # Held(n)'.unique
  <2> SUFFICES ASSUME NEW p \in Places' \ {n} PROVE Held(p)'.unique # Held(n)'.unique
    OBVIOUS
  <2>1. phi[p] \in Places /\ Held(p)' = Held(phi[p])
    OBVIOUS
  <2>2. Held(phi[p]).unique # unique
    BY <2>1
  <2> QED
    BY <2>1, <2>2
<1>2. NoTwice'
  <2> SUFFICES ASSUME NEW p \in Places', NEW r \in Places', Held(p)'.unique = Held(r)'.unique
               PROVE  p = r
    BY DEF NoTwice
  <2>1. CASE p # n /\ r # n
    <3>0. p \in Places' \ {n} /\ r \in Places' \ {n}
      BY <2>1
    <3>1. Held(phi[p]).unique = Held(phi[r]).unique /\ phi[p] \in Places /\ phi[r] \in Places
      BY <3>0
    <3>2. phi[p] = phi[r]
      BY <3>1, Zenon DEF NoTwice
    <3>3. psi[phi[p]] = p /\ psi[phi[r]] = r
      BY <3>0, Zenon
    <3> QED
      BY <3>2, <3>3, Zenon
  <2>2. CASE p = n \/ r = n
    BY <1>1, <2>2
  <2> QED
    BY <2>1, <2>2
<1>3. ASSUME NEW y \in Pool PROVE y.unique \in Nat /\ y.unique < unique
  <2>1. PICK p \in Places : y = Held(p)
    BY DEF PoolPlaced
  <2> QED
    BY <2>1
<1>4. Held(n)' \notin Pool
  <2>1. ASSUME Held(n)' \in Pool PROVE FALSE
    <3>1. Held(n)'.unique \in Nat /\ Held(n)'.unique < unique
      BY <1>3, <2>1
    <3> QED
      BY <3>1
  <2> QED
    BY <2>1
<1>5. \A x : x \in Pool' <=> x \in Pool \/ x = Held(n)'
  <2>1. ASSUME NEW x, x \in Pool' PROVE x \in Pool \/ x = Held(n)'
    <3>1. PICK p \in Places' : x = Held(p)'
      BY <2>1, Zenon DEF PoolPlaced
    <3>2. ASSUME p # n PROVE x \in Pool
      <4>1. p \in Places' \ {n}
        BY <3>2
      <4>2. phi[p] \in Places /\ x = Held(phi[p])
        BY <3>1, <4>1, Zenon
      <4> QED
        BY <4>2, Zenon DEF PoolPlaced
    <3> QED
      BY <3>1, <3>2
  <2>2. ASSUME NEW x, x \in Pool PROVE x \in Pool'
    <3>1. PICK p \in Places : x = Held(p)
      BY <2>2, Zenon DEF PoolPlaced
    <3>2. psi[p] \in Places' \ {n} /\ phi[psi[p]] = p
      BY <3>1, Zenon
    <3>3. x = Held(psi[p])' /\ psi[p] \in Places'
      BY <3>1, <3>2
    <3> QED
      BY <3>3, Zenon DEF PoolPlaced
  <2>3. Held(n)' \in Pool'
    BY Zenon DEF PoolPlaced
  <2> QED
    BY <2>1, <2>2, <2>3
<1>6. Pool' = Pool \cup {Held(n)'}
  <2> HIDE DEF Pool, Held
  <2> QED
    BY <1>5
<1>7. Counted'
  <2>1. IsFiniteSet(Pool) /\ Cardinality(Pool) + Len(out) = unique /\ Cardinality(Pool) \in Nat
    BY FS_CardinalityType DEF Counted
  <2>2. IsFiniteSet(Pool \cup {Held(n)'}) /\ Cardinality(Pool \cup {Held(n)'}) = Cardinality(Pool) + 1
    BY <1>4, <2>1, FS_AddElement
  <2>3. Len(out) \in Nat
    BY LenProperties
  <2>4. IsFiniteSet(Pool') /\ Cardinality(Pool') = Cardinality(Pool) + 1
    BY <1>6, <2>2
  <2>5. \A c, o \in Nat : c + o = unique => (c + 1) + o = unique + 1
    OBVIOUS
  <2>6. Cardinality(Pool') + Len(out') = unique'
    BY <2>1, <2>3, <2>4, <2>5
  <2> QED
    BY <2>4, <2>6 DEF Counted
<1> QED
  BY <1>2, <1>3, <1>4, <1>6, <1>7

(* A step that takes one record away: it is returned. *)
Takes(phi, psi, n) ==
  /\ n \in Places /\ out' = Append(out, Held(n))
  /\ \A p \in Places' : phi[p] \in Places \ {n} /\ psi[phi[p]] = p /\ Held(p)' = Held(phi[p])
  /\ \A p \in Places \ {n} : psi[p] \in Places' /\ phi[psi[p]] = p

(* Then nothing else is lost, and the record has left the pool. *)
LEMMA Delivered ==
  ASSUME NEW phi, NEW psi, NEW n, Takes(phi, psi, n), PoolPlaced, PoolPlaced', NoTwice, Counted,
         out \in Seq([key : Keys, unique : 0..Len(setup.choices)]), unique' = unique
  PROVE  NoTwice' /\ Counted' /\ Held(n) \in Pool /\ Pool' = Pool \ {Held(n)}
<1>a. n \in Places /\ out' = Append(out, Held(n))
  BY DEF Takes
<1>b. \A p \in Places' : phi[p] \in Places \ {n} /\ psi[phi[p]] = p /\ Held(p)' = Held(phi[p])
  BY DEF Takes
<1>c. \A p \in Places \ {n} : psi[p] \in Places' /\ phi[psi[p]] = p
  BY DEF Takes
<1> USE <1>a, <1>b, <1>c
<1>1. NoTwice'
  <2> SUFFICES ASSUME NEW p \in Places', NEW r \in Places', Held(p)'.unique = Held(r)'.unique
               PROVE  p = r
    BY DEF NoTwice
  <2>1. Held(phi[p]).unique = Held(phi[r]).unique /\ phi[p] \in Places /\ phi[r] \in Places
    OBVIOUS
  <2>2. phi[p] = phi[r]
    BY <2>1, Zenon DEF NoTwice
  <2>3. psi[phi[p]] = p /\ psi[phi[r]] = r
    BY Zenon
  <2> QED
    BY <2>2, <2>3, Zenon
<1>2. Held(n) \in Pool
  BY Zenon DEF PoolPlaced
<1>3. \A x : x \in Pool' <=> x \in Pool /\ x # Held(n)
  <2>1. ASSUME NEW x, x \in Pool' PROVE x \in Pool /\ x # Held(n)
    <3>1. PICK p \in Places' : x = Held(p)'
      BY <2>1, Zenon DEF PoolPlaced
    <3>2. phi[p] \in Places /\ phi[p] # n /\ x = Held(phi[p])
      BY <3>1
    <3>3. Held(phi[p]) # Held(n)
      BY <3>2, Zenon DEF NoTwice
    <3> QED
      BY <3>2, <3>3, Zenon DEF PoolPlaced
  <2>2. ASSUME NEW x, x \in Pool, x # Held(n) PROVE x \in Pool'
    <3>1. PICK p \in Places : x = Held(p)
      BY <2>2, Zenon DEF PoolPlaced
    <3>2. p \in Places \ {n}
      BY <2>2, <3>1
    <3>3. psi[p] \in Places' /\ phi[psi[p]] = p
      BY <3>2, Zenon
    <3>4. x = Held(psi[p])'
      BY <3>1, <3>3, Zenon
    <3> QED
      BY <3>3, <3>4, Zenon DEF PoolPlaced
  <2> QED
    BY <2>1, <2>2, Zenon
<1>4. Pool' = Pool \ {Held(n)}
  <2> HIDE DEF Pool, Held
  <2> QED
    BY <1>3
<1>5. Counted'
  <2>1. IsFiniteSet(Pool) /\ Cardinality(Pool) + Len(out) = unique /\ Cardinality(Pool) \in Nat
    BY FS_CardinalityType DEF Counted
  <2>2. IsFiniteSet(Pool \ {Held(n)}) /\ Cardinality(Pool \ {Held(n)}) = Cardinality(Pool) - 1
    BY <1>2, <2>1, FS_RemoveElement
  <2>3. Len(out) \in Nat /\ Len(out') = Len(out) + 1
    BY LenProperties
  <2>4. IsFiniteSet(Pool') /\ Cardinality(Pool') = Cardinality(Pool) - 1
    BY <1>4, <2>2
  <2> QED
    BY <2>1, <2>3, <2>4 DEF Counted
<1> QED
  BY <1>1, <1>2, <1>4, <1>5

(* What is said of queues holds where there are none to sort, what is said *)
(* of files where none are merged or read.                                 *)
LEMMA NoQueues == ~InQueues => Queues
BY DEF InQueues, Queues, FilesWait, QueuesRise, QueuesIdle, QueuesPass, QueuesPair, QueuesMove,
       QueuesSorted, QueuesOut, Loop

(* And after a step. *)
LEMMA NoQueuesNext == (~InQueues)' => Queues'
BY NoQueues, PTL

(* Nor are there blocks on files to speak of before the merge. *)
LEMMA NoFiles == ~Merging /\ ~Reading => Files
BY DEF Merging, Reading, Files, FilesRise, FilesPass, FilesPair, FilesMove, FilesOut

(* And after a step. *)
LEMMA NoFilesNext == (~Merging /\ ~Reading)' => Files'
BY NoFiles, PTL

(* Types do not depend on the state. *)
LEMMA SameTypes ==
  ASSUME UNCHANGED setup
  PROVE  Item' = Item /\ File' = File
BY DEF Item, File

(* Which stage a loop of cob_sort_queues is in. *)
LEMMA InLoop == pc \in Loop => InQueues /\ ~Merging /\ ~Reading /\ ~OnFiles
BY DEF Loop, InQueues, Merging, Reading, OnFiles

(* And after a step. *)
LEMMA InLoopNext == (pc \in Loop)' => (InQueues /\ ~Merging /\ ~Reading /\ ~OnFiles)'
BY InLoop, PTL

-----------------------------------------------------------------------------
(* The steps of cob_sort_queues.                                           *)

(* What every step of the loop keeps. *)
LEMMA LoopSteps ==
  ASSUME Engine, pc \in Loop, pc' \in Loop,
         UNCHANGED <<setup, using, engine, empty, file, cont, pending, reply>>,
         source' \in {0, 2}, destination' \in Four, ended' \in [0..1 -> BOOLEAN],
         queue' \in [Four -> Seq(Item)], Live' = Live,
         \A i \in Four : \A j \in 1..Len(queue'[i]) : IsRecord(queue'[i][j]),
         \A i \in Four : Rising(queue'[i])
  PROVE  /\ Shapes' /\ Stages' /\ InMemory' /\ GoodItems' /\ Files' /\ FilesWait' /\ QueuesRise'
         /\ QueuesIdle' /\ QueuesOut'
<1> USE DEF engine, reply
<1>0. /\ InQueues /\ InQueues' /\ ~Merging' /\ ~Reading'
      /\ pc \notin {"idle", "retrieve", "broken", "crashed"}
      /\ pc' \notin {"idle", "retrieve", "broken", "crashed"}
  BY InLoop, InLoopNext DEF Loop
<1>1. Shapes'
  BY SameTypes DEF Engine, Shapes
<1>2. Stages'
  BY <1>0 DEF Engine, Stages
<1>3. InMemory'
  BY DEF Engine, InMemory
<1>4. GoodItems'
  BY <1>0 DEF Engine, GoodItems, IsRecord
<1>5. Files'
  BY <1>0, NoFilesNext
<1>6. FilesWait'
  BY <1>0 DEF Engine, Queues, FilesWait, Submitting
<1>7. QueuesRise'
  BY DEF QueuesRise
<1> QED
  BY <1>0, <1>1, <1>2, <1>3, <1>4, <1>5, <1>6, <1>7 DEF QueuesIdle, QueuesOut

(* One that moves no item. *)
LEMMA LoopGoesOn ==
  ASSUME Engine, pc \in Loop, pc' \in Loop,
         UNCHANGED <<setup, using, engine, queue, empty, file, cont, pending, reply>>,
         source' \in {0, 2}, destination' \in Four, ended' \in [0..1 -> BOOLEAN]
  PROVE  /\ Shapes' /\ Stages' /\ InMemory' /\ GoodItems' /\ Files' /\ FilesWait' /\ QueuesRise'
         /\ QueuesIdle' /\ QueuesOut'
<1>1. /\ queue' = queue /\ queue \in [Four -> Seq(Item)]
      /\ \A i \in Four : \A j \in 1..Len(queue[i]) : IsRecord(queue[i][j])
      /\ \A i \in Four : Rising(queue[i])
  BY InLoop DEF Engine, Shapes, GoodItems, Queues, QueuesRise
<1>2. Live' = Live
  BY DEF Live, Sum4
<1> QED
  BY <1>1, <1>2, LoopSteps

(* A pass begins, or one block is left: the targets are empty. *)
LEMMA QueuePassKeeps ==
  ASSUME IInv, QueuePass, UNCHANGED <<setup, using>>
  PROVE  Engine' /\ UNCHANGED queue
<1> USE DEF engine, reply
<1>0. /\ Engine /\ Shapes /\ QueuesPass /\ QueuesRise /\ source \in {0, 2} /\ queue \in [Four -> Seq(Item)]
      /\ pc = "pass" /\ pc \in Loop
  BY DEF IInv, Engine, Queues, Shapes, QueuePass, Loop
<1>1. /\ queue[Target] = <<>> /\ queue[Target + 1] = <<>>
      /\ Closed(queue[source]) /\ Closed(queue[source + 1])
      /\ Balanced(Count(source), Count(source + 1))
  BY <1>0 DEF QueuesPass
<1>2. queue' = queue
  <2>1. CASE Unmerged
    <3>1. queue' = [queue EXCEPT ![Target] = <<>>, ![Target + 1] = <<>>]
      BY <1>0, <2>1, Lists DEF QueuePass
    <3> QED
      BY <1>0, <1>1, <3>1, Lists
  <2>2. CASE ~Unmerged
    BY <2>2 DEF QueuePass
  <2> QED
    BY <2>1, <2>2
<1>3. /\ pc' \in Loop /\ source' = source /\ Target' = Target /\ destination' \in Four /\ ended' = ended
      /\ UNCHANGED <<setup, using, engine, queue, empty, file, cont, pending, reply>>
      /\ source' \in {0, 2} /\ ended' \in [0..1 -> BOOLEAN]
  BY <1>0, <1>2, Lists DEF QueuePass, Loop, Target, Shapes
<1>4. /\ Shapes' /\ Stages' /\ InMemory' /\ GoodItems' /\ Files' /\ FilesWait' /\ QueuesRise'
      /\ QueuesIdle' /\ QueuesOut'
  BY <1>0, <1>3, LoopGoesOn
<1>5. QueuesPass' /\ QueuesMove' /\ pc' \in {"pair", "sorted"}
  BY <1>0 DEF QueuePass, QueuesPass, QueuesMove
<1>a. \A i \in Four : queue[i] \in Seq(Item)
  BY <1>0
<1>6. QueuesPair'
  <2> SUFFICES ASSUME pc' = "pair"
               PROVE  /\ \A i \in Four : Closed(queue'[i])
                      /\ Balanced(Count(source)', Count(source + 1)')
                      /\ QueuesInTurn'
    BY <1>3 DEF QueuesPair, Count
  <2>1. destination' = Target
    BY <1>0, Lists DEF QueuePass
  <2>2. \A i \in Four : Closed(queue'[i])
    <3>1. Closed(<<>>)
      BY DEF Closed
    <3> QED
      BY <1>0, <1>1, <1>2, <3>1, Lists
  <2>3. Balanced(Count(source)', Count(source + 1)')
    BY <1>1, <1>2, <1>3 DEF Count
  <2>4. QueuesInTurn'
    <3>1. Count(Target)' = Blocks(queue[Target], 1) /\ Count(Target + 1)' = Blocks(queue[Target + 1], 1)
      BY <1>2, <1>3 DEF Count
    <3>2. Count(Target)' = Count(Target + 1)' /\ Count(Target + 1)' \in Nat
      BY <1>0, <1>1, <1>a, <3>1, BlocksFinite, Lists
    <3>3. destination' \in {Target', (Target + 1)'} /\ Target \in Nat
      BY <1>0, <1>3, <2>1, Lists
    <3> QED
      BY <1>3, <2>1, <3>2, <3>3 DEF QueuesInTurn, InTurn, Count
  <2> QED
    BY <2>2, <2>3, <2>4
<1>7. QueuesSorted'
  <2> SUFFICES ASSUME pc' = "sorted"
               PROVE  (\A i \in Four \ {source} : queue[i] = <<>>) /\ Single(queue[source])
    BY <1>2, <1>3 DEF QueuesSorted
  <2>1. queue[source + 1] = <<>>
    BY <1>0 DEF QueuePass, Unmerged
  <2>2. Count(source + 1) = 0 /\ Count(source) \in Nat
    <3>1. queue[source + 1] \in Seq(Item) /\ queue[source] \in Seq(Item)
      BY <1>0, <1>a, Lists
    <3>2. Len(queue[source + 1]) = 0
      BY <2>1
    <3>3. Count(source + 1) = 0
      BY <3>1, <3>2, NoBlocks DEF Count
    <3>4. Count(source) \in Nat
      BY <3>1, BlocksFinite DEF Count
    <3> QED
      BY <3>3, <3>4
  <2>3. Blocks(queue[source], 1) <= 1
    BY <1>1, <2>2 DEF Balanced, Count
  <2>4. Rising(queue[source])
    BY <1>0, InLoop, Lists DEF QueuesRise
  <2>5. Single(queue[source])
    BY <1>0, <1>1, <1>a, <2>3, <2>4, OneBlockSingle, Lists
  <2> QED
    BY <1>0, <1>1, <2>1, <2>5, Lists
<1> QED
  BY <1>2, <1>4, <1>5, <1>6, <1>7 DEF Engine, Queues

(* The next pair of blocks, or the end of a pass. *)
LEMMA QueuePairKeeps ==
  ASSUME IInv, QueuePair, UNCHANGED <<setup, using>>
  PROVE  Engine' /\ UNCHANGED queue
<1> USE DEF engine, reply
<1>0. /\ Engine /\ Shapes /\ source \in {0, 2} /\ queue \in [Four -> Seq(Item)]
      /\ pc = "pair" /\ pc \in Loop /\ destination \in Four
      /\ \A i \in Four : Closed(queue[i])
      /\ Balanced(Count(source), Count(source + 1))
      /\ QueuesInTurn
  BY DEF IInv, Engine, Queues, Shapes, QueuePair, QueuesPair, Loop
<1>a. \A i \in Four : queue[i] \in Seq(Item) /\ Count(i) \in Nat
  BY <1>0, BlocksFinite DEF Count
<1>1. Base(destination) = Target /\ Target \in {0, 2}
  BY <1>0, Turns, Lists DEF QueuesInTurn
<1>2. /\ pc' \in {"pass", "move"} /\ pc' \in Loop /\ source' \in {0, 2} /\ destination' \in Four
      /\ ended' \in [0..1 -> BOOLEAN] /\ destination' = destination
      /\ ended' = [m \in 0..1 |-> queue[source + m] = <<>>]
      /\ UNCHANGED <<setup, using, engine, queue, empty, file, cont, pending, reply>>
  BY <1>0, <1>1 DEF QueuePair, Loop
<1>3. /\ Shapes' /\ Stages' /\ InMemory' /\ GoodItems' /\ Files' /\ FilesWait' /\ QueuesRise'
      /\ QueuesIdle' /\ QueuesOut'
  BY <1>0, <1>2, LoopGoesOn
<1>4. QueuesPair' /\ QueuesSorted'
  BY <1>2 DEF QueuesPair, QueuesSorted
<1>5. QueuesPass'
  <2> SUFFICES ASSUME pc' = "pass" PROVE QueuesPass'
    BY DEF QueuesPass
  <2>1. queue[source] = <<>> /\ queue[source + 1] = <<>> /\ source' = Target
    <3>1. ended'[0] /\ ended'[1] /\ source' = Base(destination)
      BY DEF QueuePair
    <3>2. \A m \in 0..1 : ended'[m] <=> queue[source + m] = <<>>
      BY <1>2
    <3>3. queue[source + 0] = <<>> /\ queue[source + 1] = <<>> /\ source + 0 = source
      BY <1>0, <3>1, <3>2
    <3> QED
      BY <1>1, <3>1, <3>3
  <2>2. Target' = source
    BY <1>0, <1>1, <2>1, Lists DEF Target
  <2>3. Balanced(Count(Target), Count(Target + 1))
    <3>1. destination - Target \in {0, 1} /\ Count(Target) = Count(Target + 1) + (destination - Target)
      BY <1>0, Turns DEF QueuesInTurn
    <3>2. Count(Target) \in Nat /\ Count(Target + 1) \in Nat
      BY <1>0, <1>a, Lists
    <3> QED
      BY <3>1, <3>2 DEF Balanced
  <2>4. Closed(queue[Target]) /\ Closed(queue[Target + 1])
    BY <1>0, Lists
  <2> QED
    BY <1>2, <2>1, <2>2, <2>3, <2>4 DEF QueuesPass, Count
<1>6. QueuesMove'
  <2> SUFFICES ASSUME pc' = "move" PROVE QueuesMove'
    BY DEF QueuesMove
  <2>1. source' = source /\ ~(ended'[0] /\ ended'[1]) /\ Target' = Target
    BY DEF QueuePair, Target
  <2>2. \A i \in Four : Closed(queue[i]) /\ ~Unended(queue[i])
    BY <1>0 DEF Closed, Unended
  <2>3. \A m \in 0..1 : ended'[m] <=> queue[source + m] = <<>>
    BY <1>2
  <2>4. Balanced(After(0)', After(1)')
    <3>1. /\ After(0)' = IF queue[source] = <<>> THEN Count(source) ELSE Count(source) - 1
          /\ After(1)' = IF queue[source + 1] = <<>> THEN Count(source + 1) ELSE Count(source + 1) - 1
      BY <1>2, <2>1, <2>3 DEF After, Count
    <3>2. \A i \in Four : queue[i] = <<>> => Count(i) = 0
      <4> SUFFICES ASSUME NEW i \in Four, queue[i] = <<>> PROVE Count(i) = 0
        OBVIOUS
      <4>1. Len(queue[i]) = 0
        OBVIOUS
      <4> QED
        BY <1>a, <4>1, NoBlocks DEF Count
    <3>3. \A i \in Four : queue[i] # <<>> => Count(i) >= 1
      <4> SUFFICES ASSUME NEW i \in Four, queue[i] # <<>> PROVE Count(i) >= 1
        OBVIOUS
      <4>1. 1 \in 1..Len(queue[i])
        BY <1>a, ItemsOf
      <4> QED
        BY <1>0, <1>a, <4>1, ClosedBlocks DEF Count
    <3>4. source \in Four /\ source + 1 \in Four
      BY <1>0, Lists
    <3>5. Count(source) \in Nat /\ Count(source + 1) \in Nat
      BY <1>a, <3>4
    <3>6. ~(queue[source] = <<>> /\ queue[source + 1] = <<>>)
      BY <1>0, <2>1, <2>3
    <3> QED
      BY <1>0, <3>1, <3>2, <3>3, <3>4, <3>5, <3>6 DEF Balanced
  <2>5. QueuesInTurn'
    BY <1>0, <1>2, <2>1 DEF QueuesInTurn, InTurn, Count
  <2> QED
    BY <1>0, <1>2, <2>1, <2>2, <2>3, <2>4, <2>5 DEF QueuesMove
<1> QED
  BY <1>2, <1>3, <1>4, <1>5, <1>6 DEF Engine, Queues

(* An item that goes from one queue to another. *)
LEMMA OneMoves ==
  ASSUME NEW i \in Four, NEW d \in Four, i # d,
         Len(queue[i]) \in Nat \ {0}, Len(queue[d]) \in Nat,
         Len(queue'[i]) = Len(queue[i]) - 1, Len(queue'[d]) = Len(queue[d]) + 1,
         \A k \in Four \ {i, d} : Len(queue'[k]) = Len(queue[k]) /\ Len(queue[k]) \in Nat
  PROVE  Live' = Live
<1> DEFINE L(k) == Len(queue[k])
           M(k) == Len(queue'[k])
<1>1. Live = L(0) + L(1) + L(2) + L(3) /\ Live' = M(0) + M(1) + M(2) + M(3)
  BY DEF Live, Sum4, Four
<1>2. /\ L(i) \in Nat /\ L(d) \in Nat /\ M(i) = L(i) - 1 /\ M(d) = L(d) + 1
      /\ \A k \in Four \ {i, d} : M(k) = L(k) /\ L(k) \in Nat
  OBVIOUS
<1> HIDE DEF L, M
<1>3. i \in {0, 1, 2, 3} /\ d \in {0, 1, 2, 3} /\ Four = {0, 1, 2, 3}
  BY DEF Four
<1>4. /\ \A k \in Four : L(k) \in Nat
      /\ M(i) = L(i) - 1 /\ M(d) = L(d) + 1
      /\ \A k \in Four : k # i /\ k # d => M(k) = L(k)
  BY <1>2
<1>5. L(0) \in Nat /\ L(1) \in Nat /\ L(2) \in Nat /\ L(3) \in Nat
  BY <1>3, <1>4
<1>6. \A k \in {0, 1, 2, 3} : k # i /\ k # d => M(k) = L(k)
  BY <1>3, <1>4
<1>7. M(0) + M(1) + M(2) + M(3) = L(0) + L(1) + L(2) + L(3)
  <2>1. CASE i = 0 /\ d = 1
    BY <1>4, <1>5, <1>6, <2>1
  <2>2. CASE i = 0 /\ d = 2
    BY <1>4, <1>5, <1>6, <2>2
  <2>3. CASE i = 0 /\ d = 3
    BY <1>4, <1>5, <1>6, <2>3
  <2>4. CASE i = 1 /\ d = 0
    BY <1>4, <1>5, <1>6, <2>4
  <2>5. CASE i = 1 /\ d = 2
    BY <1>4, <1>5, <1>6, <2>5
  <2>6. CASE i = 1 /\ d = 3
    BY <1>4, <1>5, <1>6, <2>6
  <2>7. CASE i = 2 /\ d = 0
    BY <1>4, <1>5, <1>6, <2>7
  <2>8. CASE i = 2 /\ d = 1
    BY <1>4, <1>5, <1>6, <2>8
  <2>9. CASE i = 2 /\ d = 3
    BY <1>4, <1>5, <1>6, <2>9
  <2>10. CASE i = 3 /\ d = 0
    BY <1>4, <1>5, <1>6, <2>10
  <2>11. CASE i = 3 /\ d = 1
    BY <1>4, <1>5, <1>6, <2>11
  <2>12. CASE i = 3 /\ d = 2
    BY <1>4, <1>5, <1>6, <2>12
  <2> QED
    BY <1>3, <2>1, <2>2, <2>3, <2>4, <2>5, <2>6, <2>7, <2>8, <2>9, <2>10, <2>11, <2>12
<1> QED
  BY <1>1, <1>7

(* Items on two queues have two stamps. *)
LEMMA QueueStamps ==
  ASSUME NoTwice, queue \in [Four -> Seq(Item)], NEW i \in Four, NEW k \in Four, i # k,
         queue[i] # <<>>, queue[k] # <<>>,
         OnFiles => ~queue[i][1].eob /\ ~queue[k][1].eob
  PROVE  queue[i][1].unique # queue[k][1].unique
<1> DEFINE p == <<"queue", i, 1>>
           r == <<"queue", k, 1>>
<1>1. 1 \in 1..Len(queue[i]) /\ 1 \in 1..Len(queue[k])
  BY ItemsOf
<1>2. InQueue(i, 1) /\ InQueue(k, 1)
  BY <1>1 DEF InQueue
<1>3. /\ p \in {"queue", "file"} \X Four \X Nat /\ p[1] = "queue" /\ p[2] = i /\ p[3] = 1
      /\ r \in {"queue", "file"} \X Four \X Nat /\ r[1] = "queue" /\ r[2] = k /\ r[3] = 1
  OBVIOUS
<1> HIDE DEF p, r
<1>4. p \in Places /\ r \in Places
  BY <1>2, <1>3 DEF Places
<1>5. p # r
  BY <1>3
<1>6. Held(p).unique = queue[i][1].unique /\ Held(r).unique = queue[k][1].unique
  BY <1>3 DEF Held, Record
<1> QED
  BY <1>4, <1>5, <1>6, Zenon DEF NoTwice

(* What one turn of the merge loop does to the queues. *)
LEMMA QueueMoves ==
  ASSUME IInv, QueueMove
  PROVE  /\ Chosen \in 0..1 /\ ~ended[Chosen] /\ source + Chosen \in Four
         /\ source + Chosen # destination /\ destination \in Four
         /\ queue[source + Chosen] # <<>> /\ queue[source + Chosen] \in Seq(Item)
         /\ queue[source + Chosen][1] \in Item
         /\ queue' \in [Four -> Seq(Item)]
         /\ queue'[source + Chosen] = Tail(queue[source + Chosen])
         /\ queue'[destination]
              = Append(queue[destination], [queue[source + Chosen][1] EXCEPT !.eob = FALSE])
         /\ \A i \in Four \ {source + Chosen, destination} : queue'[i] = queue[i]
         /\ ended' \in [0..1 -> BOOLEAN]
         /\ ended'[Chosen] <=> queue[source + Chosen][1].eob
         /\ \A m \in 0..1 \ {Chosen} : ended'[m] = ended[m]
<1> DEFINE c == Chosen
           i == source + c
<1>0. /\ source \in {0, 2} /\ queue \in [Four -> Seq(Item)] /\ pc = "move"
      /\ ended \in [0..1 -> BOOLEAN] /\ setup \in Setups /\ QueuesMove /\ ~(ended[0] /\ ended[1])
  BY DEF IInv, Engine, Queues, Shapes, QueueMove
<1>1. c \in 0..1 /\ ~ended[c]
  BY <1>0 DEF Chosen, Smaller
<1> HIDE DEF c
<1>2. i \in Four /\ destination \in Four /\ i # destination
  <2>1. i \in {source, source + 1}
    BY <1>0, <1>1
  <2> QED
    BY <1>0, <2>1, Lists, Turns DEF QueuesMove, QueuesInTurn
<1>3. queue[i] # <<>> /\ queue[i] \in Seq(Item)
  BY <1>0, <1>1, <1>2 DEF QueuesMove
<1> DEFINE q == queue[i][1]
           x == [q EXCEPT !.eob = FALSE]
<1>4. q \in Item /\ x \in Item
  <2>1. q \in Item
    BY <1>3, ItemsOf
  <2> QED
    BY <1>0, <2>1, Items
<1>5. Tail(queue[i]) \in Seq(Item) /\ Append(queue[destination], x) \in Seq(Item)
  BY <1>0, <1>2, <1>3, <1>4
<1>6. /\ queue' = [queue EXCEPT ![i] = Tail(@), ![destination] = Append(@, x)]
      /\ ended' = [ended EXCEPT ![c] = @ \/ q.eob]
  BY DEF QueueMove, c
<1> HIDE DEF x, q, i
<1>7. /\ queue' \in [Four -> Seq(Item)] /\ queue'[i] = Tail(queue[i])
      /\ queue'[destination] = Append(queue[destination], x)
      /\ \A k \in Four \ {i, destination} : queue'[k] = queue[k]
  BY <1>0, <1>2, <1>5, <1>6
<1>8. /\ ended' \in [0..1 -> BOOLEAN]
      /\ ended'[c] = (ended[c] \/ q.eob)
      /\ \A m \in 0..1 \ {c} : ended'[m] = ended[m]
  BY <1>0, <1>1, <1>6
<1>9. ended'[c] <=> q.eob
  BY <1>1, <1>8
<1> QED
  BY <1>1, <1>2, <1>3, <1>4, <1>7, <1>8, <1>9 DEF c, i, q, x

(* The smaller of two heads goes behind the block that grows: it still rises. *)
LEMMA QueueMoveKeeps ==
  ASSUME IInv, QueueMove, UNCHANGED <<setup, using>>
  PROVE  Engine'
<1> DEFINE c == Chosen
           i == source + c
           d == destination
           q == queue[i][1]
           x == [q EXCEPT !.eob = FALSE]
<1>0. /\ Engine /\ Shapes /\ source \in {0, 2} /\ queue \in [Four -> Seq(Item)]
      /\ pc = "move" /\ pc \in Loop /\ pc' = pc /\ d \in Four /\ setup \in Setups
      /\ NoTwice /\ ended \in [0..1 -> BOOLEAN] /\ ~(ended[0] /\ ended[1])
      /\ UNCHANGED <<setup, using, engine, empty, file, cont, source, destination, pending, reply>>
  BY DEF IInv, PoolKept, Engine, Queues, Shapes, QueueMove, Loop
<1>1. /\ \A k \in Four \ {d} : Closed(queue[k])
      /\ \A m \in 0..1 : ~ended[m] => queue[source + m] # <<>>
      /\ Balanced(After(0), After(1))
      /\ QueuesInTurn
      /\ Unended(queue[d]) => \A m \in 0..1 : ~ended[m] => Less(LastOf(queue[d]), queue[source + m][1])
  BY <1>0 DEF Engine, Queues, QueuesMove
<1>2. /\ \A k \in Four : Rising(queue[k])
      /\ \A k \in Four : \A j \in 1..Len(queue[k]) : IsRecord(queue[k][j])
  BY <1>0, InLoop DEF Engine, Queues, QueuesRise, GoodItems
<1>3. /\ c \in 0..1 /\ ~ended[c] /\ i \in Four /\ i # d
      /\ queue[i] # <<>> /\ queue[i] \in Seq(Item) /\ q \in Item
      /\ queue' \in [Four -> Seq(Item)]
      /\ queue'[i] = Tail(queue[i]) /\ queue'[d] = Append(queue[d], x)
      /\ \A k \in Four \ {i, d} : queue'[k] = queue[k]
      /\ ended' \in [0..1 -> BOOLEAN] /\ (ended'[c] <=> q.eob)
      /\ \A m \in 0..1 \ {c} : ended'[m] = ended[m]
  BY QueueMoves
<1>4. x \in Item /\ x.key = q.key /\ x.unique = q.unique /\ ~x.eob
  BY <1>0, <1>3, Items
<1>i. i = source + c
  OBVIOUS
<1>c. c = Chosen
  OBVIOUS
<1>q. q = queue[i][1]
  OBVIOUS
<1>d. d = destination
  OBVIOUS
<1> HIDE DEF c, i, q, x, d
<1>5. /\ Len(queue[i]) \in Nat \ {0} /\ Len(queue'[i]) = Len(queue[i]) - 1
      /\ \A j \in 1..Len(queue'[i]) : queue'[i][j] = queue[i][j + 1]
  BY <1>3, ItemsOf, HeadTailProperties
<1>6. /\ Len(queue[d]) \in Nat /\ Len(queue'[d]) = Len(queue[d]) + 1
      /\ queue'[d][Len(queue[d]) + 1] = x
      /\ \A j \in 1..Len(queue[d]) : queue'[d][j] = queue[d][j]
  <2>1. queue[d] \in Seq(Item)
    BY <1>0
  <2> QED
    BY <1>3, <1>4, <2>1, ItemsOf, AppendProperties
<1>7. \A k \in Four \ {i, d} : Len(queue'[k]) = Len(queue[k]) /\ Len(queue[k]) \in Nat
  BY <1>0, <1>3, ItemsOf
<1>8. Live' = Live
  BY <1>0, <1>3, <1>5, <1>6, <1>7, OneMoves
<1>9. IsRecord(q) /\ IsRecord(x)
  <2>1. 1 \in 1..Len(queue[i])
    BY <1>5
  <2>2. IsRecord(q)
    BY <1>2, <1>3, <1>q, <2>1
  <2> QED
    BY <1>4, <2>2 DEF IsRecord
<1>10. \A k \in Four : \A j \in 1..Len(queue'[k]) : IsRecord(queue'[k][j])
  <2> SUFFICES ASSUME NEW k \in Four, NEW j \in 1..Len(queue'[k]) PROVE IsRecord(queue'[k][j])
    OBVIOUS
  <2>1. CASE k = i
    <3>1. queue'[k][j] = queue[i][j + 1] /\ j + 1 \in 1..Len(queue[i])
      BY <1>5, <2>1
    <3> QED
      BY <1>2, <1>3, <3>1
  <2>2. CASE k = d
    <3>1. j = Len(queue[d]) + 1 \/ j \in 1..Len(queue[d])
      BY <1>6, <2>2
    <3> QED
      BY <1>0, <1>2, <1>6, <1>9, <2>2, <3>1
  <2>3. CASE k # i /\ k # d
    BY <1>2, <1>3, <2>3
  <2> QED
    BY <2>1, <2>2, <2>3
<1>11. /\ Blocks(queue[i], 1) = Blocks(queue'[i], 1) + (IF q.eob THEN 1 ELSE 0)
       /\ Closed(queue'[i]) /\ Rising(queue'[i]) /\ (queue'[i] = <<>> => q.eob)
  BY <1>1, <1>2, <1>3, <1>q, BlocksTail
<1>12. Less(q, queue[i][2]) \/ q.eob \/ queue'[i] = <<>>
  <2> SUFFICES ASSUME ~q.eob, queue'[i] # <<>> PROVE Less(q, queue[i][2])
    OBVIOUS
  <2>1. Len(queue'[i]) # 0
    BY <1>3, ItemsOf
  <2>2. 1 \in 1..Len(queue[i]) - 1 /\ 1 + 1 = 2
    BY <1>5, <2>1
  <2> QED
    BY <1>2, <1>3, <1>q, <2>2 DEF Rising
<1>13. \A m \in 0..1 : ~ended'[m] => queue'[source + m] # <<>> /\ Less(q, queue'[source + m][1])
  <2> SUFFICES ASSUME NEW m \in 0..1, ~ended'[m]
               PROVE  queue'[source + m] # <<>> /\ Less(q, queue'[source + m][1])
    OBVIOUS
  <2>1. CASE m = c
    <3>1. ~q.eob /\ queue'[i] # <<>>
      BY <1>3, <1>11, <2>1
    <3>2. Len(queue'[i]) # 0
      BY <1>3, <3>1, ItemsOf
    <3>3. queue'[i][1] = queue[i][2]
      <4>0. queue'[i] \in Seq(Item)
        BY <1>3
      <4>1. 1 \in 1..Len(queue'[i]) /\ 1 + 1 = 2
        BY <3>2, <4>0, ItemsOf
      <4> QED
        BY <1>5, <4>1
    <3> QED
      BY <1>12, <1>i, <2>1, <3>1, <3>3
  <2>2. CASE m # c
    <3>1. ~ended[m] /\ ~ended[c]
      BY <1>3, <2>2
    <3>2. source + m \in Four /\ source + m # i /\ source + m # d
      <4>1. source + m \in {source, source + 1}
        BY <1>0
      <4>2. source + m # i
        BY <1>0, <1>3, <1>i, <2>2
      <4>3. d # source /\ d # source + 1
        BY <1>0, <1>1, <1>d, Turns DEF QueuesInTurn
      <4> QED
        BY <1>0, <4>1, <4>2, <4>3, Lists
    <3>3. queue'[source + m] = queue[source + m] /\ queue[source + m] # <<>>
      BY <1>1, <1>3, <3>1, <3>2
    <3>4. queue[source + m][1] \in Item /\ queue[source + m][1].unique # q.unique
      <4>1. queue[source + m] \in Seq(Item)
        BY <1>0, <3>2
      <4>2. queue[source + m][1] \in Item
        BY <3>3, <4>1, ItemsOf
      <4> QED
        BY <1>0, <1>3, <1>q, <3>2, <3>3, <4>2, QueueStamps, InLoop
    <3>5. (m = 0 /\ c = 1) \/ (m = 1 /\ c = 0)
      BY <1>3, <2>2
    <3>6. /\ c = Smaller
          /\ Smaller = IF Less(queue[source][1], queue[source + 1][1]) THEN 0 ELSE 1
      BY <1>c, <3>1, <3>5 DEF Chosen, Smaller
    <3>7. Less(q, queue[source + m][1])
      <4>1. CASE c = 0
        <5>1. i = source /\ source + m = source + 1
          BY <1>0, <1>i, <3>5, <4>1
        <5> QED
          BY <1>q, <3>6, <4>1, <5>1
      <4>2. CASE c = 1
        <5>1. i = source + 1 /\ source + m = source
          BY <1>0, <1>i, <3>5, <4>2
        <5>2. ~Less(queue[source + m][1], q)
          BY <1>q, <3>6, <4>2, <5>1
        <5>3. /\ q.key \in Nat /\ q.unique \in Nat
              /\ queue[source + m][1].key \in Nat /\ queue[source + m][1].unique \in Nat
          BY <1>0, <1>3, <3>4, Items
        <5> QED
          BY <3>4, <5>2, <5>3, LessTotal
      <4> QED
        BY <1>3, <4>1, <4>2
    <3> QED
      BY <3>3, <3>7
  <2> QED
    BY <2>1, <2>2
<1>14. /\ Blocks(queue'[d], 1) = Blocks(queue[d], 1) /\ Blocks(queue[d], 1) \in Nat
       /\ Unended(queue'[d]) /\ LastOf(queue'[d]) = x /\ Rising(queue'[d])
  <2>1. queue[d] \in Seq(Item) /\ 1 \in 1..Len(queue[d]) + 1
    BY <1>0, <1>6
  <2>2. Blocks(Append(queue[d], x), 1) = Blocks(queue[d], 1) + (IF x.eob THEN 1 ELSE 0)
        /\ Unended(Append(queue[d], x))
    BY <1>4, <2>1, BlocksAppend
  <2>3. Blocks(queue[d], 1) \in Nat
    BY <2>1, BlocksFinite
  <2>4. Unended(queue[d]) => Less(queue[d][Len(queue[d])], x)
    <3>1. Unended(queue[d]) => Less(LastOf(queue[d]), q)
      BY <1>1, <1>3, <1>i, <1>q
    <3> QED
      BY <1>4, <3>1 DEF Less, LastOf
  <2>5. Rising(Append(queue[d], x))
    BY <1>0, <1>2, <1>4, <2>1, <2>4, RisingAppend
  <2>6. LastOf(queue'[d]) = x
    BY <1>6 DEF LastOf
  <2> QED
    BY <1>3, <1>4, <2>2, <2>3, <2>5, <2>6
<1>15. \A k \in Four : Rising(queue'[k])
  BY <1>2, <1>3, <1>11, <1>14
<1>16. /\ Shapes' /\ Stages' /\ InMemory' /\ GoodItems' /\ Files' /\ FilesWait' /\ QueuesRise'
       /\ QueuesIdle' /\ QueuesOut'
  <2>1. source' \in {0, 2} /\ destination' \in Four /\ pc' \in Loop
    BY <1>0, <1>d
  <2> QED
    BY <1>0, <1>3, <1>8, <1>10, <1>15, <2>1, LoopSteps
<1>17. QueuesPass' /\ QueuesPair' /\ QueuesSorted'
  BY <1>0 DEF QueuesPass, QueuesPair, QueuesSorted
<1>18. \A k \in Four \ {d} : Closed(queue'[k])
  BY <1>1, <1>3, <1>11
<1>19. Target' = Target /\ source' = source /\ destination' = d
  BY <1>0, <1>d DEF Target
<1>20. Balanced(After(0)', After(1)')
  <2>1. \A m \in 0..1 : After(m)' = After(m)
    <3> SUFFICES ASSUME NEW m \in 0..1 PROVE After(m)' = After(m)
      OBVIOUS
    <3>1. After(m)' = IF ended'[m] THEN Blocks(queue'[source + m], 1) ELSE Blocks(queue'[source + m], 1) - 1
      BY <1>19 DEF After, Count
    <3>2. CASE m = c
      <4>1. Blocks(queue'[i], 1) \in Nat
        BY <1>3, BlocksFinite
      <4>2. After(m) = Blocks(queue[i], 1) - 1
        BY <1>3, <1>i, <3>2 DEF After, Count
      <4> QED
        BY <1>3, <1>11, <1>i, <3>1, <3>2, <4>1, <4>2
    <3>3. CASE m # c
      <4>1. source + m \in Four /\ source + m # i /\ source + m # d
        <5>1. source + m \in {source, source + 1}
          BY <1>0
        <5>2. source + m # i
          BY <1>0, <1>3, <1>i, <3>3
        <5>3. d # source /\ d # source + 1
          BY <1>0, <1>1, <1>d, Turns DEF QueuesInTurn
        <5> QED
          BY <1>0, <5>1, <5>2, <5>3, Lists
      <4>2. queue'[source + m] = queue[source + m] /\ ended'[m] = ended[m]
        BY <1>3, <3>3, <4>1
      <4> QED
        BY <3>1, <4>2 DEF After, Count
    <3> QED
      BY <3>2, <3>3
  <2> QED
    BY <1>1, <2>1
<1>21. QueuesInTurn'
  <2>1. \A k \in {Target, Target + 1} : Count(k)' = Count(k)
    <3> SUFFICES ASSUME NEW k \in {Target, Target + 1} PROVE Blocks(queue'[k], 1) = Blocks(queue[k], 1)
      BY DEF Count
    <3>1. k \in Four /\ k # i
      <4>1. i \in {source, source + 1}
        BY <1>0, <1>3, <1>i
      <4> QED
        BY <1>0, <4>1, Lists
    <3> QED
      BY <1>3, <1>14, <3>1
  <2>2. Count(Target)' = Blocks(queue'[Target], 1) /\ Count(Target + 1)' = Blocks(queue'[Target + 1], 1)
    BY <1>19 DEF Count
  <2>3. /\ Count(Target)' = Blocks(queue[Target], 1)
        /\ Count(Target + 1)' = Blocks(queue[Target + 1], 1)
    BY <2>1, <2>2 DEF Count
  <2> QED
    BY <1>1, <1>19, <1>d, <2>3 DEF QueuesInTurn, InTurn, Count
<1>22. QueuesMove'
  <2>1. \A m \in 0..1 : ~ended'[m] => Less(LastOf(queue'[d]), queue'[source + m][1])
    <3>1. \A y : Less(q, y) => Less(x, y)
      BY <1>4 DEF Less
    <3> QED
      BY <1>13, <1>14, <3>1
  <2> QED
    BY <1>13, <1>14, <1>18, <1>19, <1>20, <1>21, <2>1 DEF QueuesMove
<1> QED
  BY <1>16, <1>17, <1>22 DEF Engine, Queues

(* What the end of a block does to the queues. *)
LEMMA QueueEnds ==
  ASSUME IInv, QueueBlock
  PROVE  /\ queue' \in [Four -> Seq(Item)] /\ destination \in Four /\ queue[destination] # <<>>
         /\ \A i \in Four : Len(queue'[i]) = Len(queue[i])
         /\ \A i \in Four : \A j \in 1..Len(queue[i]) :
              /\ queue'[i][j].key = queue[i][j].key
              /\ queue'[i][j].unique = queue[i][j].unique
         /\ \A i \in Four \ {destination} : queue'[i] = queue[i]
         /\ LastOf(queue'[destination]).eob
         /\ \A j \in 1..Len(queue[destination]) - 1 : queue'[destination][j] = queue[destination][j]
<1> DEFINE d == destination
           s == queue[d]
           n == Len(s)
           x == [s[n] EXCEPT !.eob = TRUE]
           t == [s EXCEPT ![n] = x]
<1>0. /\ queue \in [Four -> Seq(Item)] /\ d \in Four /\ pc = "move" /\ ended[0] /\ ended[1]
      /\ setup \in Setups /\ QueuesMove
  BY DEF IInv, Engine, Queues, Shapes, QueueBlock
<1>1. Unended(s) /\ s \in Seq(Item)
  BY <1>0 DEF QueuesMove
<1>2. n \in Nat \ {0} /\ n \in 1..n /\ DOMAIN s = 1..n
  BY <1>1, ItemsOf DEF Unended
<1>3. s[n] \in Item
  BY <1>1, <1>2, ItemsOf
<1>4. x \in Item /\ x.key = s[n].key /\ x.unique = s[n].unique /\ x.eob
  BY <1>0, <1>3, Items
<1>5. queue' = [queue EXCEPT ![d] = t]
  BY DEF QueueBlock
<1> HIDE DEF x
<1>6. t \in Seq(Item) /\ Len(t) = n /\ t[n] = x /\ \A j \in 1..n - 1 : t[j] = s[j]
  <2>1. t \in Seq(Item) /\ Len(t) = Len(s)
    BY <1>1, <1>2, <1>4, ExceptSeq
  <2>2. t[n] = x /\ \A j \in 1..n - 1 : t[j] = s[j]
    BY <1>2
  <2> QED
    BY <2>1, <2>2
<1> HIDE DEF t, n
<1>7. \A j \in 1..n : t[j].key = s[j].key /\ t[j].unique = s[j].unique
  <2> SUFFICES ASSUME NEW j \in 1..n PROVE t[j].key = s[j].key /\ t[j].unique = s[j].unique
    OBVIOUS
  <2>1. CASE j = n
    BY <1>4, <1>6, <2>1
  <2>2. CASE j # n
    BY <1>2, <1>6, <2>2
  <2> QED
    BY <2>1, <2>2
<1>8. queue'[d] = t /\ \A i \in Four \ {d} : queue'[i] = queue[i]
  BY <1>0, <1>5
<1>9. queue' \in [Four -> Seq(Item)]
  BY <1>0, <1>5, <1>6
<1>10. \A i \in Four : Len(queue'[i]) = Len(queue[i])
  BY <1>0, <1>6, <1>8 DEF n
<1>11. \A i \in Four : \A j \in 1..Len(queue[i]) : /\ queue'[i][j].key = queue[i][j].key
                                                   /\ queue'[i][j].unique = queue[i][j].unique
  BY <1>0, <1>7, <1>8 DEF n
<1>12. LastOf(queue'[d]).eob
  BY <1>4, <1>6, <1>8 DEF LastOf
<1>13. \A j \in 1..Len(queue[d]) - 1 : queue'[d][j] = queue[d][j]
  BY <1>6, <1>8 DEF n
<1>14. queue[d] # <<>>
  BY <1>1 DEF Unended
<1> QED
  BY <1>0, <1>9, <1>10, <1>11, <1>8, <1>12, <1>13, <1>14

(* A merged block ends, and the other destination is next. *)
LEMMA QueueBlockKeeps ==
  ASSUME IInv, QueueBlock, UNCHANGED <<setup, using>>
  PROVE  Engine'
<1> DEFINE d == destination
<1>0. /\ Engine /\ Shapes /\ source \in {0, 2} /\ queue \in [Four -> Seq(Item)]
      /\ pc = "move" /\ pc \in Loop /\ pc' = "pair" /\ pc' \in Loop /\ d \in Four /\ setup \in Setups
      /\ ended \in [0..1 -> BOOLEAN] /\ ended[0] /\ ended[1]
      /\ destination' = Twin(d)
      /\ UNCHANGED <<setup, using, engine, empty, file, cont, source, ended, pending, reply>>
  BY DEF IInv, Engine, Queues, Shapes, QueueBlock, Loop
<1>1. /\ \A k \in Four \ {d} : Closed(queue[k])
      /\ Balanced(After(0), After(1))
      /\ QueuesInTurn /\ InTurn
      /\ Unended(queue[d])
  BY <1>0 DEF Engine, Queues, QueuesMove, QueuesInTurn
<1>2. /\ \A k \in Four : Rising(queue[k])
      /\ \A k \in Four : \A j \in 1..Len(queue[k]) : IsRecord(queue[k][j])
  BY <1>0, InLoop DEF Engine, Queues, QueuesRise, GoodItems
<1>3. /\ queue' \in [Four -> Seq(Item)] /\ queue[d] # <<>>
      /\ \A i \in Four : Len(queue'[i]) = Len(queue[i])
      /\ \A i \in Four : \A j \in 1..Len(queue[i]) : /\ queue'[i][j].key = queue[i][j].key
                                                     /\ queue'[i][j].unique = queue[i][j].unique
      /\ \A i \in Four \ {d} : queue'[i] = queue[i]
      /\ LastOf(queue'[d]).eob
      /\ \A j \in 1..Len(queue[d]) - 1 : queue'[d][j] = queue[d][j]
  BY QueueEnds
<1>4. Twin(d) \in Four /\ Twin(d) \in {Target, Target + 1} /\ Twin(d) - Target = 1 - (d - Target)
      /\ d \in {Target, Target + 1} /\ d # source /\ d # source + 1
  BY <1>0, <1>1, Turns, Lists
<1> HIDE DEF d
<1>5. Live' = Live
  BY <1>3 DEF Live, Sum4, Four
<1>6. \A k \in Four : \A j \in 1..Len(queue'[k]) : IsRecord(queue'[k][j])
  BY <1>2, <1>3 DEF IsRecord
<1>7. Blocks(queue'[d], 1) = Blocks(queue[d], 1) + 1 /\ Closed(queue'[d]) /\ Rising(queue'[d])
  <2>1. queue[d] \in Seq(Item) /\ queue'[d] \in Seq(Item) /\ Len(queue'[d]) = Len(queue[d])
    BY <1>0, <1>3
  <2>2. Len(queue[d]) \in 1..Len(queue[d])
    BY <1>3, <2>1, ItemsOf
  <2>3. /\ queue'[d][Len(queue[d])].key = queue[d][Len(queue[d])].key
        /\ queue'[d][Len(queue[d])].unique = queue[d][Len(queue[d])].unique
        /\ queue'[d][Len(queue[d])].eob
    BY <1>0, <1>3, <2>1, <2>2 DEF LastOf
  <2> QED
    BY <1>0, <1>1, <1>2, <1>3, <2>1, <2>3, LastEnds
<1>8. \A k \in Four : Rising(queue'[k]) /\ Closed(queue'[k])
  BY <1>1, <1>2, <1>3, <1>7
<1>9. /\ Shapes' /\ Stages' /\ InMemory' /\ GoodItems' /\ Files' /\ FilesWait' /\ QueuesRise'
      /\ QueuesIdle' /\ QueuesOut'
  <2>1. source' \in {0, 2} /\ destination' \in Four /\ ended' \in [0..1 -> BOOLEAN]
    BY <1>0, <1>4
  <2> QED
    BY <1>0, <1>3, <1>5, <1>6, <1>8, <2>1, LoopSteps
<1>10. QueuesPass' /\ QueuesMove' /\ QueuesSorted'
  BY <1>0 DEF QueuesPass, QueuesMove, QueuesSorted
<1>11. Target' = Target /\ source' = source /\ Target \in Nat
  BY <1>0, Lists DEF Target
<1>12. Balanced(Count(source)', Count(source + 1)')
  <2>1. After(0) = Count(source + 0) /\ After(1) = Count(source + 1) /\ source + 0 = source
    BY <1>0 DEF After
  <2>2. queue'[source] = queue[source] /\ queue'[source + 1] = queue[source + 1]
    BY <1>0, <1>3, <1>4, Lists
  <2>3. Count(source)' = Count(source) /\ Count(source + 1)' = Count(source + 1)
    BY <1>11, <2>2 DEF Count
  <2> QED
    BY <1>1, <2>1, <2>3
<1>13. QueuesInTurn'
  <2>1. Count(Target)' = Blocks(queue'[Target], 1) /\ Count(Target + 1)' = Blocks(queue'[Target + 1], 1)
    BY <1>11 DEF Count
  <2>2. Blocks(queue[Target], 1) = Blocks(queue[Target + 1], 1) + (d - Target)
    BY <1>1 DEF QueuesInTurn, Count, d
  <2>3. Blocks(queue[Target], 1) \in Nat /\ Blocks(queue[Target + 1], 1) \in Nat
    <3>1. queue[Target] \in Seq(Item) /\ queue[Target + 1] \in Seq(Item)
      BY <1>0, Lists
    <3> QED
      BY <3>1, BlocksFinite
  <2>4. Target \in Four /\ Target + 1 \in Four
    BY <1>0, Lists
  <2>5. Count(Target)' = Count(Target + 1)' + (Twin(d) - Target)
    <3>1. CASE d = Target
      <4>1. queue'[Target + 1] = queue[Target + 1]
        BY <1>3, <1>11, <2>4, <3>1
      <4> QED
        BY <1>4, <1>7, <1>11, <2>1, <2>2, <2>3, <3>1, <4>1
    <3>2. CASE d = Target + 1
      <4>1. queue'[Target] = queue[Target]
        BY <1>3, <1>11, <2>4, <3>2
      <4> QED
        BY <1>4, <1>7, <1>11, <2>1, <2>2, <2>3, <3>2, <4>1
    <3> QED
      BY <1>4, <3>1, <3>2
  <2> QED
    BY <1>0, <1>4, <1>11, <2>5 DEF QueuesInTurn, InTurn, Count
<1>14. QueuesPair'
  BY <1>8, <1>12, <1>13 DEF QueuesPair
<1> QED
  BY <1>9, <1>10, <1>14 DEF Engine, Queues

-----------------------------------------------------------------------------
(* RELEASE and RETURN, and what they do with a sorted queue.               *)

(* A statement that only answers. *)
LEMMA Answers ==
  ASSUME Engine, retrieving, pc \in {"idle", "retrieve"}, pc' \in {"idle", "retrieve"},
         UNCHANGED <<setup, using, engine, queue, empty, file, cont, local, pending, out, failed>>,
         ret' \in {0, 10, 30}, sort_return' \in {0, 16}
  PROVE  Engine'
<1> USE DEF engine, local
<1>0. /\ (InQueues' <=> InQueues) /\ (Reading' <=> Reading) /\ ~Merging /\ ~Merging'
      /\ pc \notin Loop /\ pc' \notin Loop /\ pc' \notin {"broken", "crashed"}
      /\ pc' \notin {"filepass", "filepair", "filemove"}
  BY DEF InQueues, Reading, Merging, Loop
<1>1. Shapes'
  <2>1. pc' \in Loop \cup {"idle", "filepass", "filepair", "filemove", "retrieve", "crashed", "broken"}
    OBVIOUS
  <2> QED
    BY <2>1, SameTypes DEF Engine, Shapes
<1>2. Stages'
  BY <1>0 DEF Engine, Stages
<1>3. InMemory'
  BY DEF Engine, InMemory, Live, Sum4
<1>4. GoodItems'
  BY <1>0 DEF Engine, GoodItems, IsRecord
<1>5. FilesWait'
  BY <1>0 DEF Engine, Queues, FilesWait, Submitting
<1>6. QueuesRise' /\ QueuesOut'
  BY <1>0 DEF Engine, Queues, QueuesRise, QueuesOut
<1>7. QueuesIdle' /\ QueuesPass' /\ QueuesPair' /\ QueuesMove' /\ QueuesSorted'
  BY <1>0 DEF QueuesIdle, QueuesPass, QueuesPair, QueuesMove, QueuesSorted, Loop
<1>8. FilesRise' /\ FilesOut'
  <2>1. FilesRise'
    BY <1>0 DEF Engine, Files, FilesRise
  <2>2. FilesOut'
    <3> SUFFICES ASSUME Reading' PROVE FilesOut'
      BY DEF FilesOut
    <3>1. Reading
      BY <1>0
    <3> QED
      BY <3>1 DEF Engine, Files, FilesOut, Left, First, FirstRises, Target
  <2> QED
    BY <2>1, <2>2
<1>9. FilesPass' /\ FilesPair' /\ FilesMove'
  BY <1>0 DEF FilesPass, FilesPair, FilesMove
<1> QED
  BY <1>1, <1>2, <1>3, <1>4, <1>5, <1>6, <1>7, <1>8, <1>9 DEF Engine, Queues, Files

(* The first pass over the queues finds blocks of one item. *)
LEMMA LoopStarts ==
  ASSUME Engine, pc = "idle", ~retrieving, pc' = "pass", source' = 0,
         UNCHANGED <<setup, using, memory, unique, retrieval_queue, queue, empty, file,
                     destination, ended, reply>>,
         destination_file' = IF files_used THEN destination_file ELSE 0,
         \/ /\ cont' = "submit" /\ files_used' = TRUE /\ ~retrieving' /\ pending' \in Keys
            /\ retrieving' \in BOOLEAN
            /\ unique < Len(setup.choices) /\ Live + empty >= memory
         \/ /\ cont' = "retrieve" /\ retrieving' = TRUE /\ pending' = pending
            /\ files_used' = files_used
  PROVE  Engine'
<1> USE DEF reply
<1>0. /\ InQueues /\ pc' \in Loop /\ InQueues' /\ ~Merging' /\ ~Reading'
      /\ pc' \notin {"idle", "retrieve", "broken", "crashed", "pair", "move", "sorted"}
  BY InLoopNext DEF InQueues, Loop
<1>1. /\ Shapes /\ Stages /\ InMemory /\ GoodItems /\ FilesWait /\ QueuesRise /\ QueuesIdle
      /\ queue \in [Four -> Seq(Item)]
  BY DEF Engine, Queues, Shapes
<1>2. Shapes'
  <2>1. pc' \in Loop \cup {"idle", "filepass", "filepair", "filemove", "retrieve", "crashed", "broken"}
    BY <1>0
  <2>2. retrieving' \in BOOLEAN /\ files_used' \in BOOLEAN /\ pending' \in Keys \cup {0}
        /\ destination_file' \in 0..1 /\ cont' \in {"none", "submit", "retrieve"}
    <3>1. destination_file \in 0..1 /\ files_used \in BOOLEAN /\ pending \in Keys \cup {0}
      BY <1>1 DEF Shapes
    <3>2. retrieving' \in BOOLEAN /\ files_used' \in BOOLEAN
      BY <3>1, Zenon
    <3>3. pending' \in Keys \cup {0} /\ cont' \in {"none", "submit", "retrieve"}
      BY <3>1
    <3>4. destination_file' \in 0..1
      BY <3>1
    <3> QED
      BY <3>2, <3>3, <3>4
  <2> QED
    BY <1>1, <2>1, <2>2, SameTypes DEF Shapes
<1>3. Stages'
  BY <1>0, <1>1 DEF Stages, Loop, Merging
<1>4. InMemory'
  BY <1>1 DEF InMemory, Live, Sum4
<1>5. GoodItems'
  BY <1>0, <1>1 DEF GoodItems, IsRecord
<1>6. Files'
  BY <1>0, NoFilesNext
<1>7. FilesWait'
  <2>1. ~Submitting
    BY DEF Submitting, Loop
  <2>2. cont' = "submit" => Submitting'
    BY <1>0 DEF Submitting
  <2>3. CASE cont' = "submit"
    BY <1>0, <1>1, <2>1, <2>2, <2>3 DEF FilesWait
  <2>4. CASE cont' # "submit"
    <3>1. files_used' = files_used /\ ~Submitting'
      BY <2>4 DEF Submitting
    <3>2. ~files_used => destination_file = 0
      BY <1>0, <1>1 DEF FilesWait
    <3>3. destination_file' = destination_file
      BY <3>2
    <3> QED
      BY <1>0, <1>1, <2>1, <3>1, <3>3 DEF FilesWait
  <2> QED
    BY <2>3, <2>4
<1>8. QueuesRise' /\ QueuesIdle' /\ QueuesPair' /\ QueuesMove' /\ QueuesSorted' /\ QueuesOut'
  <2>1. QueuesRise'
    BY <1>0, <1>1 DEF QueuesRise
  <2> QED
    BY <1>0, <2>1 DEF QueuesIdle, QueuesPair, QueuesMove, QueuesSorted, QueuesOut
<1>9. QueuesPass'
  <2>1. /\ queue[2] = <<>> /\ queue[3] = <<>>
        /\ \A i \in 0..1 : \A j \in 1..Len(queue[i]) : queue[i][j].eob
        /\ Balanced(Len(queue[0]), Len(queue[1]))
    BY <1>1 DEF QueuesIdle
  <2>2. \A i \in 0..1 : Blocks(queue[i], 1) = Len(queue[i]) /\ Closed(queue[i])
    <3> SUFFICES ASSUME NEW i \in 0..1 PROVE Blocks(queue[i], 1) = Len(queue[i]) /\ Closed(queue[i])
      OBVIOUS
    <3>1. queue[i] \in Seq(Item)
      BY <1>1 DEF Four
    <3>2. \A j \in DOMAIN queue[i] : queue[i][j].eob
      BY <2>1, <3>1, ItemsOf
    <3> QED
      BY <3>1, <3>2, BlocksOfSingles
  <2>3. Target' = 2
    BY DEF Target
  <2>4. queue'[2] = <<>> /\ queue'[2 + 1] = <<>>
    BY <2>1
  <2>5. /\ Closed(queue[0]) /\ Closed(queue[0 + 1])
        /\ Balanced(Blocks(queue[0], 1), Blocks(queue[0 + 1], 1))
    BY <2>1, <2>2
  <2> QED
    BY <2>3, <2>4, <2>5 DEF QueuesPass, Count
<1> QED
  BY <1>2, <1>3, <1>4, <1>5, <1>6, <1>7, <1>8, <1>9 DEF Engine, Queues

(* The first RETURN starts the sort. *)
LEMMA ReturnKeeps ==
  ASSUME IInv, Return, UNCHANGED <<setup, using>>
  PROVE  Engine'
<1>1. Engine /\ (~files_used => destination_file = 0)
  <2>1. InQueues
    BY DEF Return, InQueues
  <2> QED
    BY <2>1 DEF IInv, Engine, Queues, FilesWait
<1>2. destination_file' = IF files_used THEN destination_file ELSE 0
  BY <1>1 DEF Return
<1> QED
  BY <1>1, <1>2, LoopStarts DEF Return

(* A later one asks for the next record. *)
LEMMA ReturnAgainKeeps ==
  ASSUME IInv, ReturnAgain, UNCHANGED <<setup, using>>
  PROVE  Engine'
<1>1. Engine /\ ret \in {0, 10, 30} /\ sort_return \in {0, 16}
  BY DEF IInv, Engine, Shapes
<1> QED
  BY <1>1, Answers DEF ReturnAgain, reply

(* A sum of numbers is a number, and no less than they are. *)
LEMMA SumIsNat ==
  \A m, n \in Nat : m + n \in Nat /\ \A k \in Nat : m >= k => m + n >= k
OBVIOUS

(* What a record that is pushed on the shorter of two queues changes. *)
Shorter(q) == IF Len(q[0]) <= Len(q[1]) THEN 0 ELSE 1
Pushable(q) == /\ q \in [Four -> Seq(Item)] /\ q[2] = <<>> /\ q[3] = <<>>
               /\ \A i \in 0..1 : \A j \in 1..Len(q[i]) : q[i][j].eob
               /\ Balanced(Len(q[0]), Len(q[1]))

(* The list it goes to is longer by one, and the balance is kept. *)
LEMMA Pushed ==
  ASSUME setup \in Setups, unique \in Nat, unique <= Len(setup.choices),
         NEW q, Pushable(q), NEW k \in Keys, NEW e, Push(k, q, e),
         \A i \in Four : \A j \in 1..Len(q[i]) : IsRecord(q[i][j])
  PROVE  LET z == Shorter(q) IN
         /\ z \in 0..1 /\ Pushable(queue')
         /\ Len(queue'[z]) = Len(q[z]) + 1
         /\ queue'[z][1] = [key |-> k, unique |-> unique, eob |-> TRUE]
         /\ \A j \in 1..Len(q[z]) : queue'[z][j + 1] = q[z][j]
         /\ \A i \in Four \ {z} : queue'[i] = q[i]
         /\ \A i \in Four : Rising(queue'[i])
         /\ Live' = Len(q[0]) + Len(q[1]) + 1
         /\ \A i \in Four : \A j \in 1..Len(queue'[i]) :
              queue'[i][j].key \in Keys /\ queue'[i][j].unique \in 0..unique
<1> DEFINE z == Shorter(q)
           x == [key |-> k, unique |-> unique, eob |-> TRUE]
           s == <<x>>
<1>0. z \in 0..1 /\ z \in Four /\ queue' = [q EXCEPT ![z] = s \o @]
  BY DEF Push, Shorter, Four
<1>1. x \in Item
  BY Program DEF Item
<1>2. q \in [Four -> Seq(Item)] /\ q[0] \in Seq(Item) /\ q[1] \in Seq(Item) /\ q[z] \in Seq(Item)
  BY <1>0 DEF Pushable, Four
<1>3. s \in Seq(Item) /\ Len(s) = 1 /\ s[1] = x
  BY <1>1
<1>z. z = IF Len(q[0]) <= Len(q[1]) THEN 0 ELSE 1
  BY DEF Shorter
<1> HIDE DEF s, x, z
<1>4. /\ s \o q[z] \in Seq(Item) /\ Len(s \o q[z]) = Len(q[z]) + 1
      /\ (s \o q[z])[1] = x
      /\ \A j \in 1..Len(q[z]) : (s \o q[z])[j + 1] = q[z][j]
  <2>0. Len(q[z]) \in Nat
    BY <1>2, LenProperties
  <2>1. /\ s \o q[z] \in Seq(Item) /\ Len(s \o q[z]) = Len(s) + Len(q[z])
        /\ \A i \in 1..Len(s) + Len(q[z]) :
             (s \o q[z])[i] = IF i <= Len(s) THEN s[i] ELSE q[z][i - Len(s)]
    BY <1>2, <1>3, ConcatProperties
  <2>2. (s \o q[z])[1] = x
    <3>1. 1 \in 1..Len(s) + Len(q[z]) /\ 1 <= Len(s)
      BY <1>3, <2>0
    <3> QED
      BY <1>3, <2>1, <3>1
  <2>3. ASSUME NEW j \in 1..Len(q[z]) PROVE (s \o q[z])[j + 1] = q[z][j]
    <3>1. j + 1 \in 1..Len(s) + Len(q[z]) /\ ~(j + 1 <= Len(s)) /\ (j + 1) - Len(s) = j
      BY <1>3, <2>0
    <3> QED
      BY <2>1, <3>1
  <2> QED
    BY <1>3, <2>0, <2>1, <2>2, <2>3
<1>5. queue'[z] = s \o q[z] /\ \A i \in Four \ {z} : queue'[i] = q[i]
  BY <1>0, <1>2
<1>6. queue' \in [Four -> Seq(Item)]
  BY <1>0, <1>2, <1>4
<1>7. queue'[2] = <<>> /\ queue'[3] = <<>>
  <2>1. 2 \in Four \ {z} /\ 3 \in Four \ {z}
    BY <1>0 DEF Four
  <2> QED
    BY <1>5, <2>1 DEF Pushable
<1>8. Len(queue'[z]) = Len(q[z]) + 1 /\ Len(q[z]) \in Nat
  BY <1>2, <1>4, <1>5, LenProperties
<1>9. \A i \in 0..1 : \A j \in 1..Len(queue'[i]) : queue'[i][j].eob
  <2> SUFFICES ASSUME NEW i \in 0..1, NEW j \in 1..Len(queue'[i]) PROVE queue'[i][j].eob
    OBVIOUS
  <2>1. CASE i # z
    <3>1. queue'[i] = q[i]
      BY <1>5, <2>1 DEF Four
    <3> QED
      BY <3>1 DEF Pushable
  <2>2. CASE i = z /\ j = 1
    BY <1>4, <1>5, <2>2 DEF x
  <2>3. CASE i = z /\ j # 1
    <3>1. j - 1 \in 1..Len(q[z]) /\ (j - 1) + 1 = j
      BY <1>8, <2>3
    <3>2. queue'[i][j] = q[z][j - 1]
      BY <1>4, <1>5, <2>3, <3>1
    <3> QED
      BY <1>0, <3>1, <3>2 DEF Pushable
  <2> QED
    BY <2>1, <2>2, <2>3
<1>10. Len(q[0]) \in Nat /\ Len(q[1]) \in Nat /\ Balanced(Len(q[0]), Len(q[1]))
  BY <1>2, LenProperties DEF Pushable
<1>11. /\ Balanced(Len(queue'[0]), Len(queue'[1]))
       /\ Len(queue'[0]) + Len(queue'[1]) = Len(q[0]) + Len(q[1]) + 1
  <2>1. CASE Len(q[0]) <= Len(q[1])
    <3>1. z = 0
      BY <1>z, <2>1
    <3>2. queue'[1] = q[1]
      BY <1>5, <3>1 DEF Four
    <3>3. Len(queue'[0]) = Len(q[0]) + 1 /\ Len(queue'[1]) = Len(q[1])
      BY <1>8, <3>1, <3>2
    <3>4. Len(q[0]) = Len(q[1])
      BY <1>10, <2>1 DEF Balanced
    <3> QED
      BY <1>10, <3>3, <3>4 DEF Balanced
  <2>2. CASE ~(Len(q[0]) <= Len(q[1]))
    <3>1. z = 1
      BY <1>z, <2>2
    <3>2. queue'[0] = q[0]
      BY <1>5, <3>1 DEF Four
    <3>3. Len(queue'[1]) = Len(q[1]) + 1 /\ Len(queue'[0]) = Len(q[0])
      BY <1>8, <3>1, <3>2
    <3>4. Len(q[0]) = Len(q[1]) + 1
      BY <1>10, <2>2 DEF Balanced
    <3> QED
      BY <1>10, <3>3, <3>4 DEF Balanced
  <2> QED
    BY <2>1, <2>2
<1>12. \A i \in Four : Rising(queue'[i])
  <2> SUFFICES ASSUME NEW i \in Four PROVE Rising(queue'[i])
    OBVIOUS
  <2>1. queue'[i] \in Seq(Item)
    BY <1>6
  <2>2. \A j \in DOMAIN queue'[i] : queue'[i][j].eob
    <3>1. CASE i \in 0..1
      BY <1>9, <2>1, <3>1, ItemsOf
    <3>2. CASE i \notin 0..1
      <4>1. i = 2 \/ i = 3
        BY <3>2 DEF Four
      <4>2. Len(queue'[i]) = 0
        BY <1>7, <4>1
      <4> QED
        BY <2>1, <4>2, ItemsOf
    <3> QED
      BY <3>1, <3>2
  <2> QED
    BY <2>1, <2>2, BlocksOfSingles
<1>13. Live' = Len(q[0]) + Len(q[1]) + 1
  <2>1. Live' = Len(queue'[0]) + Len(queue'[1]) + Len(queue'[2]) + Len(queue'[3])
    BY DEF Live, Sum4, Four
  <2>2. Len(queue'[2]) = 0 /\ Len(queue'[3]) = 0
    BY <1>7
  <2>3. Len(queue'[0]) \in Nat /\ Len(queue'[1]) \in Nat
    BY <1>6, LenProperties DEF Four
  <2>4. Live' = Len(queue'[0]) + Len(queue'[1])
    BY <2>1, <2>2, <2>3
  <2> QED
    BY <1>11, <2>4
<1>14. Pushable(queue')
  BY <1>6, <1>7, <1>9, <1>11 DEF Pushable
<1>15. ASSUME NEW i \in Four, NEW j \in 1..Len(queue'[i])
       PROVE  queue'[i][j].key \in Keys /\ queue'[i][j].unique \in 0..unique
  <2>1. \A l \in Four : \A m \in 1..Len(q[l]) : q[l][m].key \in Keys /\ q[l][m].unique \in 0..unique
    BY DEF IsRecord
  <2>2. CASE i # z
    <3>1. queue'[i] = q[i]
      BY <1>5, <2>2
    <3> QED
      BY <2>1, <3>1
  <2>3. CASE i = z /\ j = 1
    BY <1>4, <1>5, <2>3 DEF x
  <2>4. CASE i = z /\ j # 1
    <3>1. j - 1 \in 1..Len(q[z]) /\ (j - 1) + 1 = j
      BY <1>8, <2>4
    <3>2. queue'[i][j] = q[z][j - 1]
      BY <1>4, <1>5, <2>4, <3>1
    <3> QED
      BY <1>0, <2>1, <3>1, <3>2
  <2> QED
    BY <2>2, <2>3, <2>4
<1> QED
  BY <1>0, <1>4, <1>5, <1>8, <1>12, <1>13, <1>14, <1>15 DEF x, z

(* The statement that pushed a record is over. *)
LEMMA PushKeeps ==
  ASSUME Engine, InQueues, ~retrieving,
         NEW q, Pushable(q), NEW k \in Keys, NEW e \in Nat, Push(k, q, e),
         \A i \in Four : \A j \in 1..Len(q[i]) : IsRecord(q[i][j]),
         unique < Len(setup.choices),
         Len(q[0]) + Len(q[1]) + 1 + NewItem(e) <= (IF memory = 0 THEN 1 ELSE memory),
         Len(q[0]) + Len(q[1]) + NewItem(e) <= unique,
         files_used => Len(q[0]) + Len(q[1]) + 1 + NewItem(e) >= memory,
         pc' = "idle", cont' \in {"none", "submit", "retrieve"}, ret' = 0, destination_file' \in 0..1,
         file' \in [Four -> File], \A i \in Four : file'[i].at <= Len(file'[i].data) + 1,
         \A i \in Four : \A j \in 1..Len(file'[i].data) :
           IF file'[i].data[j].eob THEN file'[i].data[j] = Marker ELSE IsRecord(file'[i].data[j]),
         FilesWait',
         UNCHANGED <<setup, using, memory, retrieving, files_used, retrieval_queue, local, pending,
                     out, sort_return, failed>>
  PROVE  Engine'
<1>0. Shapes /\ Stages /\ setup \in Setups /\ unique \in Nat /\ unique <= Len(setup.choices)
  <2>1. Shapes /\ Stages /\ setup \in Setups /\ unique \in 0..Len(setup.choices)
    BY DEF Engine, Shapes
  <2> QED
    BY <2>1, Program
<1>1. /\ Pushable(queue')
      /\ \A i \in Four : Rising(queue'[i])
      /\ Live' = Len(q[0]) + Len(q[1]) + 1
      /\ \A i \in Four : \A j \in 1..Len(queue'[i]) :
           queue'[i][j].key \in Keys /\ queue'[i][j].unique \in 0..unique
  BY <1>0, Pushed
<1>2. empty' = NewItem(e) /\ unique' = unique + 1 /\ NewItem(e) \in Nat
  BY DEF Push, NewItem
<1>3. Shapes'
  <2>1. pc' \in Loop \cup {"idle", "filepass", "filepair", "filemove", "retrieve", "crashed", "broken"}
    OBVIOUS
  <2>2. unique' \in 0..Len(setup.choices)
    BY <1>0, <1>2, Program
  <2> QED
    BY <1>0, <1>1, <1>2, <2>1, <2>2, SameTypes DEF Shapes, Pushable, local
<1>4. /\ InQueues' /\ ~Merging' /\ ~Reading' /\ pc' \notin Loop
      /\ pc' \notin {"broken", "crashed", "retrieve"}
  BY DEF InQueues, Merging, Reading, Loop
<1>5. Stages'
  <2>1. pc # "broken" /\ ~failed
    BY <1>0 DEF InQueues, Loop, Stages
  <2>2. out = <<>>
    BY <1>0 DEF Stages
  <2> QED
    BY <1>4, <2>1, <2>2 DEF Stages
<1>6. InMemory'
  <2> DEFINE n == Len(q[0]) + Len(q[1])
             f == NewItem(e)
  <2>1. n \in Nat
    <3>1. q[0] \in Seq(Item) /\ q[1] \in Seq(Item)
      BY DEF Pushable, Four
    <3>2. Len(q[0]) \in Nat /\ Len(q[1]) \in Nat
      BY <3>1, LenProperties
    <3> QED
      BY <3>2, SumIsNat
  <2>2. /\ n + 1 + f <= (IF memory = 0 THEN 1 ELSE memory) /\ n + f <= unique
        /\ files_used => n + 1 + f >= memory
    OBVIOUS
  <2>3. Live' = n + 1 /\ empty' = f /\ f \in Nat
    BY <1>1, <1>2
  <2> HIDE DEF n, f
  <2>4. Live' + empty' <= unique'
    BY <1>0, <1>2, <2>1, <2>2, <2>3
  <2>5. Live' + empty' <= IF memory' = 0 THEN 1 ELSE memory'
    BY <2>1, <2>2, <2>3
  <2>6. files_used' => Live' + empty' >= memory'
    BY <2>2, <2>3
  <2> QED
    BY <2>4, <2>5, <2>6 DEF InMemory
<1>7. GoodItems'
  <2>1. unique' - 1 = unique /\ \A x : IsRecord(x) => x.key \in Keys /\ x.unique \in 0..unique
    BY <1>0, <1>2 DEF IsRecord
  <2>2. \A i \in Four : \A j \in 1..Len(file'[i].data) :
          IF file'[i].data[j].eob THEN file'[i].data[j] = Marker
          ELSE file'[i].data[j].key \in Keys /\ file'[i].data[j].unique \in 0..unique
    BY <2>1
  <2> QED
    BY <1>1, <1>4, <2>1, <2>2 DEF GoodItems, IsRecord
<1>8. Files'
  BY <1>4, NoFilesNext
<1>9. QueuesIdle' /\ QueuesRise'
  BY <1>1 DEF QueuesIdle, QueuesRise, Pushable
<1>10. QueuesPass' /\ QueuesPair' /\ QueuesMove' /\ QueuesSorted' /\ QueuesOut'
  BY DEF QueuesPass, QueuesPair, QueuesMove, QueuesSorted, QueuesOut
<1> QED
  BY <1>3, <1>5, <1>6, <1>7, <1>8, <1>9, <1>10 DEF Engine, Queues

(* RELEASE: refused, pushed, or put off until memory has been sorted. *)
LEMMA ReleaseKeeps ==
  ASSUME IInv, NEW k \in Keys, Release(k), UNCHANGED <<setup, using>>
  PROVE  Engine'
<1>0. /\ Engine /\ Shapes /\ pc = "idle" /\ unique < Len(setup.choices)
      /\ setup \in Setups /\ unique \in Nat /\ empty \in Nat /\ queue \in [Four -> Seq(Item)]
  <2>1. /\ Engine /\ Shapes /\ pc = "idle" /\ unique < Len(setup.choices) /\ setup \in Setups
        /\ unique \in 0..Len(setup.choices) /\ empty \in Nat /\ queue \in [Four -> Seq(Item)]
    BY DEF IInv, Engine, Shapes, Release
  <2> QED
    BY <2>1
<1>a. ASSUME ~retrieving
      PROVE  /\ InQueues /\ QueuesIdle /\ Pushable(queue)
             /\ Live = Len(queue[0]) + Len(queue[1])
             /\ \A i \in Four : \A j \in 1..Len(queue[i]) : IsRecord(queue[i][j])
  <2>1. InQueues
    BY <1>0, <1>a DEF InQueues
  <2>2. QueuesIdle
    BY <1>0 DEF Engine, Queues
  <2>3. Pushable(queue)
    BY <1>0, <1>a, <2>2 DEF QueuesIdle, Pushable
  <2>4. Live = Len(queue[0]) + Len(queue[1]) + Len(queue[2]) + Len(queue[3])
    BY DEF Live, Sum4, Four
  <2>5. Len(queue[2]) = 0 /\ Len(queue[3]) = 0 /\ Len(queue[0]) \in Nat /\ Len(queue[1]) \in Nat
    BY <1>0, <2>3, ItemsOf DEF Pushable, Four
  <2>6. Live = Len(queue[0]) + Len(queue[1])
    BY <2>4, <2>5
  <2> QED
    BY <1>0, <2>1, <2>2, <2>3, <2>6 DEF Engine, GoodItems
<1>1. CASE retrieving /\ ~using /\ Refuse
           /\ UNCHANGED <<engine, queue, empty, file, pc, cont, local, pending, failed>>
  <2>1. ret' \in {0, 10, 30} /\ sort_return' \in {0, 16} /\ out' = out
    BY <1>0, <1>1 DEF Refuse, Shapes
  <2> QED
    BY <1>0, <1>1, <2>1, Answers
<1>2. CASE /\ ~retrieving /\ ~Full
           /\ Push(k, queue, empty)
           /\ ret' = 0
           /\ UNCHANGED <<memory, retrieving, files_used, destination_file, retrieval_queue,
                          file, pc, cont, local, pending, out, sort_return, failed>>
  <2>0. /\ InQueues /\ Pushable(queue) /\ Live = Len(queue[0]) + Len(queue[1])
        /\ \A i \in Four : \A j \in 1..Len(queue[i]) : IsRecord(queue[i][j])
    BY <1>2, <1>a
  <2>1. FilesWait'
    <3>1. ~Submitting /\ ~Submitting' /\ InQueues'
      BY <1>0, <1>2, <2>0 DEF Submitting, InQueues, Loop
    <3>2. FilesWait
      BY <1>0 DEF Engine, Queues
    <3>3. unique' = unique + 1 /\ file[0].count \in Nat /\ file[1].count \in Nat
      <4>1. file[0].count \in 0..SizeMax /\ file[1].count \in 0..SizeMax /\ SizeMax \in Nat
        BY <1>0, Program DEF Shapes, File, Four
      <4> QED
        BY <1>2, <4>1 DEF Push
    <3>4. file[0].count + file[1].count <= unique + 1
      BY <1>0, <2>0, <3>2, <3>3 DEF FilesWait
    <3> QED
      BY <1>2, <2>0, <3>1, <3>2, <3>3, <3>4 DEF FilesWait
  <2>2. /\ Live + 1 + NewItem(empty) <= (IF memory = 0 THEN 1 ELSE memory)
        /\ Live + NewItem(empty) <= unique
        /\ files_used => Live + 1 + NewItem(empty) >= memory
    <3>1. Live < memory
      BY <1>0, <1>2, <2>0, ItemsOf, Program DEF Full, Shapes, Four
    <3>2. Live \in Nat /\ memory \in Nat
      BY <1>0, <2>0, ItemsOf, Program DEF Shapes, Four
    <3>3. InMemory
      BY <1>0 DEF Engine
    <3> HIDE DEF Live
    <3>4. CASE empty = 0
      BY <1>0, <3>1, <3>2, <3>3, <3>4 DEF InMemory, NewItem
    <3>5. CASE empty > 0
      BY <1>0, <3>1, <3>2, <3>3, <3>5 DEF InMemory, NewItem
    <3> QED
      BY <1>0, <3>4, <3>5
  <2>3. /\ Len(queue[0]) + Len(queue[1]) + 1 + NewItem(empty) <= (IF memory = 0 THEN 1 ELSE memory)
        /\ Len(queue[0]) + Len(queue[1]) + NewItem(empty) <= unique
        /\ files_used => Len(queue[0]) + Len(queue[1]) + 1 + NewItem(empty) >= memory
    BY <2>0, <2>2
  <2>4. cont' \in {"none", "submit", "retrieve"}
    BY <1>0, <1>2 DEF Shapes
  <2>5. destination_file' \in 0..1 /\ file' = file /\ file \in [Four -> File] /\ pc' = "idle"
        /\ \A i \in Four : file[i].at <= Len(file[i].data) + 1
    BY <1>0, <1>2 DEF Shapes
  <2>6. \A i \in Four : \A j \in 1..Len(file[i].data) :
          IF file[i].data[j].eob THEN file[i].data[j] = Marker ELSE IsRecord(file[i].data[j])
    BY <1>0 DEF Engine, GoodItems
  <2> QED
    BY <1>0, <1>2, <2>0, <2>1, <2>3, <2>4, <2>5, <2>6, PushKeeps
<1>3. CASE /\ ~retrieving /\ Full
           /\ files_used' = TRUE
           /\ destination_file' = IF files_used THEN destination_file ELSE 0
           /\ pending' = k
           /\ pc' = "pass" /\ cont' = "submit" /\ source' = 0
           /\ UNCHANGED <<memory, unique, retrieving, retrieval_queue, queue, empty, file,
                          destination, ended, reply>>
  <2>1. Live + empty >= memory
    <3>1. Live = Len(queue[0]) + Len(queue[1]) /\ Live >= memory
      BY <1>3, <1>a DEF Full
    <3>2. Len(queue[0]) \in Nat /\ Len(queue[1]) \in Nat /\ memory \in Nat
      BY <1>0, ItemsOf, Program DEF Shapes, Four
    <3>3. Live \in Nat
      BY <3>1, <3>2, SumIsNat
    <3> QED
      BY <1>0, <3>1, <3>2, <3>3, SumIsNat
  <2>2. retrieving' \in BOOLEAN /\ ~retrieving'
    BY <1>0, <1>3 DEF Shapes
  <2> QED
    BY <1>0, <1>3, <2>1, <2>2, LoopStarts
<1> QED
  BY <1>1, <1>2, <1>3 DEF Release

(* The last pass has left the sorted items on one queue. *)
LEMMA OneQueue ==
  ASSUME Engine, pc = "sorted"
  PROVE  /\ InQueues /\ source \in {0, 2} /\ source \in Four /\ queue \in [Four -> Seq(Item)]
         /\ \A i \in Four \ {source} : queue[i] = <<>>
         /\ Single(queue[source]) /\ queue[source] \in Seq(Item)
         /\ \A j \in 1..Len(queue[source]) : IsRecord(queue[source][j])
         /\ Live = Len(queue[source]) /\ Live \in Nat
<1>1. /\ InQueues /\ source \in {0, 2} /\ source \in Four /\ queue \in [Four -> Seq(Item)]
      /\ \A i \in Four \ {source} : queue[i] = <<>>
      /\ Single(queue[source])
  BY DEF Engine, Shapes, Queues, QueuesSorted, InQueues, Loop, Four
<1>2. \A j \in 1..Len(queue[source]) : IsRecord(queue[source][j])
  BY <1>1 DEF Engine, GoodItems
<1>3. queue[source] \in Seq(Item) /\ Len(queue[source]) \in Nat
  BY <1>1, ItemsOf
<1>4. Live = Len(queue[0]) + Len(queue[1]) + Len(queue[2]) + Len(queue[3])
  BY DEF Live, Sum4, Four
<1>5. \A i \in Four \ {source} : Len(queue[i]) = 0
  BY <1>1
<1>6. Live = Len(queue[source])
  <2>1. CASE source = 0
    <3>1. Len(queue[1]) = 0 /\ Len(queue[2]) = 0 /\ Len(queue[3]) = 0
      BY <1>5, <2>1 DEF Four
    <3> QED
      BY <1>3, <1>4, <2>1, <3>1
  <2>2. CASE source = 2
    <3>1. Len(queue[0]) = 0 /\ Len(queue[1]) = 0 /\ Len(queue[3]) = 0
      BY <1>5, <2>2 DEF Four
    <3> QED
      BY <1>3, <1>4, <2>2, <3>1
  <2> QED
    BY <1>1, <2>1, <2>2
<1> QED
  BY <1>1, <1>2, <1>3, <1>6

(* The block that cob_write_block makes of them. *)
LEMMA BlockIs ==
  ASSUME setup \in Setups, NEW q \in Seq(Item)
  PROVE  /\ Block(q) \in Seq(Item) /\ Len(Block(q)) = Len(q) + 1
         /\ \A j \in 1..Len(q) : /\ Block(q)[j].key = q[j].key
                                 /\ Block(q)[j].unique = q[j].unique
                                 /\ ~Block(q)[j].eob
         /\ Block(q)[Len(q) + 1] = Marker
<1> DEFINE r == [i \in DOMAIN q |-> [q[i] EXCEPT !.eob = FALSE]]
<1>1. Len(q) \in Nat /\ DOMAIN q = 1..Len(q) /\ \A j \in 1..Len(q) : q[j] \in Item
  BY ItemsOf
<1>2. \A j \in 1..Len(q) : /\ [q[j] EXCEPT !.eob = FALSE] \in Item
                           /\ [q[j] EXCEPT !.eob = FALSE].key = q[j].key
                           /\ [q[j] EXCEPT !.eob = FALSE].unique = q[j].unique
                           /\ ~[q[j] EXCEPT !.eob = FALSE].eob
  BY <1>1, Items
<1>3. r \in [1..Len(q) -> Item] /\ \A j \in 1..Len(q) : r[j] = [q[j] EXCEPT !.eob = FALSE]
  BY <1>1, <1>2
<1> HIDE DEF r
<1>4. r \in Seq(Item) /\ Len(r) = Len(q)
  <2>1. r \in Seq(Item)
    BY <1>1, <1>3, SeqDef
  <2>2. DOMAIN r = 1..Len(q) /\ DOMAIN r = 1..Len(r) /\ Len(r) \in Nat
    BY <1>3, <2>1, LenProperties
  <2> QED
    BY <1>1, <2>1, <2>2
<1>5. Marker \in Item
  BY Items
<1>6. /\ Append(r, Marker) \in Seq(Item) /\ Len(Append(r, Marker)) = Len(q) + 1
      /\ \A j \in 1..Len(q) : Append(r, Marker)[j] = r[j]
      /\ Append(r, Marker)[Len(q) + 1] = Marker
  BY <1>4, <1>5, AppendProperties
<1>7. Block(q) = Append(r, Marker)
  BY DEF Block, r
<1>8. Block(q) \in Seq(Item) /\ Len(Block(q)) = Len(q) + 1 /\ Block(q)[Len(q) + 1] = Marker
  BY <1>6, <1>7
<1>9. ASSUME NEW j \in 1..Len(q)
      PROVE  Block(q)[j].key = q[j].key /\ Block(q)[j].unique = q[j].unique /\ ~Block(q)[j].eob
  <2>1. Block(q)[j] = [q[j] EXCEPT !.eob = FALSE]
    BY <1>3, <1>6, <1>7
  <2> QED
    BY <1>2, <2>1
<1> QED
  BY <1>8, <1>9

(* What a block that is written on the current file adds to it. *)
LEMMA Spilled ==
  ASSUME Engine, pc = "sorted"
  PROVE  LET d == destination_file
             f == Written(source)
             n == Len(file[d].data)
             m == Len(queue[source])
         IN
         /\ d \in 0..1 /\ d \in Four /\ f \in [Four -> File]
         /\ \A i \in Four \ {d} : f[i] = file[i]
         /\ file[d].at = 1 /\ f[d].at = 1 /\ f[d].count = file[d].count + 1
         /\ file[d].count \in Nat /\ n \in Nat /\ m \in Nat
         /\ Len(f[d].data) = n + m + 1
         /\ \A j \in 1..n : f[d].data[j] = file[d].data[j]
         /\ \A j \in 1..m : /\ f[d].data[n + j].key = queue[source][j].key
                            /\ f[d].data[n + j].unique = queue[source][j].unique
                            /\ ~f[d].data[n + j].eob
         /\ f[d].data[n + m + 1] = Marker
         /\ Blocks(f[d].data, 1) = Blocks(file[d].data, 1) + 1
         /\ Closed(f[d].data) /\ RisingFrom(f[d].data, 1)
<1> DEFINE d == destination_file
           f == Written(source)
           s == file[d].data
           q == queue[source]
           n == Len(s)
           m == Len(q)
           t == s \o Block(q)
           c == Increment(file[d].count)
<1>0. /\ FilesWait /\ InQueues /\ file \in [Four -> File] /\ d \in 0..1 /\ d \in Four
      /\ setup \in Setups /\ unique \in 0..Len(setup.choices)
      /\ q \in Seq(Item) /\ Single(q)
  BY OneQueue DEF Engine, Queues, Shapes, Four
<1>1. /\ file[d] \in File /\ s \in Seq(Item) /\ file[d].at = 1
      /\ Closed(s) /\ RisingFrom(s, 1)
  BY <1>0 DEF FilesWait, File
<1>2. n \in Nat /\ m \in Nat
  BY <1>0, <1>1, LenProperties
<1>3. c \in 0..SizeMax /\ c = file[d].count + 1 /\ file[d].count \in Nat
  <2>1. SizeMax \in Nat \ {0} /\ Len(setup.choices) \in Nat /\ Len(setup.choices) <= SizeMax
    BY <1>0, Program
  <2>2. file[0].count \in 0..SizeMax /\ file[1].count \in 0..SizeMax
    BY <1>0 DEF File, Four
  <2>3. file[0].count = file[1].count + d /\ file[0].count + file[1].count <= unique
    BY <1>0 DEF FilesWait
  <2> DEFINE k == file[d].count
  <2>4. k \in 0..SizeMax /\ k # SizeMax
    <3>1. CASE d = 0
      BY <1>0, <2>1, <2>2, <2>3, <3>1
    <3>2. CASE d = 1
      BY <1>0, <2>1, <2>2, <2>3, <3>2
    <3> QED
      BY <1>0, <3>1, <3>2
  <2>5. c = IF k = SizeMax THEN 0 ELSE k + 1
    BY DEF Increment
  <2> HIDE DEF k, c
  <2>6. c = k + 1 /\ c \in 0..SizeMax /\ k \in Nat
    BY <2>1, <2>4, <2>5
  <2> QED
    BY <2>6 DEF k
<1> DEFINE b == Block(q)
<1>b. b \in Seq(Item) /\ Len(b) = m + 1 /\ b[m + 1] = Marker
  BY <1>0, BlockIs
<1>e. \A j \in 1..m : b[j].key = q[j].key /\ b[j].unique = q[j].unique /\ ~b[j].eob
  BY <1>0, BlockIs
<1>t. t = s \o b /\ n = Len(s) /\ m = Len(q)
  OBVIOUS
<1>6. f = [file EXCEPT ![d] = [[@ EXCEPT !.data = t] EXCEPT !.count = c]]
  BY DEF Written
<1>r. file[d] = [data |-> s, at |-> 1, count |-> file[d].count, tail |-> file[d].tail]
      /\ file[d].tail \in BOOLEAN
  BY <1>1 DEF File
<1> HIDE DEF d, f, s, q, n, m, t, c, b
<1>4. /\ t \in Seq(Item) /\ Len(t) = n + m + 1
      /\ \A j \in 1..n : t[j] = s[j]
      /\ \A j \in 1..m : t[n + j] = b[j]
      /\ t[n + m + 1] = Marker
  <2>2. /\ t \in Seq(Item) /\ Len(t) = Len(s) + Len(b)
        /\ \A i \in 1..Len(s) + Len(b) : t[i] = IF i <= Len(s) THEN s[i] ELSE b[i - Len(s)]
    BY <1>1, <1>b, <1>t, ConcatProperties
  <2>3. Len(t) = n + m + 1
    <3>1. Len(t) = n + (m + 1)
      BY <1>b, <1>t, <2>2
    <3> QED
      BY <1>2, <3>1
  <2>4. \A i \in 1..n + m + 1 : t[i] = IF i <= n THEN s[i] ELSE b[i - n]
    BY <1>2, <1>b, <1>t, <2>2
  <2>5. \A j \in 1..n : t[j] = s[j]
    BY <1>2, <2>4
  <2>6. ASSUME NEW j \in 1..m + 1 PROVE t[n + j] = b[j]
    <3>1. n + j \in 1..n + m + 1 /\ ~(n + j <= n) /\ (n + j) - n = j
      BY <1>2
    <3> QED
      BY <2>4, <3>1
  <2>7. t[n + m + 1] = Marker
    <3>1. m + 1 \in 1..m + 1 /\ n + (m + 1) = n + m + 1
      BY <1>2
    <3>2. t[n + (m + 1)] = b[m + 1]
      BY <2>6, <3>1
    <3> QED
      BY <1>b, <3>1, <3>2
  <2>8. \A j \in 1..m : j \in 1..m + 1
    BY <1>2
  <2> QED
    BY <2>2, <2>3, <2>5, <2>6, <2>7, <2>8
<1>5. \A j \in 1..m : /\ t[n + j].key = q[j].key /\ t[n + j].unique = q[j].unique
                      /\ ~t[n + j].eob
  BY <1>4, <1>e
<1>7. /\ f[d] = [[file[d] EXCEPT !.data = t] EXCEPT !.count = c]
      /\ \A i \in Four \ {d} : f[i] = file[i]
  BY <1>0, <1>6
<1>8. /\ f[d] \in File /\ f[d].data = t /\ f[d].count = c /\ f[d].at = 1
  <2> DEFINE g == [file[d] EXCEPT !.data = t]
  <2>0. g = [data |-> t, at |-> 1, count |-> file[d].count, tail |-> file[d].tail]
    BY <1>r
  <2>a. f[d] = [g EXCEPT !.count = c]
    BY <1>7
  <2> HIDE DEF g
  <2>1. f[d] = [data |-> t, at |-> 1, count |-> c, tail |-> file[d].tail]
    BY <2>0, <2>a
  <2> QED
    BY <1>3, <1>4, <1>r, <2>1 DEF File
<1>9. f \in [Four -> File]
  BY <1>0, <1>6, <1>7, <1>8
<1>10. Blocks(t, 1) = Blocks(s, 1) + 1 /\ Closed(t) /\ RisingFrom(t, 1)
  <2>1. t[n + m + 1].eob
    BY <1>4 DEF Marker
  <2>2. Len(t) = Len(s) + Len(q) + 1 /\ t[Len(s) + Len(q) + 1].eob
    BY <1>4, <1>t, <2>1
  <2>3. \A j \in 1..Len(s) : t[j] = s[j]
    BY <1>4, <1>t
  <2>4. \A j \in 1..Len(q) : /\ t[Len(s) + j].key = q[j].key
                             /\ t[Len(s) + j].unique = q[j].unique
                             /\ ~t[Len(s) + j].eob
    BY <1>5, <1>t
  <2>5. s \in Seq(Item) /\ q \in Seq(Item) /\ t \in Seq(Item) /\ Closed(s) /\ Single(q)
    BY <1>0, <1>1, <1>4
  <2>6. RisingFrom(s, 1)
    BY <1>1
  <2>7. /\ Blocks(t, 1) = Blocks(s, 1) + 1 /\ Closed(t)
        /\ RisingFrom(s, 1) => RisingFrom(t, 1)
    BY <2>2, <2>3, <2>4, <2>5, BlockWritten
  <2> QED
    BY <2>6, <2>7
<1> QED
  BY <1>0, <1>1, <1>2, <1>3, <1>4, <1>5, <1>7, <1>8, <1>9, <1>10 DEF d, f, s, q, n, m

(* What a spill leaves on the files is records and markers. *)
LEMMA SpilledItems ==
  ASSUME Engine, pc = "sorted"
  PROVE  \A i \in Four :
           /\ Written(source)[i].at <= Len(Written(source)[i].data) + 1
           /\ \A j \in 1..Len(Written(source)[i].data) :
                IF Written(source)[i].data[j].eob THEN Written(source)[i].data[j] = Marker
                ELSE IsRecord(Written(source)[i].data[j])
<1> DEFINE d == destination_file
           f == Written(source)
           n == Len(file[d].data)
           m == Len(queue[source])
<1>1. /\ \A i \in Four \ {d} : f[i] = file[i]
      /\ f[d].at = 1 /\ n \in Nat /\ m \in Nat /\ Len(f[d].data) = n + m + 1
      /\ \A j \in 1..n : f[d].data[j] = file[d].data[j]
      /\ \A j \in 1..m : /\ f[d].data[n + j].key = queue[source][j].key
                         /\ f[d].data[n + j].unique = queue[source][j].unique
                         /\ ~f[d].data[n + j].eob
      /\ f[d].data[n + m + 1] = Marker /\ d \in Four
  BY Spilled
<1>2. /\ \A i \in Four : file[i].at <= Len(file[i].data) + 1
      /\ \A i \in Four : \A j \in 1..Len(file[i].data) :
           IF file[i].data[j].eob THEN file[i].data[j] = Marker ELSE IsRecord(file[i].data[j])
      /\ \A j \in 1..m : IsRecord(queue[source][j])
  BY OneQueue DEF Engine, Shapes, GoodItems
<1>n. n = Len(file[d].data) /\ m = Len(queue[source])
  OBVIOUS
<1> HIDE DEF f, d, n, m
<1>3. f[d].at <= Len(f[d].data) + 1
  BY <1>1
<1>4. ASSUME NEW j \in 1..Len(f[d].data)
      PROVE  IF f[d].data[j].eob THEN f[d].data[j] = Marker ELSE IsRecord(f[d].data[j])
  <2>1. CASE j \in 1..n
    BY <1>1, <1>2, <1>n, <2>1
  <2>2. CASE j = n + m + 1
    BY <1>1, <2>2 DEF Marker
  <2>3. CASE j \notin 1..n /\ j # n + m + 1
    <3>1. j \in Nat /\ j >= 1 /\ j <= n + m + 1
      BY <1>1
    <3>2. j - n \in 1..m /\ n + (j - n) = j
      BY <1>1, <2>3, <3>1
    <3>3. /\ f[d].data[j].key = queue[source][j - n].key
          /\ f[d].data[j].unique = queue[source][j - n].unique
          /\ ~f[d].data[j].eob
      BY <1>1, <3>2
    <3>4. IsRecord(queue[source][j - n])
      BY <1>2, <3>2
    <3> QED
      BY <3>3, <3>4 DEF IsRecord
  <2> QED
    BY <2>1, <2>2, <2>3
<1>5. ASSUME NEW i \in Four
      PROVE  /\ f[i].at <= Len(f[i].data) + 1
             /\ \A j \in 1..Len(f[i].data) :
                  IF f[i].data[j].eob THEN f[i].data[j] = Marker ELSE IsRecord(f[i].data[j])
  <2>1. CASE i = d
    BY <1>3, <1>4, <2>1
  <2>2. CASE i # d
    BY <1>1, <1>2, <2>2
  <2> QED
    BY <2>1, <2>2
<1> QED
  BY <1>5 DEF f

(* A sorted queue becomes a block of the file whose turn it is. *)
LEMMA SubmitSortedKeeps ==
  ASSUME IInv, SubmitSorted, UNCHANGED <<setup, using>>
  PROVE  Engine'
<1> DEFINE d == destination_file
           f == Written(source)
           q == [queue EXCEPT ![source] = <<>>]
           e == Freed(source)
<1>0. /\ Engine /\ pc = "sorted" /\ cont = "submit" /\ Shapes /\ Stages /\ FilesWait /\ InMemory
      /\ setup \in Setups /\ memory \in Nat /\ unique \in Nat /\ empty \in Nat
  <2>1. /\ Engine /\ pc = "sorted" /\ cont = "submit" /\ Shapes /\ Stages /\ FilesWait /\ InMemory
        /\ setup \in Setups /\ memory = setup.memory /\ unique \in 0..Len(setup.choices)
        /\ empty \in Nat
    BY DEF IInv, Engine, Queues, Shapes, SubmitSorted
  <2> QED
    BY <2>1, Program
<1>1. /\ InQueues /\ source \in Four /\ queue \in [Four -> Seq(Item)]
      /\ \A i \in Four \ {source} : queue[i] = <<>>
      /\ Live = Len(queue[source]) /\ Live \in Nat
  BY <1>0, OneQueue
<1>2. /\ ~retrieving /\ files_used /\ pending \in Keys /\ unique < Len(setup.choices)
      /\ Submitting
  BY <1>0 DEF Stages, Loop, Submitting
<1>3. Pushable(q) /\ Len(q[0]) = 0 /\ Len(q[1]) = 0 /\ \A i \in Four : q[i] = <<>>
  <2>1. \A i \in Four : q[i] = <<>>
    BY <1>1
  <2>2. Len(q[0]) = 0 /\ Len(q[1]) = 0
    BY <2>1 DEF Four
  <2>3. q \in [Four -> Seq(Item)]
    BY <1>1
  <2>4. \A i \in 0..1 : Len(q[i]) = 0
    BY <2>2
  <2> HIDE DEF q
  <2>5. \A i \in 0..1 : 1..Len(q[i]) = {}
    BY <2>4
  <2>6. \A i \in 0..1 : \A j \in 1..Len(q[i]) : q[i][j].eob
    BY <2>5
  <2> QED
    BY <2>1, <2>2, <2>3, <2>6 DEF Pushable, Balanced, Four
<1>4. \A i \in Four : \A j \in 1..Len(q[i]) : IsRecord(q[i][j])
  <2>1. \A i \in Four : Len(q[i]) = 0
    BY <1>3
  <2> HIDE DEF q
  <2>2. \A i \in Four : 1..Len(q[i]) = {}
    BY <2>1
  <2> QED
    BY <2>2
<1>5. /\ e = empty + Live /\ e \in Nat
      /\ 0 + 0 + 1 + NewItem(e) <= (IF memory = 0 THEN 1 ELSE memory)
      /\ 0 + 0 + NewItem(e) <= unique
      /\ files_used => 0 + 0 + 1 + NewItem(e) >= memory
  <2>1. e = empty + Live
    BY <1>1 DEF Freed
  <2>2. /\ Live + empty <= IF memory = 0 THEN 1 ELSE memory
        /\ Live + empty <= unique
        /\ Live + empty >= memory
    BY <1>0, <1>2 DEF InMemory
  <2> DEFINE l == Live
  <2>3. l \in Nat /\ e = empty + l /\ l + empty <= (IF memory = 0 THEN 1 ELSE memory)
        /\ l + empty <= unique /\ l + empty >= memory
    BY <1>1, <2>1, <2>2
  <2> HIDE DEF l, e
  <2>4. e \in Nat /\ e <= (IF memory = 0 THEN 1 ELSE memory) /\ e <= unique /\ e >= memory
    BY <1>0, <2>3
  <2>5. CASE e > 0
    BY <1>0, <2>1, <2>4, <2>5 DEF NewItem
  <2>6. CASE e = 0
    BY <1>0, <2>1, <2>4, <2>6 DEF NewItem
  <2> QED
    BY <2>4, <2>5, <2>6
<1>6. /\ Len(q[0]) + Len(q[1]) + 1 + NewItem(e) <= (IF memory = 0 THEN 1 ELSE memory)
      /\ Len(q[0]) + Len(q[1]) + NewItem(e) <= unique
      /\ files_used => Len(q[0]) + Len(q[1]) + 1 + NewItem(e) >= memory
  BY <1>3, <1>5
<1>7. /\ file' = f /\ destination_file' = 1 - d /\ Push(pending, q, e)
      /\ pc' = "idle" /\ cont' \in {"none", "submit", "retrieve"} /\ ret' = 0
      /\ UNCHANGED <<setup, using, memory, retrieving, files_used, retrieval_queue, local, pending,
                     out, sort_return, failed>>
  BY DEF SubmitSorted
<1>8. /\ d \in 0..1 /\ f \in [Four -> File] /\ \A i \in Four \ {d} : f[i] = file[i]
      /\ file[d].at = 1 /\ f[d].at = 1 /\ f[d].count = file[d].count + 1 /\ file[d].count \in Nat
      /\ Blocks(f[d].data, 1) = Blocks(file[d].data, 1) + 1
      /\ Closed(f[d].data) /\ RisingFrom(f[d].data, 1)
  BY <1>0, Spilled
<1>9. /\ \A i \in Four : f[i].at <= Len(f[i].data) + 1
      /\ \A i \in Four : \A j \in 1..Len(f[i].data) :
           IF f[i].data[j].eob THEN f[i].data[j] = Marker ELSE IsRecord(f[i].data[j])
  BY <1>0, SpilledItems
<1>u. unique' = unique + 1
  BY <1>7 DEF Push
<1> HIDE DEF f, q, e, d
<1>10. FilesWait'
  <2>1. /\ file[2] = NoFile /\ file[3] = NoFile
        /\ \A i \in 0..1 : /\ file[i].at = 1
                           /\ file[i].count = Blocks(file[i].data, 1)
                           /\ Closed(file[i].data)
                           /\ RisingFrom(file[i].data, 1)
        /\ file[0].count = file[1].count + d
        /\ file[0].count + file[1].count <= unique
    BY <1>0, <1>1 DEF FilesWait, d
  <2>2. file'[2] = NoFile /\ file'[3] = NoFile
    <3>1. 2 \in Four \ {d} /\ 3 \in Four \ {d}
      BY <1>8 DEF Four
    <3> QED
      BY <1>7, <1>8, <2>1, <3>1
  <2>3. \A i \in 0..1 : /\ file'[i].at = 1
                        /\ file'[i].count = Blocks(file'[i].data, 1)
                        /\ Closed(file'[i].data)
                        /\ RisingFrom(file'[i].data, 1)
    <3> SUFFICES ASSUME NEW i \in 0..1
                 PROVE  /\ f[i].at = 1 /\ f[i].count = Blocks(f[i].data, 1)
                        /\ Closed(f[i].data) /\ RisingFrom(f[i].data, 1)
      BY <1>7
    <3>1. CASE i = d
      BY <1>8, <2>1, <3>1
    <3>2. CASE i # d
      BY <1>8, <2>1, <3>2 DEF Four
    <3> QED
      BY <3>1, <3>2
  <2>4. /\ file'[0].count = file'[1].count + destination_file'
        /\ file'[0].count + file'[1].count <= unique'
        /\ file'[0].count >= 1
    <3>1. file[0].count \in Nat /\ file[1].count \in Nat
      <4>1. file[0].count \in 0..SizeMax /\ file[1].count \in 0..SizeMax /\ SizeMax \in Nat
        BY <1>0, Program DEF Shapes, File, Four
      <4> QED
        BY <4>1
    <3>2. CASE d = 0
      <4>1. file'[1].count = file[1].count /\ file'[0].count = file[0].count + 1
        BY <1>7, <1>8, <3>2 DEF Four
      <4> QED
        BY <1>0, <1>7, <1>u, <2>1, <3>1, <3>2, <4>1
    <3>3. CASE d = 1
      <4>1. file'[0].count = file[0].count /\ file'[1].count = file[1].count + 1
        BY <1>7, <1>8, <3>3 DEF Four
      <4> QED
        BY <1>0, <1>7, <1>u, <2>1, <3>1, <3>3, <4>1
    <3> QED
      BY <1>8, <3>2, <3>3
  <2>5. files_used'
    BY <1>2, <1>7
  <2> QED
    BY <2>2, <2>3, <2>4, <2>5 DEF FilesWait
<1>11. destination_file' \in 0..1
  BY <1>7, <1>8
<1> QED
  BY <1>0, <1>1, <1>2, <1>3, <1>4, <1>5, <1>6, <1>7, <1>8, <1>9, <1>10, <1>11, PushKeeps

(* A file has failed: nothing is promised of queues and files. *)
LEMMA FailsKeeps ==
  ASSUME IInv, SubmitFails \/ ProcessFails, UNCHANGED <<setup, using>>
  PROVE  Engine'
<1>0. /\ Engine /\ Shapes /\ Stages /\ InMemory /\ GoodItems
      /\ Refuse /\ failed' = TRUE /\ pc' = "broken"
      /\ UNCHANGED <<setup, using, engine, queue, empty, file, cont, local, pending>>
  BY DEF IInv, Engine, SubmitFails, ProcessFails
<1>1. /\ ret' = 30 /\ sort_return' \in {0, 16} /\ out' = out
      /\ sort_return' = 16 \/ (using /\ ~retrieving)
  <2>1. sort_return \in {0, 16}
    BY <1>0 DEF Shapes
  <2>2. ret' = 30 /\ out' = out
    BY <1>0 DEF Refuse
  <2>3. CASE using /\ ~retrieving
    BY <1>0, <2>1, <2>2, <2>3 DEF Refuse
  <2>4. CASE ~(using /\ ~retrieving)
    BY <1>0, <2>1, <2>2, <2>4 DEF Refuse
  <2> QED
    BY <2>3, <2>4
<1>2. ~InQueues' /\ ~Merging' /\ ~Reading' /\ pc' \notin Loop
  BY <1>0 DEF InQueues, Merging, Reading, Loop
<1>3. Shapes'
  <2>1. pc' \in Loop \cup {"idle", "filepass", "filepair", "filemove", "retrieve", "crashed", "broken"}
    BY <1>0
  <2>2. failed' \in BOOLEAN /\ ret' \in {0, 10, 30}
    BY <1>0, <1>1
  <2> QED
    BY <1>0, <1>1, <2>1, <2>2, SameTypes DEF Shapes, engine, local
<1>4. Stages'
  BY <1>0, <1>1, <1>2 DEF Stages, engine
<1>5. InMemory' /\ GoodItems'
  BY <1>0, <1>2 DEF InMemory, GoodItems, IsRecord, Live, Sum4, engine
<1>6. Queues' /\ Files'
  BY <1>2, NoQueuesNext, NoFilesNext
<1> QED
  BY <1>3, <1>4, <1>5, <1>6 DEF Engine

(* One sorted queue is left for RETURN. *)
LEMMA SortedInMemoryKeeps ==
  ASSUME IInv, SortedInMemory, UNCHANGED <<setup, using>>
  PROVE  Engine'
<1>0. /\ Engine /\ Shapes /\ Stages /\ InMemory /\ GoodItems /\ FilesWait /\ QueuesRise
      /\ pc = "sorted" /\ cont = "retrieve" /\ ~files_used /\ retrieval_queue' = source
      /\ pc' = "retrieve" /\ source \in {0, 2}
      /\ UNCHANGED <<setup, using, memory, unique, retrieving, files_used, destination_file, queue,
                     empty, file, cont, local, pending, reply>>
  BY DEF IInv, Engine, Queues, Shapes, SortedInMemory
<1>1. /\ InQueues /\ InQueues' /\ ~Merging' /\ ~Reading' /\ pc' \notin Loop /\ retrieving
      /\ \A i \in Four \ {source} : queue[i] = <<>>
      /\ Single(queue[source])
  <2>1. retrieving
    BY <1>0 DEF Stages, Loop
  <2>2. InQueues /\ (\A i \in Four \ {source} : queue[i] = <<>>) /\ Single(queue[source])
    BY <1>0, OneQueue
  <2> QED
    BY <1>0, <2>1, <2>2 DEF InQueues, Merging, Reading, Loop
<1>2. Shapes'
  <2>1. pc' \in Loop \cup {"idle", "filepass", "filepair", "filemove", "retrieve", "crashed", "broken"}
    BY <1>0
  <2> QED
    BY <1>0, <2>1, SameTypes DEF Shapes, local, reply
<1>3. Stages'
  BY <1>0, <1>1 DEF Stages, Loop, reply
<1>4. InMemory' /\ GoodItems'
  BY <1>0, <1>1 DEF InMemory, GoodItems, IsRecord, Live, Sum4
<1>5. Files'
  BY <1>1, NoFilesNext
<1>6. FilesWait' /\ QueuesRise'
  BY <1>0, <1>1 DEF FilesWait, QueuesRise, Submitting
<1>7. QueuesOut'
  BY <1>0, <1>1 DEF QueuesOut
<1>8. QueuesIdle' /\ QueuesPass' /\ QueuesPair' /\ QueuesMove' /\ QueuesSorted'
  BY <1>0 DEF QueuesIdle, QueuesPass, QueuesPair, QueuesMove, QueuesSorted
<1> QED
  BY <1>2, <1>3, <1>4, <1>5, <1>6, <1>7, <1>8 DEF Engine, Queues

(* What RETURN takes from the sorted queue. *)
LEMMA TakenFromQueue ==
  ASSUME Engine, RetrieveFromQueue
  PROVE  LET s == queue[retrieval_queue] IN
         /\ pc = "retrieve" /\ retrieving /\ ~files_used /\ InQueues /\ ~OnFiles /\ retrieval_queue \in Four
         /\ queue \in [Four -> Seq(Item)] /\ s \in Seq(Item) /\ Single(s)
         /\ \A j \in 1..Len(s) : IsRecord(s[j])
         /\ \A i \in Four \ {retrieval_queue} : queue[i] = <<>>
         /\ \A i \in Four : file[i].data = <<>> /\ file[i].at = 1
         /\ s # <<>> =>
              /\ Len(s) \in Nat \ {0} /\ 1 \in 1..Len(s)
              /\ queue' \in [Four -> Seq(Item)] /\ queue'[retrieval_queue] = Tail(s)
              /\ Len(Tail(s)) = Len(s) - 1 /\ \A j \in 1..Len(s) - 1 : Tail(s)[j] = s[j + 1]
              /\ \A i \in Four \ {retrieval_queue} : queue'[i] = <<>>
              /\ empty' = empty + 1 /\ Deliver(s[1])
<1> DEFINE r == retrieval_queue
           s == queue[r]
<1>0. /\ pc = "retrieve" /\ retrieving /\ ~files_used /\ r \in Four /\ queue \in [Four -> Seq(Item)]
  BY DEF RetrieveFromQueue, Engine, Shapes, Stages, Four
<1>1. InQueues /\ ~OnFiles
  BY <1>0 DEF InQueues, OnFiles
<1>2. s \in Seq(Item) /\ Single(s) /\ (\A j \in 1..Len(s) : IsRecord(s[j]))
      /\ \A i \in Four \ {r} : queue[i] = <<>>
  BY <1>0, <1>1 DEF Engine, Queues, QueuesOut, GoodItems
<1>3. \A i \in Four : file[i].data = <<>> /\ file[i].at = 1
  <2>1. /\ file[2] = NoFile /\ file[3] = NoFile /\ \A i \in 0..1 : file[i].at = 1
        /\ file[0].data = <<>> /\ file[1].data = <<>>
    BY <1>0, <1>1 DEF Engine, Queues, FilesWait
  <2>2. file[2].data = <<>> /\ file[2].at = 1 /\ file[3].data = <<>> /\ file[3].at = 1
    BY <2>1 DEF NoFile
  <2> QED
    BY <2>1, <2>2 DEF Four
<1>4. ASSUME s # <<>>
      PROVE  /\ Len(s) \in Nat \ {0} /\ 1 \in 1..Len(s)
             /\ queue' \in [Four -> Seq(Item)] /\ queue'[r] = Tail(s)
             /\ Len(Tail(s)) = Len(s) - 1 /\ \A j \in 1..Len(s) - 1 : Tail(s)[j] = s[j + 1]
             /\ \A i \in Four \ {r} : queue'[i] = <<>>
             /\ empty' = empty + 1 /\ Deliver(s[1])
  <2>1. /\ queue' = [queue EXCEPT ![r] = Tail(@)] /\ empty' = empty + 1 /\ Deliver(s[1])
    BY <1>4 DEF RetrieveFromQueue
  <2>2. Len(s) \in Nat \ {0} /\ 1 \in 1..Len(s)
    BY <1>2, <1>4, ItemsOf
  <2>3. Tail(s) \in Seq(Item) /\ Len(Tail(s)) = Len(s) - 1 /\ \A j \in 1..Len(s) - 1 : Tail(s)[j] = s[j + 1]
    BY <1>2, <1>4, HeadTailProperties
  <2>4. queue' \in [Four -> Seq(Item)] /\ queue'[r] = Tail(s) /\ \A i \in Four \ {r} : queue'[i] = queue[i]
    BY <1>0, <2>1, <2>3
  <2> QED
    BY <1>2, <2>1, <2>2, <2>3, <2>4
<1> QED
  BY <1>0, <1>1, <1>2, <1>3, <1>4

(* RETURN takes the head of the sorted queue, or says AT END. *)
LEMMA RetrieveFromQueueKeeps ==
  ASSUME IInv, RetrieveFromQueue, UNCHANGED <<setup, using>>
  PROVE  Engine'
<1> DEFINE r == retrieval_queue
           s == queue[r]
<1>0. /\ Engine /\ Shapes /\ Stages /\ InMemory /\ GoodItems /\ FilesWait
      /\ pc' = "idle" /\ r \in {0, 2} /\ empty \in Nat /\ setup \in Setups /\ unique \in Nat
      /\ UNCHANGED <<setup, using, engine, file, cont, local, pending, sort_return, failed>>
  <2>1. /\ Engine /\ Shapes /\ Stages /\ InMemory /\ GoodItems /\ FilesWait
        /\ pc' = "idle" /\ r \in {0, 2} /\ empty \in Nat /\ setup \in Setups
        /\ unique \in 0..Len(setup.choices)
        /\ UNCHANGED <<setup, using, engine, file, cont, local, pending, sort_return, failed>>
    BY DEF IInv, Engine, Queues, Shapes, RetrieveFromQueue
  <2> QED
    BY <2>1
<1>1. /\ pc = "retrieve" /\ retrieving /\ ~files_used /\ InQueues
      /\ s \in Seq(Item) /\ Single(s) /\ (\A j \in 1..Len(s) : IsRecord(s[j]))
      /\ \A i \in Four \ {r} : queue[i] = <<>>
      /\ s # <<>> =>
           /\ Len(s) \in Nat \ {0} /\ 1 \in 1..Len(s)
           /\ queue' \in [Four -> Seq(Item)] /\ queue'[r] = Tail(s)
           /\ Len(Tail(s)) = Len(s) - 1 /\ \A j \in 1..Len(s) - 1 : Tail(s)[j] = s[j + 1]
           /\ \A i \in Four \ {r} : queue'[i] = <<>>
           /\ empty' = empty + 1 /\ Deliver(s[1])
  BY <1>0, TakenFromQueue
<1>2. CASE s = <<>>
  <2>1. ret' = 10 /\ out' = out /\ UNCHANGED <<queue, empty>>
    BY <1>2 DEF RetrieveFromQueue, End
  <2>2. sort_return \in {0, 16}
    BY <1>0 DEF Shapes
  <2> QED
    BY <1>0, <1>1, <2>1, <2>2, Answers
<1>3. CASE s # <<>>
  <2>0. /\ Len(s) \in Nat \ {0} /\ 1 \in 1..Len(s)
        /\ queue' \in [Four -> Seq(Item)] /\ queue'[r] = Tail(s)
        /\ Len(Tail(s)) = Len(s) - 1 /\ \A j \in 1..Len(s) - 1 : Tail(s)[j] = s[j + 1]
        /\ \A i \in Four \ {r} : queue'[i] = <<>>
        /\ empty' = empty + 1
        /\ out' = Append(out, [key |-> s[1].key, unique |-> s[1].unique]) /\ ret' = 0
    BY <1>1, <1>3 DEF Deliver
  <2>1. /\ InQueues' /\ ~Merging' /\ ~Reading' /\ pc' \notin Loop
    BY <1>0, <1>1 DEF InQueues, Merging, Reading, Loop, engine
  <2>2. s[1].key \in Keys /\ s[1].unique \in 0..Len(setup.choices)
    <3>1. s[1].key \in Keys /\ s[1] \in Item
      BY <1>1, <2>0, ItemsOf DEF IsRecord
    <3> QED
      BY <3>1 DEF Item
  <2>3. Shapes'
    <3>1. pc' \in Loop \cup {"idle", "filepass", "filepair", "filemove", "retrieve", "crashed", "broken"}
      BY <1>0
    <3>2. out' \in Seq([key : Keys, unique : 0..Len(setup.choices)])
      <4>1. [key |-> s[1].key, unique |-> s[1].unique] \in [key : Keys, unique : 0..Len(setup.choices)]
        BY <2>2
      <4>2. out \in Seq([key : Keys, unique : 0..Len(setup.choices)])
        BY <1>0 DEF Shapes
      <4> QED
        BY <2>0, <4>1, <4>2, AppendProperties
    <3>3. empty' \in Nat /\ ret' \in {0, 10, 30}
      BY <1>0, <2>0
    <3> QED
      BY <1>0, <2>0, <3>1, <3>2, <3>3, SameTypes DEF Shapes, engine, local
  <2>4. Stages'
    BY <1>0, <1>1, <2>0, <2>1 DEF Stages, engine
  <2>5. Live + empty = Live' + empty'
    <3>1. Live = Len(queue[0]) + Len(queue[1]) + Len(queue[2]) + Len(queue[3])
      BY DEF Live, Sum4, Four
    <3>2. Live' = Len(queue'[0]) + Len(queue'[1]) + Len(queue'[2]) + Len(queue'[3])
      BY DEF Live, Sum4, Four
    <3>3. \A i \in Four \ {r} : Len(queue[i]) = 0 /\ Len(queue'[i]) = 0
      BY <1>1, <2>0
    <3>4. Live = Len(s) /\ Live' = Len(s) - 1
      <4>1. CASE r = 0
        <5>1. /\ Len(queue[1]) = 0 /\ Len(queue[2]) = 0 /\ Len(queue[3]) = 0
              /\ Len(queue'[1]) = 0 /\ Len(queue'[2]) = 0 /\ Len(queue'[3]) = 0
              /\ Len(queue'[0]) = Len(s) - 1 /\ Len(queue[0]) = Len(s)
          BY <2>0, <3>3, <4>1 DEF Four
        <5>2. Len(s) \in Nat /\ Len(s) - 1 \in Nat
          BY <2>0
        <5> HIDE DEF s
        <5>3. Live = Len(s)
          BY <3>1, <5>1, <5>2
        <5>4. Live' = Len(s) - 1
          BY <3>2, <5>1, <5>2
        <5> QED
          BY <5>3, <5>4
      <4>2. CASE r = 2
        <5>1. /\ Len(queue[1]) = 0 /\ Len(queue[0]) = 0 /\ Len(queue[3]) = 0
              /\ Len(queue'[1]) = 0 /\ Len(queue'[0]) = 0 /\ Len(queue'[3]) = 0
              /\ Len(queue'[2]) = Len(s) - 1 /\ Len(queue[2]) = Len(s)
          BY <2>0, <3>3, <4>2 DEF Four
        <5>2. Len(s) \in Nat /\ Len(s) - 1 \in Nat
          BY <2>0
        <5> HIDE DEF s
        <5>3. Live = Len(s)
          BY <3>1, <5>1, <5>2
        <5>4. Live' = Len(s) - 1
          BY <3>2, <5>1, <5>2
        <5> QED
          BY <5>3, <5>4
      <4> QED
        BY <1>0, <4>1, <4>2
    <3> HIDE DEF s
    <3> QED
      BY <1>0, <2>0, <3>4
  <2>6. InMemory'
    BY <1>0, <2>5 DEF InMemory, engine
  <2>7. \A i \in Four : i # r => Len(queue'[i]) = 0
    BY <2>0
  <2>8. \A i \in Four : \A j \in 1..Len(queue'[i]) : IsRecord(queue'[i][j])
    <3> SUFFICES ASSUME NEW i \in Four, NEW j \in 1..Len(queue'[i]) PROVE IsRecord(queue'[i][j])
      OBVIOUS
    <3>1. i = r
      BY <2>7
    <3>2. j \in 1..Len(s) - 1 /\ j + 1 \in 1..Len(s)
      BY <2>0, <3>1
    <3> QED
      BY <1>1, <2>0, <3>1, <3>2
  <2>9. GoodItems'
    BY <1>0, <2>1, <2>8 DEF GoodItems, IsRecord, engine
  <2>10. Files'
    BY <2>1, NoFilesNext
  <2>11. FilesWait'
    BY <1>0, <1>1, <2>1 DEF FilesWait, Submitting, engine, Loop
  <2>12. Single(Tail(s))
    <3> SUFFICES ASSUME NEW j \in 1..Len(Tail(s)) - 1 PROVE Less(Tail(s)[j], Tail(s)[j + 1])
      BY DEF Single
    <3>1. j \in 1..Len(s) - 1 /\ j + 1 \in 1..Len(s) - 1 /\ (j + 1) + 1 = j + 2
      BY <2>0
    <3>2. Tail(s)[j] = s[j + 1] /\ Tail(s)[j + 1] = s[(j + 1) + 1]
      BY <2>0, <3>1
    <3> QED
      BY <1>1, <3>1, <3>2 DEF Single
  <2>13. QueuesOut'
    BY <1>0, <2>0, <2>12 DEF QueuesOut, engine
  <2>14. QueuesRise'
    <3> SUFFICES ASSUME NEW i \in Four PROVE Rising(queue'[i])
      BY DEF QueuesRise
    <3>1. CASE i = r
      BY <2>0, <2>12, <3>1 DEF Rising, Single
    <3>2. CASE i # r
      <4>1. 1..Len(queue'[i]) - 1 = {}
        BY <2>7, <3>2
      <4> QED
        BY <4>1 DEF Rising
    <3> QED
      BY <3>1, <3>2
  <2>15. QueuesIdle' /\ QueuesPass' /\ QueuesPair' /\ QueuesMove' /\ QueuesSorted'
    BY <1>0, <1>1 DEF QueuesIdle, QueuesPass, QueuesPair, QueuesMove, QueuesSorted, engine
  <2> QED
    BY <2>3, <2>4, <2>6, <2>9, <2>10, <2>11, <2>13, <2>14, <2>15 DEF Engine, Queues
<1> QED
  BY <1>2, <1>3

-----------------------------------------------------------------------------
(* The steps of cob_file_sort_process over files.                          *)

LEMMA SortedOnFilesKeeps ==
  ASSUME IInv, SortedOnFiles, UNCHANGED <<setup, using>>
  PROVE  Engine'
<1> DEFINE d == destination_file
           f == Written(source)
           e == Freed(source)
<1>0. /\ Engine /\ pc = "sorted" /\ cont = "retrieve" /\ files_used /\ Shapes /\ Stages /\ FilesWait
      /\ InMemory /\ GoodItems
      /\ setup \in Setups /\ memory \in Nat /\ unique \in Nat /\ empty \in Nat
      /\ UNCHANGED <<setup, using, engine, cont, destination, ended, pending, reply>>
  <2>1. /\ Engine /\ pc = "sorted" /\ cont = "retrieve" /\ files_used /\ Shapes /\ Stages /\ FilesWait
        /\ InMemory /\ GoodItems /\ setup \in Setups /\ memory = setup.memory
        /\ unique \in 0..Len(setup.choices) /\ empty \in Nat
        /\ UNCHANGED <<setup, using, engine, cont, destination, ended, pending, reply>>
    BY DEF IInv, Engine, Queues, Shapes, SortedOnFiles
  <2> QED
    BY <2>1, Program
<1>1. /\ InQueues /\ source \in {0, 2} /\ Live = Len(queue[source]) /\ Live \in Nat
      /\ retrieving /\ ~Submitting
  <2>1. retrieving /\ ~Submitting
    BY <1>0 DEF Stages, Loop, Submitting
  <2> QED
    BY <1>0, <2>1, OneQueue
<1>2. e = empty + Live /\ e \in Nat /\ e >= memory
  <2>1. e = empty + Live
    BY <1>1 DEF Freed
  <2>2. Live + empty >= memory
    BY <1>0 DEF InMemory
  <2> DEFINE l == Live
  <2>3. l \in Nat /\ e = empty + l /\ l + empty >= memory
    BY <1>1, <2>1, <2>2
  <2> HIDE DEF l, e
  <2>4. e \in Nat /\ e >= memory
    BY <1>0, <2>3
  <2> QED
    BY <2>1, <2>4
<1>3. CASE e < 4
  <2>1. pc' = "crashed" /\ UNCHANGED <<queue, empty, file, source>>
    <3>1. ~(Freed(source) >= 4)
      BY <1>2, <1>3
    <3> QED
      BY <3>1 DEF SortedOnFiles
  <2>2. memory < 4
    <3> HIDE DEF e
    <3> QED
      BY <1>0, <1>2, <1>3
  <2>3. ~InQueues' /\ ~Merging' /\ ~Reading' /\ pc' \notin Loop
    BY <2>1 DEF InQueues, Merging, Reading, Loop
  <2>4. Shapes'
    <3>1. pc' \in Loop \cup {"idle", "filepass", "filepair", "filemove", "retrieve", "crashed", "broken"}
      BY <2>1
    <3> QED
      BY <1>0, <2>1, <3>1, SameTypes DEF Shapes, engine, reply
  <2>5. Stages'
    <3>1. ~failed /\ ret # 10
      BY <1>0 DEF Stages
    <3> QED
      BY <1>0, <2>1, <2>2, <2>3, <3>1 DEF Stages, engine, reply
  <2>6. InMemory' /\ GoodItems'
    BY <1>0, <2>1, <2>3 DEF InMemory, GoodItems, IsRecord, Live, Sum4, engine
  <2> QED
    BY <2>3, <2>4, <2>5, <2>6, NoQueuesNext, NoFilesNext DEF Engine
<1>4. CASE e >= 4
  <2>1. /\ queue' = [i \in Four |-> <<Marker>>] /\ empty' = e - 4 /\ file' = f /\ source' = 0
        /\ pc' = "filepass"
    BY <1>4 DEF SortedOnFiles
  <2>2. ~InQueues' /\ Merging' /\ ~Reading' /\ pc' \notin Loop
    BY <2>1 DEF InQueues, Merging, Reading, Loop
  <2>3. /\ d \in 0..1 /\ f \in [Four -> File] /\ \A i \in Four \ {d} : f[i] = file[i]
        /\ file[d].at = 1 /\ f[d].at = 1 /\ f[d].count = file[d].count + 1 /\ file[d].count \in Nat
        /\ Blocks(f[d].data, 1) = Blocks(file[d].data, 1) + 1
        /\ Closed(f[d].data) /\ RisingFrom(f[d].data, 1)
    BY <1>0, Spilled
  <2>4. /\ \A i \in Four : f[i].at <= Len(f[i].data) + 1
        /\ \A i \in Four : \A j \in 1..Len(f[i].data) :
             IF f[i].data[j].eob THEN f[i].data[j] = Marker ELSE IsRecord(f[i].data[j])
    BY <1>0, SpilledItems
  <2>5. /\ \A i \in Four : queue'[i] = <<Marker>>
        /\ <<Marker>> \in Seq(Item) /\ Len(<<Marker>>) = 1 /\ <<Marker>>[1] = Marker
        /\ queue' \in [Four -> Seq(Item)]
    <3>1. Marker \in Item
      BY <1>0, Items
    <3>2. <<Marker>> \in Seq(Item) /\ Len(<<Marker>>) = 1 /\ <<Marker>>[1] = Marker
      BY <3>1
    <3> QED
      BY <2>1, <3>2
  <2>6. \A i \in Four : Len(queue'[i]) = 1 /\ queue'[i][1].eob
    <3>1. Marker.eob
      BY DEF Marker
    <3> QED
      BY <2>5, <3>1
  <2> HIDE DEF f, e, d
  <2>7. Shapes'
    <3>1. pc' \in Loop \cup {"idle", "filepass", "filepair", "filemove", "retrieve", "crashed", "broken"}
      BY <2>1
    <3>2. empty' \in Nat /\ source' \in {0, 2}
      BY <1>2, <1>4, <2>1
    <3>3. file' \in [Four -> File] /\ \A i \in Four : file'[i].at <= Len(file'[i].data) + 1
      BY <2>1, <2>3, <2>4
    <3> QED
      BY <1>0, <2>5, <3>1, <3>2, <3>3, SameTypes DEF Shapes, engine, reply
  <2>8. Stages'
    <3>1. ~failed /\ ret # 10
      BY <1>0 DEF Stages
    <3> QED
      BY <1>0, <1>1, <2>1, <2>2, <3>1 DEF Stages, engine, reply
  <2>9. InMemory'
    <3>1. Live' = 4
      <4>1. Live' = Len(queue'[0]) + Len(queue'[1]) + Len(queue'[2]) + Len(queue'[3])
        BY DEF Live, Sum4, Four
      <4>2. Len(queue'[0]) = 1 /\ Len(queue'[1]) = 1 /\ Len(queue'[2]) = 1 /\ Len(queue'[3]) = 1
        BY <2>6 DEF Four
      <4> QED
        BY <4>1, <4>2
    <3>2. Live' + empty' = e
      BY <1>2, <1>4, <2>1, <3>1
    <3>3. Live' + empty' = Live + empty
      BY <1>0, <1>1, <1>2, <3>2
    <3> QED
      BY <1>0, <3>3 DEF InMemory, engine
  <2>10. GoodItems'
    BY <1>0, <2>1, <2>2, <2>4, <2>6 DEF GoodItems, IsRecord, engine
  <2>11. /\ file[2] = NoFile /\ file[3] = NoFile
         /\ \A i \in 0..1 : /\ file[i].at = 1
                            /\ file[i].count = Blocks(file[i].data, 1)
                            /\ Closed(file[i].data)
                            /\ RisingFrom(file[i].data, 1)
         /\ file[0].count = file[1].count + d
         /\ file[0].count >= 1
    BY <1>0, <1>1 DEF FilesWait, d
  <2>12. \A i \in 0..1 : /\ file'[i].at = 1
                         /\ file'[i].count = Blocks(file'[i].data, 1)
                         /\ Closed(file'[i].data)
                         /\ RisingFrom(file'[i].data, 1)
    <3> SUFFICES ASSUME NEW i \in 0..1
                 PROVE  /\ f[i].at = 1 /\ f[i].count = Blocks(f[i].data, 1)
                        /\ Closed(f[i].data) /\ RisingFrom(f[i].data, 1)
      BY <2>1
    <3>1. CASE i = d
      BY <2>3, <2>11, <3>1
    <3>2. CASE i # d
      BY <2>3, <2>11, <3>2 DEF Four
    <3> QED
      BY <3>1, <3>2
  <2>13. \A i \in 2..3 : file'[i].at = 1 /\ file'[i].data = <<>>
    <3> SUFFICES ASSUME NEW i \in 2..3 PROVE file'[i].at = 1 /\ file'[i].data = <<>>
      OBVIOUS
    <3>1. file'[i] = NoFile
      BY <2>1, <2>3, <2>11 DEF Four
    <3> QED
      BY <3>1 DEF NoFile
  <2>14. Closed(<<>>) /\ RisingFrom(<<>>, 1)
    <3>1. 1..Len(<<>>) - 1 = {}
      OBVIOUS
    <3> QED
      BY <3>1 DEF Closed, RisingFrom
  <2>15. \A i \in Four : file'[i].at = 1 /\ Closed(file'[i].data) /\ RisingFrom(file'[i].data, 1)
    BY <2>12, <2>13, <2>14 DEF Four
  <2>16. /\ Balanced(file'[0].count, file'[1].count)
         /\ file'[0].count + file'[1].count >= 2
    <3>1. file[0].count \in Nat /\ file[1].count \in Nat
      <4>1. file[0].count \in 0..SizeMax /\ file[1].count \in 0..SizeMax /\ SizeMax \in Nat
        BY <1>0, Program DEF Shapes, File, Four
      <4> QED
        BY <4>1
    <3>2. CASE d = 0
      <4>1. file'[1].count = file[1].count /\ file'[0].count = file[0].count + 1
        BY <2>1, <2>3, <3>2 DEF Four
      <4> QED
        BY <2>11, <3>1, <3>2, <4>1 DEF Balanced
    <3>3. CASE d = 1
      <4>1. file'[0].count = file[0].count /\ file'[1].count = file[1].count + 1
        BY <2>1, <2>3, <3>3 DEF Four
      <4> QED
        BY <2>11, <3>1, <3>3, <4>1 DEF Balanced
    <3> QED
      BY <2>3, <3>2, <3>3
  <2>17. FilesRise'
    BY <2>15 DEF FilesRise
  <2>18. FilesPass'
    <3>1. Target' = 2 /\ source' = 0
      BY <2>1 DEF Target
    <3>2. \A i \in 0..1 : Left(i)' = file'[i].count
      BY <2>12 DEF Left
    <3>3. Left(0)' = file'[0].count /\ Left(1)' = file'[1].count
      BY <3>2
    <3>4. \A i \in Four : First(i)'.eob
      BY <2>6 DEF First
    <3>5. /\ file'[0].count = Left(source)' /\ file'[0 + 1].count = Left(source + 1)'
          /\ Balanced(Left(source)', Left(source + 1)') /\ Left(source)' + Left(source + 1)' >= 2
      BY <2>16, <3>1, <3>3
    <3>6. file'[2].data = <<>> /\ file'[2 + 1].data = <<>>
      BY <2>13
    <3> QED
      BY <2>15, <3>1, <3>4, <3>5, <3>6 DEF FilesPass
  <2>19. FilesPair' /\ FilesMove' /\ FilesOut'
    BY <2>1, <2>2 DEF FilesPair, FilesMove, FilesOut
  <2> QED
    BY <2>2, <2>7, <2>8, <2>9, <2>10, <2>17, <2>18, <2>19, NoQueuesNext DEF Engine, Files
<1> QED
  BY <1>2, <1>3, <1>4

(* What reading the next item of a file that has a block left does. *)
LEMMA FileReads ==
  ASSUME setup \in Setups, NEW f \in [Four -> File], NEW i \in Four,
         Blocks(f[i].data, f[i].at) >= 1, f[i].at <= Len(f[i].data) + 1
  PROVE  LET s == f[i].data
             a == f[i].at
             g == Advance(f, i)
         IN
         /\ s \in Seq(Item) /\ a \in 1..Len(s) /\ Len(s) \in Nat
         /\ ReadItem(f, i) = s[a] /\ s[a] \in Item /\ ~Garbage(f, i)
         /\ g \in [Four -> File] /\ \A k \in Four \ {i} : g[k] = f[k]
         /\ g[i].data = s /\ g[i].at = a + 1 /\ g[i].count = f[i].count /\ g[i].at <= Len(s) + 1
         /\ Blocks(s, a + 1) \in Nat
         /\ Blocks(s, a) = Blocks(s, a + 1) + (IF s[a].eob THEN 1 ELSE 0)
         /\ RisingFrom(s, a) =>
              /\ RisingFrom(s, a + 1)
              /\ ~s[a].eob /\ a + 1 <= Len(s) /\ ~s[a + 1].eob => Less(s[a], s[a + 1])
<1> DEFINE s == f[i].data
           a == f[i].at
           g == Advance(f, i)
<1>1. f[i] \in File /\ s \in Seq(Item) /\ a \in Nat \ {0} /\ Len(s) \in Nat
  <2>1. f[i] \in File
    OBVIOUS
  <2>2. s \in Seq(Item) /\ a \in Nat \ {0}
    BY <2>1 DEF File
  <2> QED
    BY <2>1, <2>2, LenProperties
<1>2. a \in 1..Len(s)
  <2>1. ASSUME a > Len(s) PROVE FALSE
    <3>1. Blocks(s, a) = 0
      BY <1>1, <2>1, NoBlocks
    <3> QED
      BY <3>1
  <2> QED
    BY <1>1, <2>1
<1>3. s[a] \in Item
  BY <1>1, <1>2, ItemsOf
<1>4. ReadItem(f, i) = s[a] /\ ~Garbage(f, i)
  BY <1>1, <1>2 DEF ReadItem, Garbage
<1>5. g = [f EXCEPT ![i] = [@ EXCEPT !.at = a + 1]]
  BY <1>1, <1>2 DEF Advance
<1>6. /\ g[i] = [f[i] EXCEPT !.at = a + 1] /\ \A k \in Four \ {i} : g[k] = f[k]
  BY <1>5
<1>7. /\ g[i].data = s /\ g[i].at = a + 1 /\ g[i].count = f[i].count /\ g[i] \in File
  <2>1. f[i] = [data |-> s, at |-> a, count |-> f[i].count, tail |-> f[i].tail]
        /\ f[i].count \in 0..SizeMax /\ f[i].tail \in BOOLEAN
    BY <1>1 DEF File
  <2>2. a + 1 \in Nat \ {0}
    BY <1>1
  <2> HIDE DEF s, a, g
  <2>3. g[i] = [data |-> s, at |-> a + 1, count |-> f[i].count, tail |-> f[i].tail]
    BY <1>6, <2>1
  <2> QED
    BY <1>1, <2>1, <2>2, <2>3 DEF File
<1>8. g \in [Four -> File]
  <2>1. g = [f EXCEPT ![i] = g[i]]
    BY <1>5, <1>6
  <2> HIDE DEF g
  <2> QED
    BY <1>7, <2>1
<1>9. a + 1 <= Len(s) + 1 /\ a + 1 \in Nat
  BY <1>1, <1>2
<1>10. Blocks(s, a + 1) \in Nat
  BY <1>1, <1>9, BlocksFinite
<1>11. Blocks(s, a) = Blocks(s, a + 1) + (IF s[a].eob THEN 1 ELSE 0)
  BY <1>1, <1>2, BlocksAdvance
<1>12. ASSUME RisingFrom(s, a)
       PROVE  /\ RisingFrom(s, a + 1)
              /\ ~s[a].eob /\ a + 1 <= Len(s) /\ ~s[a + 1].eob => Less(s[a], s[a + 1])
  <2> HIDE DEF s, a, g
  <2>1. RisingFrom(s, a + 1)
    BY <1>1, <1>12 DEF RisingFrom
  <2>2. ASSUME ~s[a].eob, a + 1 <= Len(s), ~s[a + 1].eob PROVE Less(s[a], s[a + 1])
    <3>1. a \in a..Len(s) - 1
      BY <1>1, <2>2
    <3> QED
      BY <1>12, <2>2, <3>1 DEF RisingFrom
  <2> QED
    BY <2>1, <2>2
<1> QED
  BY <1>1, <1>2, <1>3, <1>4, <1>6, <1>7, <1>8, <1>9, <1>10, <1>11, <1>12

(* What every step of the merge of files keeps, and RETURN from files. *)
Merge == {"filepass", "filepair", "filemove"}

(* What is the same for all of them. *)
LEMMA MergeSteps ==
  ASSUME Engine, Merging \/ Reading,
         pc' \in Merge \cup {"idle", "retrieve"}, pc' \in Merge => cont = "retrieve",
         UNCHANGED <<setup, using, memory, unique, retrieving, files_used, destination_file, empty,
                     cont, pending, sort_return, failed>>,
         source' \in {0, 2}, destination' \in Four, ended' \in [0..1 -> BOOLEAN],
         retrieval_queue' \in {0, 2}, ret' \in {0, 10, 30}, ret' = 10 => pc' \in {"idle", "retrieve"},
         out' \in Seq([key : Keys, unique : 0..Len(setup.choices)]),
         queue' \in [Four -> Seq(Item)],
         \A i \in Four : Len(queue'[i]) = 1 /\ (~queue'[i][1].eob => IsRecord(queue'[i][1])),
         file' \in [Four -> File],
         \A i \in Four : /\ file'[i].at <= Len(file'[i].data) + 1
                         /\ RisingFrom(file'[i].data, file'[i].at)
                         /\ \A j \in 1..Len(file'[i].data) :
                              IF file'[i].data[j].eob THEN file'[i].data[j] = Marker
                              ELSE IsRecord(file'[i].data[j])
  PROVE  Shapes' /\ Stages' /\ InMemory' /\ GoodItems' /\ Queues' /\ FilesRise'
<1>0. /\ Shapes /\ Stages /\ InMemory /\ GoodItems /\ retrieving /\ files_used /\ ~failed
      /\ pc \notin {"broken", "crashed"}
  <2>1. Shapes /\ Stages /\ InMemory /\ GoodItems
    BY DEF Engine
  <2>2. retrieving /\ files_used
    BY <2>1 DEF Stages, Reading
  <2>3. pc \notin {"broken", "crashed"}
    BY DEF Merging, Reading
  <2> QED
    BY <2>1, <2>2, <2>3 DEF Stages
<1>1. /\ ~InQueues' /\ (Merging' \/ Reading') /\ pc' \notin Loop
      /\ pc' \notin {"broken", "crashed"} /\ (Merging' <=> pc' \in Merge)
  BY <1>0 DEF InQueues, Merging, Reading, Loop, Merge
<1>2. Shapes'
  <2>1. pc' \in Loop \cup {"idle", "filepass", "filepair", "filemove", "retrieve", "crashed", "broken"}
    BY DEF Merge
  <2> QED
    BY <1>0, <2>1, SameTypes DEF Shapes
<1>3. Stages'
  BY <1>0, <1>1 DEF Stages
<1>4. InMemory'
  <2>1. \A i \in Four : Len(queue[i]) = 1
    BY <1>0 DEF GoodItems
  <2>2. Live = Len(queue[0]) + Len(queue[1]) + Len(queue[2]) + Len(queue[3])
    BY DEF Live, Sum4, Four
  <2>3. Live' = Len(queue'[0]) + Len(queue'[1]) + Len(queue'[2]) + Len(queue'[3])
    BY DEF Live, Sum4, Four
  <2>4. Len(queue[0]) = 1 /\ Len(queue[1]) = 1 /\ Len(queue[2]) = 1 /\ Len(queue[3]) = 1
    BY <2>1 DEF Four
  <2>5. Len(queue'[0]) = 1 /\ Len(queue'[1]) = 1 /\ Len(queue'[2]) = 1 /\ Len(queue'[3]) = 1
    BY DEF Four
  <2>6. Live' = Live
    BY <2>2, <2>3, <2>4, <2>5
  <2> QED
    BY <1>0, <2>6 DEF InMemory
<1>5. GoodItems'
  BY <1>0, <1>1 DEF GoodItems, IsRecord
<1>6. Queues'
  BY <1>1, NoQueuesNext
<1>7. FilesRise'
  BY DEF FilesRise
<1> QED
  BY <1>2, <1>3, <1>4, <1>5, <1>6, <1>7

(* What is so at every step of the merge. *)
LEMMA MergeFacts ==
  ASSUME Engine, Merging \/ Reading
  PROVE  /\ Shapes /\ Stages /\ setup \in Setups /\ source \in {0, 2} /\ retrieving /\ files_used
         /\ queue \in [Four -> Seq(Item)] /\ file \in [Four -> File] /\ destination \in Four
         /\ ended \in [0..1 -> BOOLEAN] /\ SizeMax \in Nat \ {0}
         /\ retrieval_queue \in {0, 2} /\ ret \in {0, 10, 30}
         /\ out \in Seq([key : Keys, unique : 0..Len(setup.choices)])
         /\ \A i \in Four : /\ Len(queue[i]) = 1 /\ queue[i] \in Seq(Item)
                            /\ First(i) \in Item /\ (~First(i).eob => IsRecord(First(i)))
         /\ \A i \in Four : /\ file[i] \in File /\ file[i].data \in Seq(Item)
                            /\ Len(file[i].data) \in Nat
                            /\ file[i].at \in Nat \ {0} /\ file[i].at <= Len(file[i].data) + 1
                            /\ file[i].count \in 0..SizeMax /\ file[i].count \in Nat
                            /\ Left(i) \in Nat /\ RisingFrom(file[i].data, file[i].at)
                            /\ \A j \in 1..Len(file[i].data) :
                                 IF file[i].data[j].eob THEN file[i].data[j] = Marker
                                 ELSE IsRecord(file[i].data[j])
<1>1. /\ Shapes /\ Stages /\ GoodItems /\ FilesRise
  BY DEF Engine, Files
<1>2. retrieving /\ files_used
  BY <1>1 DEF Stages, Reading
<1>3. /\ setup \in Setups /\ source \in {0, 2} /\ queue \in [Four -> Seq(Item)] /\ file \in [Four -> File]
      /\ destination \in Four /\ ended \in [0..1 -> BOOLEAN] /\ retrieval_queue \in {0, 2}
      /\ ret \in {0, 10, 30} /\ out \in Seq([key : Keys, unique : 0..Len(setup.choices)])
      /\ \A i \in Four : file[i].at <= Len(file[i].data) + 1
  BY <1>1 DEF Shapes
<1>4. SizeMax \in Nat \ {0}
  BY SortAssumption
<1>5. ASSUME NEW i \in Four
      PROVE  /\ Len(queue[i]) = 1 /\ queue[i] \in Seq(Item)
             /\ First(i) \in Item /\ (~First(i).eob => IsRecord(First(i)))
  <2>1. /\ Len(queue[i]) = 1 /\ (~First(i).eob => IsRecord(First(i)))
    BY <1>1 DEF GoodItems, First
  <2>2. queue[i] \in Seq(Item)
    BY <1>3
  <2>3. First(i) \in Item
    BY <2>1, <2>2 DEF First
  <2> QED
    BY <2>1, <2>2, <2>3
<1>6. ASSUME NEW i \in Four
      PROVE  /\ file[i] \in File /\ file[i].data \in Seq(Item)
             /\ Len(file[i].data) \in Nat
             /\ file[i].at \in Nat \ {0} /\ file[i].at <= Len(file[i].data) + 1
             /\ file[i].count \in 0..SizeMax /\ file[i].count \in Nat
             /\ Left(i) \in Nat /\ RisingFrom(file[i].data, file[i].at)
  <2>1. file[i] \in File
    BY <1>3
  <2>2. file[i].data \in Seq(Item) /\ file[i].at \in Nat \ {0} /\ file[i].count \in 0..SizeMax
    BY <2>1 DEF File
  <2>3. file[i].count \in Nat
    BY <1>4, <2>2
  <2>4. Left(i) \in Nat
    BY <2>2, BlocksFinite DEF Left
  <2>5. RisingFrom(file[i].data, file[i].at)
    BY <1>1 DEF FilesRise
  <2> QED
    BY <1>3, <2>1, <2>2, <2>3, <2>4, <2>5, LenProperties
<1>7. \A i \in Four : \A j \in 1..Len(file[i].data) :
        IF file[i].data[j].eob THEN file[i].data[j] = Marker ELSE IsRecord(file[i].data[j])
  BY <1>1 DEF GoodItems
<1> QED
  BY <1>1, <1>2, <1>3, <1>4, <1>5, <1>6, <1>7

(* What changes of a file when its count is reset, when it is rewound, and *)
(* when it is also emptied.                                                *)
LEMMA Recounted ==
  ASSUME NEW y \in File, NEW n \in 0..SizeMax
  PROVE  /\ [y EXCEPT !.count = n] \in File
         /\ [y EXCEPT !.count = n].data = y.data /\ [y EXCEPT !.count = n].at = y.at
         /\ [y EXCEPT !.count = n].count = n
<1>1. /\ y = [data |-> y.data, at |-> y.at, count |-> y.count, tail |-> y.tail]
      /\ y.data \in Seq(Item) /\ y.at \in Nat \ {0} /\ y.count \in 0..SizeMax /\ y.tail \in BOOLEAN
  BY DEF File
<1>2. [y EXCEPT !.count = n] = [data |-> y.data, at |-> y.at, count |-> n, tail |-> y.tail]
  BY <1>1
<1>3. [y EXCEPT !.count = n] \in File
  BY <1>1, <1>2 DEF File
<1> QED
  BY <1>2, <1>3

(* A file is read from its start again. *)
LEMMA Rewound ==
  ASSUME NEW y \in File
  PROVE  /\ [y EXCEPT !.at = 1] \in File
         /\ [y EXCEPT !.at = 1].data = y.data /\ [y EXCEPT !.at = 1].at = 1
         /\ [y EXCEPT !.at = 1].count = y.count
<1>1. /\ y = [data |-> y.data, at |-> y.at, count |-> y.count, tail |-> y.tail]
      /\ y.data \in Seq(Item) /\ y.at \in Nat \ {0} /\ y.count \in 0..SizeMax /\ y.tail \in BOOLEAN
      /\ 1 \in Nat \ {0}
  BY DEF File
<1>2. [y EXCEPT !.at = 1] = [data |-> y.data, at |-> 1, count |-> y.count, tail |-> y.tail]
  BY <1>1
<1>3. [y EXCEPT !.at = 1] \in File
  BY <1>1, <1>2 DEF File
<1> QED
  BY <1>2, <1>3

(* A file whose blocks are spent holds nothing. *)
LEMMA Emptied ==
  ASSUME NEW y \in File
  PROVE  Spent(y) \in File /\ Spent(y).data = <<>> /\ Spent(y).at = 1
<1> DEFINE u == [y EXCEPT !.data = <<>>]
           v == [u EXCEPT !.at = 1]
           T == TRUE
           w == [v EXCEPT !.tail = T]
<1>1. /\ y = [data |-> y.data, at |-> y.at, count |-> y.count, tail |-> y.tail]
      /\ y.data \in Seq(Item) /\ y.at \in Nat \ {0} /\ y.count \in 0..SizeMax /\ y.tail \in BOOLEAN
      /\ 1 \in Nat \ {0} /\ <<>> \in Seq(Item)
  BY DEF File
<1>2. Spent(y) = w /\ T \in BOOLEAN
  BY DEF Spent
<1> HIDE DEF T
<1>3. u = [data |-> <<>>, at |-> y.at, count |-> y.count, tail |-> y.tail]
  BY <1>1
<1> HIDE DEF u
<1>4. v = [data |-> <<>>, at |-> 1, count |-> y.count, tail |-> y.tail]
  BY <1>3
<1> HIDE DEF v
<1>5. w = [data |-> <<>>, at |-> 1, count |-> y.count, tail |-> T]
  BY <1>4
<1> HIDE DEF w
<1>6. w \in File
  BY <1>1, <1>2, <1>5 DEF File
<1> QED
  BY <1>2, <1>5, <1>6

(* x is the next item of file i, and g is what the files f are when it is read. *)
HasRead(f, g, x, i) ==
  LET s == f[i].data
      a == f[i].at
  IN  /\ s \in Seq(Item) /\ a \in 1..Len(s) /\ Len(s) \in Nat
      /\ x = s[a] /\ x \in Item
      /\ g[i].data = s /\ g[i].at = a + 1 /\ g[i].count = f[i].count /\ g[i].at <= Len(s) + 1
      /\ Blocks(s, a + 1) \in Nat
      /\ Blocks(s, a) = Blocks(s, a + 1) + (IF x.eob THEN 1 ELSE 0)
      /\ RisingFrom(s, a) => /\ RisingFrom(s, a + 1)
                             /\ ~x.eob /\ a + 1 <= Len(s) /\ ~s[a + 1].eob => Less(x, s[a + 1])

(* An item is read of a file that has a block left: it is no garbage. *)
LEMMA ReadOne ==
  ASSUME setup \in Setups, NEW f \in [Four -> File], NEW i \in Four,
         Blocks(f[i].data, f[i].at) >= 1, f[i].at <= Len(f[i].data) + 1
  PROVE  /\ HasRead(f, Advance(f, i), ReadItem(f, i), i) /\ ~Garbage(f, i)
         /\ Advance(f, i) \in [Four -> File]
         /\ \A k \in Four \ {i} : Advance(f, i)[k] = f[k]
<1> DEFINE g == Advance(f, i)
           x == ReadItem(f, i)
           s == f[i].data
           a == f[i].at
<1>1. /\ s \in Seq(Item) /\ a \in 1..Len(s) /\ Len(s) \in Nat
      /\ x = s[a] /\ s[a] \in Item /\ ~Garbage(f, i)
      /\ g \in [Four -> File] /\ \A k \in Four \ {i} : g[k] = f[k]
      /\ g[i].data = s /\ g[i].at = a + 1 /\ g[i].count = f[i].count /\ g[i].at <= Len(s) + 1
      /\ Blocks(s, a + 1) \in Nat
      /\ Blocks(s, a) = Blocks(s, a + 1) + (IF s[a].eob THEN 1 ELSE 0)
      /\ RisingFrom(s, a) =>
              /\ RisingFrom(s, a + 1)
              /\ ~s[a].eob /\ a + 1 <= Len(s) /\ ~s[a + 1].eob => Less(s[a], s[a + 1])
  BY FileReads
<1> HIDE DEF g, x
<1>2. HasRead(f, g, x, i)
  BY <1>1 DEF HasRead
<1> QED
  BY <1>1, <1>2 DEF g, x

(* The same of two files, one after the other. *)
LEMMA ReadTwo ==
  ASSUME setup \in Setups, NEW f \in [Four -> File], NEW i \in Four, NEW k \in Four, i # k,
         Blocks(f[i].data, f[i].at) >= 1, f[i].at <= Len(f[i].data) + 1,
         Blocks(f[k].data, f[k].at) >= 1, f[k].at <= Len(f[k].data) + 1
  PROVE  LET g == Advance(Advance(f, i), k) IN
         /\ HasRead(f, g, ReadItem(f, i), i) /\ HasRead(f, g, ReadItem(f, k), k)
         /\ ~Garbage(f, i) /\ ~Garbage(f, k)
         /\ g \in [Four -> File] /\ \A j \in Four \ {i, k} : g[j] = f[j]
<1> DEFINE h == Advance(f, i)
           g == Advance(h, k)
<1>1. /\ HasRead(f, h, ReadItem(f, i), i) /\ ~Garbage(f, i) /\ h \in [Four -> File]
      /\ \A j \in Four \ {i} : h[j] = f[j]
  BY ReadOne
<1> HIDE DEF h
<1>2. h[k] = f[k]
  BY <1>1
<1>3. /\ HasRead(h, g, ReadItem(h, k), k) /\ ~Garbage(h, k) /\ g \in [Four -> File]
      /\ \A j \in Four \ {k} : g[j] = h[j]
  BY <1>1, <1>2, ReadOne
<1>4. ReadItem(h, k) = ReadItem(f, k) /\ ~Garbage(f, k)
  BY <1>2, <1>3 DEF ReadItem, Garbage
<1> HIDE DEF g
<1>5. HasRead(f, g, ReadItem(f, k), k)
  BY <1>2, <1>3, <1>4 DEF HasRead
<1>6. g[i] = h[i]
  BY <1>3
<1>7. HasRead(f, g, ReadItem(f, i), i)
  BY <1>1, <1>6 DEF HasRead
<1>8. \A j \in Four \ {i, k} : g[j] = f[j]
  BY <1>1, <1>3
<1> QED
  BY <1>1, <1>3, <1>4, <1>5, <1>7, <1>8 DEF g, h

(* What has been read of a file, if it is a record, is one released. *)
LEMMA ReadRecord ==
  ASSUME Engine, Merging \/ Reading, NEW g, NEW x, NEW i \in Four, HasRead(file, g, x, i)
  PROVE  /\ x \in Item /\ (~x.eob => IsRecord(x))
         /\ Left(i) \in Nat /\ Left(i) = Blocks(g[i].data, g[i].at) + (IF x.eob THEN 1 ELSE 0)
         /\ Blocks(g[i].data, g[i].at) \in Nat
         /\ RisingFrom(g[i].data, g[i].at) /\ g[i].at <= Len(g[i].data) + 1
         /\ g[i].data = file[i].data /\ g[i].count = file[i].count
         /\ ~x.eob /\ g[i].at <= Len(g[i].data) /\ ~g[i].data[g[i].at].eob
              => Less(x, g[i].data[g[i].at])
<1> DEFINE s == file[i].data
           a == file[i].at
<1>1. /\ s \in Seq(Item) /\ a \in 1..Len(s) /\ Len(s) \in Nat
      /\ x = s[a] /\ x \in Item
      /\ g[i].data = s /\ g[i].at = a + 1 /\ g[i].count = file[i].count /\ g[i].at <= Len(s) + 1
      /\ Blocks(s, a + 1) \in Nat
      /\ Blocks(s, a) = Blocks(s, a + 1) + (IF x.eob THEN 1 ELSE 0)
      /\ RisingFrom(s, a) => /\ RisingFrom(s, a + 1)
                             /\ ~x.eob /\ a + 1 <= Len(s) /\ ~s[a + 1].eob => Less(x, s[a + 1])
  BY DEF HasRead
<1>2. /\ RisingFrom(s, a) /\ Left(i) \in Nat
      /\ \A j \in 1..Len(s) : IF s[j].eob THEN s[j] = Marker ELSE IsRecord(s[j])
  BY MergeFacts
<1>3. Left(i) = Blocks(s, a)
  BY DEF Left
<1> HIDE DEF s, a
<1> QED
  BY <1>1, <1>2, <1>3 DEF s
(* The last pass reads the head of each of the two blocks that are left. *)
LEMMA FilePassReads ==
  ASSUME IInv, FilePass, ~MoreBlocks
  PROVE  LET x == ReadItem(file, source)
             y == ReadItem(file, source + 1)
         IN
         /\ Left(source) = 1 /\ Left(source + 1) = 1 /\ source # source + 1
         /\ HasRead(file, file', x, source) /\ HasRead(file, file', y, source + 1)
         /\ file' \in [Four -> File] /\ \A j \in Four \ {source, source + 1} : file'[j] = file[j]
         /\ retrieval_queue' = source /\ pc' = "retrieve" /\ destination' = destination
         /\ queue' = [queue EXCEPT ![source] = <<x>>, ![source + 1] = <<y>>]
<1> DEFINE x == ReadItem(file, source)
           y == ReadItem(file, source + 1)
           g == Advance(Advance(file, source), source + 1)
<1>0. Engine /\ pc = "filepass" /\ Merging
  BY DEF IInv, FilePass, Merging
<1>1. /\ Shapes /\ setup \in Setups /\ source \in {0, 2}
      /\ queue \in [Four -> Seq(Item)] /\ file \in [Four -> File] /\ destination \in Four
      /\ ended \in [0..1 -> BOOLEAN] /\ SizeMax \in Nat \ {0}
      /\ retrieval_queue \in {0, 2} /\ ret \in {0, 10, 30}
      /\ out \in Seq([key : Keys, unique : 0..Len(setup.choices)])
      /\ \A i \in Four : /\ Len(queue[i]) = 1 /\ queue[i] \in Seq(Item)
                         /\ First(i) \in Item /\ (~First(i).eob => IsRecord(First(i)))
      /\ \A i \in Four : /\ file[i] \in File /\ file[i].data \in Seq(Item)
                         /\ Len(file[i].data) \in Nat
                         /\ file[i].at \in Nat \ {0} /\ file[i].at <= Len(file[i].data) + 1
                         /\ file[i].count \in 0..SizeMax /\ file[i].count \in Nat
                         /\ Left(i) \in Nat /\ RisingFrom(file[i].data, file[i].at)
                         /\ \A j \in 1..Len(file[i].data) :
                              IF file[i].data[j].eob THEN file[i].data[j] = Marker
                              ELSE IsRecord(file[i].data[j])
  BY <1>0, MergeFacts
<1>2. /\ \A i \in Four : First(i).eob /\ file[i].at = 1 /\ Closed(file[i].data)
      /\ file[Target].data = <<>> /\ file[Target + 1].data = <<>>
      /\ file[source].count = Left(source) /\ file[source + 1].count = Left(source + 1)
      /\ Balanced(Left(source), Left(source + 1))
      /\ Left(source) + Left(source + 1) >= 2
  BY <1>0 DEF Engine, Files, FilesPass
<1>4. /\ Target \in {0, 2} /\ Target # source
      /\ Four = {source, source + 1, Target, Target + 1}
      /\ source \in Four /\ source + 1 \in Four /\ Target \in Four /\ Target + 1 \in Four
      /\ Other(source) = Target
      /\ {source, source + 1} \cap {Target, Target + 1} = {}
  BY <1>1, Lists
<1>5. Left(source) = 1 /\ Left(source + 1) = 1
  <2>1. Left(source) <= 1 /\ Left(source) \in Nat /\ Left(source + 1) \in Nat
    BY <1>1, <1>2, <1>4 DEF MoreBlocks
  <2> QED
    BY <1>2, <2>1 DEF Balanced
<1>6. source # source + 1
  BY <1>1
<1>7. /\ HasRead(file, g, x, source) /\ HasRead(file, g, y, source + 1)
      /\ ~Garbage(file, source) /\ ~Garbage(file, source + 1)
      /\ g \in [Four -> File] /\ \A j \in Four \ {source, source + 1} : g[j] = file[j]
  <2>1. /\ Blocks(file[source].data, file[source].at) >= 1
        /\ Blocks(file[source + 1].data, file[source + 1].at) >= 1
    BY <1>5 DEF Left
  <2>2. /\ file[source].at <= Len(file[source].data) + 1
        /\ file[source + 1].at <= Len(file[source + 1].data) + 1
    BY <1>1, <1>4
  <2>3. setup \in Setups /\ file \in [Four -> File] /\ source \in Four /\ source + 1 \in Four
    BY <1>1, <1>4
  <2> QED
    BY <1>6, <2>1, <2>2, <2>3, ReadTwo
<1>8. /\ retrieval_queue' = source /\ queue' = [queue EXCEPT ![source] = <<x>>, ![source + 1] = <<y>>]
      /\ file' = g /\ pc' = "retrieve" /\ destination' = destination
  BY <1>7 DEF FilePass
<1> HIDE DEF x, y, g
<1>9. HasRead(file, file', x, source) /\ HasRead(file, file', y, source + 1)
  BY <1>7, <1>8
<1> QED
  BY <1>5, <1>6, <1>7, <1>8, <1>9 DEF x, y

(* A pass over the files begins, or RETURN gets its two heads. *)
LEMMA FilePassKeeps ==
  ASSUME IInv, FilePass, UNCHANGED <<setup, using>>
  PROVE  Engine'
<1>0. /\ Engine /\ pc = "filepass" /\ Merging /\ cont = "retrieve" /\ ret # 10
      /\ UNCHANGED <<setup, using, memory, unique, retrieving, files_used, destination_file, empty,
                     cont, pending, sort_return, failed, source, ended, out, ret>>
  <2>1. Engine /\ Stages /\ pc = "filepass"
    BY DEF IInv, Engine, FilePass
  <2> QED
    BY <2>1 DEF Stages, Merging, FilePass, reply
<1>1. /\ Shapes /\ setup \in Setups /\ source \in {0, 2}
      /\ queue \in [Four -> Seq(Item)] /\ file \in [Four -> File] /\ destination \in Four
      /\ ended \in [0..1 -> BOOLEAN] /\ SizeMax \in Nat \ {0}
      /\ retrieval_queue \in {0, 2} /\ ret \in {0, 10, 30}
      /\ out \in Seq([key : Keys, unique : 0..Len(setup.choices)])
      /\ \A i \in Four : /\ Len(queue[i]) = 1 /\ queue[i] \in Seq(Item)
                         /\ First(i) \in Item /\ (~First(i).eob => IsRecord(First(i)))
      /\ \A i \in Four : /\ file[i] \in File /\ file[i].data \in Seq(Item)
                         /\ Len(file[i].data) \in Nat
                         /\ file[i].at \in Nat \ {0} /\ file[i].at <= Len(file[i].data) + 1
                         /\ file[i].count \in 0..SizeMax /\ file[i].count \in Nat
                         /\ Left(i) \in Nat /\ RisingFrom(file[i].data, file[i].at)
                         /\ \A j \in 1..Len(file[i].data) :
                              IF file[i].data[j].eob THEN file[i].data[j] = Marker
                              ELSE IsRecord(file[i].data[j])
  BY <1>0, MergeFacts
<1>2. /\ \A i \in Four : First(i).eob /\ file[i].at = 1 /\ Closed(file[i].data)
      /\ file[Target].data = <<>> /\ file[Target + 1].data = <<>>
      /\ file[source].count = Left(source) /\ file[source + 1].count = Left(source + 1)
      /\ Balanced(Left(source), Left(source + 1))
      /\ Left(source) + Left(source + 1) >= 2
  BY <1>0 DEF Engine, Files, FilesPass
<1>3. Target' = Target /\ source' \in {0, 2}
  BY <1>0, <1>1 DEF Target
<1>4. /\ Target \in {0, 2} /\ Target # source
      /\ Four = {source, source + 1, Target, Target + 1}
      /\ source \in Four /\ source + 1 \in Four /\ Target \in Four /\ Target + 1 \in Four
      /\ Other(source) = Target
      /\ {source, source + 1} \cap {Target, Target + 1} = {}
  BY <1>1, Lists
<1>5. CASE MoreBlocks
  <2>1. /\ destination' = Target /\ file' = Fresh(Target) /\ pc' = "filepair"
        /\ UNCHANGED <<queue, retrieval_queue>>
    BY <1>4, <1>5 DEF FilePass
  <2>2. Target + 1 # Target
    BY <1>4
  <2>3. /\ file'[Target] = [file[Target] EXCEPT !.count = 0]
        /\ file'[Target + 1] = [file[Target + 1] EXCEPT !.count = 0]
        /\ \A i \in {source, source + 1} : file'[i] = file[i]
        /\ file' = [file EXCEPT ![Target] = file'[Target], ![Target + 1] = file'[Target + 1]]
    BY <1>1, <1>4, <2>1, <2>2 DEF Fresh
  <2>4. \A i \in {Target, Target + 1} :
          /\ file'[i] \in File /\ file'[i].data = <<>> /\ file'[i].at = 1 /\ file'[i].count = 0
    <3>0. 0 \in 0..SizeMax
      BY <1>1
    <3>1. \A i \in {Target, Target + 1} : file[i] \in File /\ file[i].data = <<>> /\ file[i].at = 1
      BY <1>1, <1>2, <1>4
    <3>2. /\ file[Target] \in File /\ file[Target].data = <<>> /\ file[Target].at = 1
          /\ file[Target + 1] \in File /\ file[Target + 1].data = <<>> /\ file[Target + 1].at = 1
      BY <3>1
    <3>3. /\ file'[Target] \in File /\ file'[Target].data = <<>> /\ file'[Target].at = 1
          /\ file'[Target].count = 0
      BY <1>1, <2>3, <3>0, <3>2, Recounted
    <3>4. /\ file'[Target + 1] \in File /\ file'[Target + 1].data = <<>> /\ file'[Target + 1].at = 1
          /\ file'[Target + 1].count = 0
      BY <1>1, <2>3, <3>0, <3>2, Recounted
    <3> QED
      BY <3>3, <3>4
  <2>5. file' \in [Four -> File]
    BY <1>1, <2>3, <2>4
  <2>6. Len(<<>>) = 0 /\ Closed(<<>>) /\ RisingFrom(<<>>, 1) /\ Blocks(<<>>, 1) = 0
    <3>1. Len(<<>>) = 0 /\ Closed(<<>>) /\ RisingFrom(<<>>, 1)
      BY DEF Closed, RisingFrom
    <3>2. Blocks(<<>>, 1) = 0
      BY <1>1, <1>2, <1>4, NoBlocks
    <3> QED
      BY <3>1, <3>2
  <2>7. \A i \in Four : /\ file'[i].at = 1 /\ file'[i].at <= Len(file'[i].data) + 1
                        /\ RisingFrom(file'[i].data, file'[i].at) /\ Closed(file'[i].data)
    <3>1. \A i \in {source, source + 1} :
            /\ file'[i].at = 1 /\ file'[i].at <= Len(file'[i].data) + 1
            /\ RisingFrom(file'[i].data, file'[i].at) /\ Closed(file'[i].data)
      <4> SUFFICES ASSUME NEW i \in {source, source + 1}
                   PROVE  /\ file'[i].at = 1 /\ file'[i].at <= Len(file'[i].data) + 1
                          /\ RisingFrom(file'[i].data, file'[i].at) /\ Closed(file'[i].data)
        OBVIOUS
      <4>1. i \in Four /\ file'[i] = file[i]
        BY <1>4, <2>3
      <4>2. /\ file[i].at = 1 /\ file[i].at <= Len(file[i].data) + 1
            /\ RisingFrom(file[i].data, file[i].at) /\ Closed(file[i].data)
        BY <1>1, <1>2, <4>1
      <4> QED
        BY <4>1, <4>2
    <3>2. \A i \in {Target, Target + 1} :
            /\ file'[i].at = 1 /\ file'[i].at <= Len(file'[i].data) + 1
            /\ RisingFrom(file'[i].data, file'[i].at) /\ Closed(file'[i].data)
      BY <2>4, <2>6
    <3> QED
      BY <1>4, <3>1, <3>2
  <2>8. \A i \in Four : \A j \in 1..Len(file'[i].data) :
          IF file'[i].data[j].eob THEN file'[i].data[j] = Marker ELSE IsRecord(file'[i].data[j])
    <3>1. \A i \in {source, source + 1} : \A j \in 1..Len(file'[i].data) :
            IF file'[i].data[j].eob THEN file'[i].data[j] = Marker ELSE IsRecord(file'[i].data[j])
      <4>1. \A i \in {source, source + 1} : i \in Four /\ file'[i] = file[i]
        BY <1>4, <2>3
      <4> QED
        BY <1>1, <4>1
    <3>2. \A i \in {Target, Target + 1} : \A j \in 1..Len(file'[i].data) :
            IF file'[i].data[j].eob THEN file'[i].data[j] = Marker ELSE IsRecord(file'[i].data[j])
      BY <2>4, <2>6
    <3> QED
      BY <1>4, <3>1, <3>2
  <2>9. \A i \in Four : /\ Len(queue'[i]) = 1 /\ (~queue'[i][1].eob => IsRecord(queue'[i][1]))
                        /\ queue'[i][1].eob
    BY <1>1, <1>2, <2>1 DEF First
  <2>10. /\ Shapes' /\ Stages' /\ InMemory' /\ GoodItems' /\ Queues' /\ FilesRise'
    <3>1. pc' \in Merge /\ destination' \in Four /\ retrieval_queue' \in {0, 2}
          /\ queue' \in [Four -> Seq(Item)]
      BY <1>1, <1>4, <2>1 DEF Merge
    <3> QED
      BY <1>0, <1>1, <1>3, <2>5, <2>7, <2>8, <2>9, <3>1, MergeSteps
  <2>11. \A i \in Four : Left(i)' = IF i \in {source, source + 1} THEN Left(i) ELSE 0
    <3>1. \A i \in {source, source + 1} : Left(i)' = Left(i)
      BY <2>3 DEF Left
    <3>2. \A i \in {Target, Target + 1} : Left(i)' = 0
      BY <2>4, <2>6 DEF Left
    <3> QED
      BY <1>4, <3>1, <3>2
  <2>12. /\ Left(source)' = Left(source) /\ Left(source + 1)' = Left(source + 1)
         /\ Left(Target)' = 0 /\ Left(Target + 1)' = 0
    <3>1. \A i \in {source, source + 1} : Left(i)' = Left(i)
      BY <2>3 DEF Left
    <3>2. \A i \in {Target, Target + 1} : Left(i)' = 0
      BY <2>4, <2>6 DEF Left
    <3> QED
      BY <1>0, <1>3, <3>1, <3>2 DEF Left
  <2>13. file[source].count >= 2 /\ file[source].count <= SizeMax /\ file[source].count \in Nat
    BY <1>1, <1>4, <1>5 DEF MoreBlocks
  <2>14. FilesInTurn'
    <3>1. \A i \in {Target, Target + 1} : file'[i].at = 1 /\ file'[i].count = Left(i)' /\ First(i)'.eob
      BY <1>4, <2>4, <2>9, <2>11 DEF First
    <3>2. Left(Target)' = Left(Target + 1)' + (destination' - Target)
      BY <1>4, <2>1, <2>12
    <3>3. /\ Left(Target)' + Left(Target + 1)' + file'[source].count >= 2
          /\ Left(Target)' + Left(Target + 1)' + file'[source].count <= SizeMax
      BY <2>3, <2>12, <2>13
    <3>4. InTurn'
      BY <1>3, <2>1 DEF InTurn
    <3> QED
      BY <1>0, <1>3, <3>1, <3>2, <3>3, <3>4 DEF FilesInTurn
  <2>15. FilesPair'
    <3>1. First(source)'.eob /\ First(source + 1)'.eob
      BY <1>0, <1>4, <2>9 DEF First
    <3>2. /\ file'[source].count = Left(source)' /\ file'[source + 1].count = Left(source + 1)'
          /\ Balanced(Left(source)', Left(source + 1)')
      BY <1>2, <2>3, <2>12
    <3> QED
      BY <1>0, <2>7, <2>14, <3>1, <3>2 DEF FilesPair
  <2>16. FilesPass' /\ FilesMove' /\ FilesOut'
    BY <2>1 DEF FilesPass, FilesMove, FilesOut, Reading
  <2> QED
    BY <2>10, <2>15, <2>16 DEF Engine, Files
<1>6. CASE ~MoreBlocks
  <2> DEFINE x == ReadItem(file, source)
             y == ReadItem(file, source + 1)
  <2>1. /\ Left(source) = 1 /\ Left(source + 1) = 1 /\ source # source + 1
        /\ HasRead(file, file', x, source) /\ HasRead(file, file', y, source + 1)
        /\ file' \in [Four -> File] /\ \A j \in Four \ {source, source + 1} : file'[j] = file[j]
        /\ retrieval_queue' = source /\ pc' = "retrieve" /\ destination' = destination
        /\ queue' = [queue EXCEPT ![source] = <<x>>, ![source + 1] = <<y>>]
    BY <1>6, FilePassReads
  <2> HIDE DEF x, y
  <2>5. HasRead(file, file', x, source) /\ HasRead(file, file', y, source + 1)
    BY <2>1
  <2>6. /\ x \in Item /\ (~x.eob => IsRecord(x))
        /\ Left(source) = Blocks(file'[source].data, file'[source].at) + (IF x.eob THEN 1 ELSE 0)
        /\ Blocks(file'[source].data, file'[source].at) \in Nat
        /\ RisingFrom(file'[source].data, file'[source].at)
        /\ file'[source].at <= Len(file'[source].data) + 1
        /\ file'[source].data = file[source].data
        /\ ~x.eob /\ file'[source].at <= Len(file'[source].data)
              /\ ~file'[source].data[file'[source].at].eob
             => Less(x, file'[source].data[file'[source].at])
    BY <1>0, <1>4, <2>5, ReadRecord
  <2>7. /\ y \in Item /\ (~y.eob => IsRecord(y))
        /\ Left(source + 1) = Blocks(file'[source + 1].data, file'[source + 1].at) + (IF y.eob THEN 1 ELSE 0)
        /\ Blocks(file'[source + 1].data, file'[source + 1].at) \in Nat
        /\ RisingFrom(file'[source + 1].data, file'[source + 1].at)
        /\ file'[source + 1].at <= Len(file'[source + 1].data) + 1
        /\ file'[source + 1].data = file[source + 1].data
        /\ ~y.eob /\ file'[source + 1].at <= Len(file'[source + 1].data)
              /\ ~file'[source + 1].data[file'[source + 1].at].eob
             => Less(y, file'[source + 1].data[file'[source + 1].at])
    BY <1>0, <1>4, <2>5, ReadRecord
  <2>8. /\ <<x>> \in Seq(Item) /\ <<y>> \in Seq(Item) /\ Len(<<x>>) = 1 /\ Len(<<y>>) = 1
        /\ <<x>>[1] = x /\ <<y>>[1] = y
    BY <2>6, <2>7
  <2>9. /\ queue' \in [Four -> Seq(Item)] /\ queue'[source] = <<x>> /\ queue'[source + 1] = <<y>>
        /\ \A i \in {Target, Target + 1} : queue'[i] = queue[i]
    BY <1>1, <1>4, <2>1, <2>8
  <2>10. /\ First(source)' = x /\ First(source + 1)' = y
         /\ \A i \in {Target, Target + 1} : First(i)' = First(i)
    BY <1>0, <1>3, <2>8, <2>9 DEF First
  <2>11. \A i \in {Target, Target + 1} : file'[i] = file[i]
    BY <1>4, <2>1
  <2>12. \A i \in Four : Len(queue'[i]) = 1 /\ (~queue'[i][1].eob => IsRecord(queue'[i][1]))
    <3>1. \A i \in {Target, Target + 1} :
            Len(queue'[i]) = 1 /\ (~queue'[i][1].eob => IsRecord(queue'[i][1]))
      <4>1. \A i \in {Target, Target + 1} : i \in Four /\ queue'[i] = queue[i]
        BY <1>4, <2>9
      <4> QED
        BY <1>1, <4>1 DEF First
    <3>2. /\ Len(queue'[source]) = 1 /\ (~queue'[source][1].eob => IsRecord(queue'[source][1]))
          /\ Len(queue'[source + 1]) = 1 /\ (~queue'[source + 1][1].eob => IsRecord(queue'[source + 1][1]))
      BY <2>6, <2>7, <2>8, <2>9
    <3> QED
      BY <1>4, <3>1, <3>2
  <2>13. \A i \in Four : /\ file'[i].at <= Len(file'[i].data) + 1
                         /\ RisingFrom(file'[i].data, file'[i].at)
                         /\ file'[i].data = file[i].data
    <3>1. \A i \in {Target, Target + 1} : /\ file'[i].at <= Len(file'[i].data) + 1
                                          /\ RisingFrom(file'[i].data, file'[i].at)
                                          /\ file'[i].data = file[i].data
      BY <1>1, <1>4, <2>11
    <3> QED
      BY <1>4, <2>6, <2>7, <3>1
  <2>14. \A i \in Four : \A j \in 1..Len(file'[i].data) :
           IF file'[i].data[j].eob THEN file'[i].data[j] = Marker ELSE IsRecord(file'[i].data[j])
    BY <1>1, <2>13
  <2>15. /\ Shapes' /\ Stages' /\ InMemory' /\ GoodItems' /\ Queues' /\ FilesRise'
    <3>1. /\ pc' \in Merge \cup {"idle", "retrieve"} /\ destination' \in Four
          /\ retrieval_queue' \in {0, 2} /\ file' \in [Four -> File]
      BY <1>1, <2>1 DEF Merge
    <3> QED
      BY <1>0, <1>1, <1>3, <2>9, <2>12, <2>13, <2>14, <3>1, MergeSteps
  <2>16. FilesOut'
    <3>1. \A i \in {Target, Target + 1} : file'[i].data = <<>> /\ First(i)'.eob
      BY <1>2, <1>4, <2>10, <2>11
    <3>2. /\ Left(source)' = IF x.eob THEN 0 ELSE 1
          /\ Left(source + 1)' = IF y.eob THEN 0 ELSE 1
      <4>1. /\ Left(source)' = Blocks(file'[source].data, file'[source].at)
            /\ Left(source + 1)' = Blocks(file'[source + 1].data, file'[source + 1].at)
        BY <1>0 DEF Left
      <4> QED
        BY <2>1, <2>6, <2>7, <4>1
    <3>3. Closed(file'[source].data) /\ Closed(file'[source + 1].data)
      BY <1>2, <1>4, <2>13
    <3>4. FirstRises(source)' /\ FirstRises(source + 1)'
      <4>1. FirstRises(source)'
        BY <1>0, <2>6, <2>10 DEF FirstRises
      <4>2. FirstRises(source + 1)'
        BY <1>0, <2>7, <2>10 DEF FirstRises
      <4> QED
        BY <4>1, <4>2
    <3>5. \A m \in 0..1 : /\ Left(source + m)' = IF First(source + m)'.eob THEN 0 ELSE 1
                          /\ Closed(file'[source + m].data)
                          /\ FirstRises(source + m)'
      <4>1. ASSUME NEW m \in {0, 1}
            PROVE  /\ Left(source + m)' = IF First(source + m)'.eob THEN 0 ELSE 1
                   /\ Closed(file'[source + m].data)
                   /\ FirstRises(source + m)'
        <5>1. CASE m = 0
          <6>1. source + 0 = source
            BY <1>1
          <6> QED
            BY <1>0, <2>10, <3>2, <3>3, <3>4, <5>1, <6>1 DEF Left, First, FirstRises
        <5>2. CASE m = 1
          BY <1>0, <2>10, <3>2, <3>3, <3>4, <5>2
        <5> QED
          BY <5>1, <5>2
      <4> QED
        BY <4>1
    <3> QED
      BY <1>0, <1>3, <3>1, <3>5 DEF FilesOut, Left, First, FirstRises
  <2>17. FilesPass' /\ FilesMove' /\ FilesPair'
    BY <2>1 DEF FilesPass, FilesMove, FilesPair
  <2> QED
    BY <2>15, <2>16, <2>17 DEF Engine, Files
<1> QED
  BY <1>5, <1>6

(* A pair that is left is begun: its heads are read, or one is while the   *)
(* other file has no block left.                                           *)
LEMMA FilePairReads ==
  ASSUME IInv, FilePair, file[source].count # 0
  PROVE  LET x == ReadItem(file, source)
             y == IF Paired THEN ReadItem(file, source + 1) ELSE [First(source + 1) EXCEPT !.eob = TRUE]
         IN
         /\ Left(source) = file[source].count /\ Left(source) >= 1 /\ source # source + 1
         /\ file[source + 1].count = Left(source + 1) /\ Balanced(Left(source), Left(source + 1))
         /\ Paired <=> Left(source + 1) >= 1
         /\ queue' = [queue EXCEPT ![source] = <<x>>, ![source + 1] = <<y>>]
         /\ pc' = "filemove" /\ source' = source /\ file' \in [Four -> File]
         /\ HasRead(file, file', x, source)
         /\ \A i \in {Target, Target + 1} : file'[i] = file[i]
         /\ Paired => HasRead(file, file', y, source + 1)
         /\ ~Paired => file'[source + 1] = file[source + 1] /\ y = [First(source + 1) EXCEPT !.eob = TRUE]
<1> DEFINE x == ReadItem(file, source)
           y == IF Paired THEN ReadItem(file, source + 1) ELSE [First(source + 1) EXCEPT !.eob = TRUE]
<1>0. Engine /\ pc = "filepair" /\ Merging /\ FilesPair
  BY DEF IInv, Engine, Files, FilePair, Merging
<1>1. /\ Shapes /\ setup \in Setups /\ source \in {0, 2}
      /\ queue \in [Four -> Seq(Item)] /\ file \in [Four -> File] /\ destination \in Four
      /\ ended \in [0..1 -> BOOLEAN] /\ SizeMax \in Nat \ {0}
      /\ retrieval_queue \in {0, 2} /\ ret \in {0, 10, 30}
      /\ out \in Seq([key : Keys, unique : 0..Len(setup.choices)])
      /\ \A i \in Four : /\ Len(queue[i]) = 1 /\ queue[i] \in Seq(Item)
                         /\ First(i) \in Item /\ (~First(i).eob => IsRecord(First(i)))
      /\ \A i \in Four : /\ file[i] \in File /\ file[i].data \in Seq(Item)
                         /\ Len(file[i].data) \in Nat
                         /\ file[i].at \in Nat \ {0} /\ file[i].at <= Len(file[i].data) + 1
                         /\ file[i].count \in 0..SizeMax /\ file[i].count \in Nat
                         /\ Left(i) \in Nat /\ RisingFrom(file[i].data, file[i].at)
                         /\ \A j \in 1..Len(file[i].data) :
                              IF file[i].data[j].eob THEN file[i].data[j] = Marker
                              ELSE IsRecord(file[i].data[j])
  BY <1>0, MergeFacts
<1>2. /\ FilesInTurn
      /\ \A i \in Four : Closed(file[i].data)
      /\ First(source).eob /\ First(source + 1).eob
      /\ file[source].count = Left(source)
      /\ \/ file[source + 1].count = Left(source + 1) /\ Balanced(Left(source), Left(source + 1))
         \/ Left(source) = 0 /\ Left(source + 1) = 0
  BY <1>0 DEF FilesPair
<1>3. /\ Target \in {0, 2} /\ Target # source
      /\ Four = {source, source + 1, Target, Target + 1}
      /\ source \in Four /\ source + 1 \in Four /\ Target \in Four /\ Target + 1 \in Four
      /\ {source, source + 1} \cap {Target, Target + 1} = {}
      /\ \A i \in Four : Base(i) = source <=> i \in {source, source + 1}
  BY <1>1, Lists
<1>4. Left(source) = file[source].count /\ Left(source) \in Nat /\ Left(source) >= 1 /\ Left(source + 1) \in Nat
  BY <1>1, <1>2, <1>3
<1>5. file[source + 1].count = Left(source + 1) /\ Balanced(Left(source), Left(source + 1))
  BY <1>2, <1>4
<1>6. Paired <=> Left(source + 1) >= 1
  BY <1>4, <1>5 DEF Paired
<1>7. /\ source # source + 1 /\ setup \in Setups /\ file \in [Four -> File]
      /\ file[source].at <= Len(file[source].data) + 1
      /\ file[source + 1].at <= Len(file[source + 1].data) + 1
      /\ Blocks(file[source].data, file[source].at) >= 1
      /\ Paired => Blocks(file[source + 1].data, file[source + 1].at) >= 1
  BY <1>1, <1>3, <1>4, <1>6 DEF Left
<1>8. /\ queue' = [queue EXCEPT ![source] = <<x>>, ![source + 1] = <<y>>]
      /\ pc' = "filemove" /\ source' = source /\ file' \in [Four -> File]
      /\ HasRead(file, file', x, source)
      /\ \A i \in {Target, Target + 1} : file'[i] = file[i]
      /\ Paired => HasRead(file, file', y, source + 1)
      /\ ~Paired => file'[source + 1] = file[source + 1] /\ y = [First(source + 1) EXCEPT !.eob = TRUE]
  <2>1. CASE Paired
    <3> DEFINE g == Advance(Advance(file, source), source + 1)
    <3>1. /\ HasRead(file, g, ReadItem(file, source), source)
          /\ HasRead(file, g, ReadItem(file, source + 1), source + 1)
          /\ ~Garbage(file, source) /\ ~Garbage(file, source + 1)
          /\ g \in [Four -> File] /\ \A j \in Four \ {source, source + 1} : g[j] = file[j]
      BY <1>3, <1>7, <2>1, ReadTwo
    <3>2. file' = g /\ pc' = "filemove" /\ source' = source /\ y = ReadItem(file, source + 1)
          /\ queue' = [queue EXCEPT ![source] = <<x>>, ![source + 1] = <<y>>]
      BY <2>1, <3>1 DEF FilePair
    <3> HIDE DEF g, x, y
    <3>3. \A i \in {Target, Target + 1} : file'[i] = file[i]
      BY <1>3, <3>1, <3>2
    <3>4. HasRead(file, file', x, source) /\ HasRead(file, file', y, source + 1)
      BY <3>1, <3>2 DEF x
    <3> QED
      BY <2>1, <3>1, <3>2, <3>3, <3>4
  <2>2. CASE ~Paired
    <3> DEFINE g == Advance(file, source)
    <3>1. /\ HasRead(file, g, ReadItem(file, source), source) /\ ~Garbage(file, source)
          /\ g \in [Four -> File] /\ \A j \in Four \ {source} : g[j] = file[j]
      BY <1>3, <1>7, ReadOne
    <3>2. file' = g /\ pc' = "filemove" /\ source' = source /\ y = [First(source + 1) EXCEPT !.eob = TRUE]
          /\ queue' = [queue EXCEPT ![source] = <<x>>, ![source + 1] = <<y>>]
      <4>1. queue[source + 1][1] = First(source + 1)
        BY DEF First
      <4> QED
        BY <1>1, <1>3, <1>7, <2>2, <3>1, <4>1 DEF FilePair
    <3> HIDE DEF g, x, y
    <3>3. \A i \in {Target, Target + 1} : file'[i] = file[i]
      BY <1>3, <3>1, <3>2
    <3>4. HasRead(file, file', x, source) /\ file'[source + 1] = file[source + 1]
      BY <1>3, <1>7, <3>1, <3>2 DEF x
    <3> QED
      BY <2>2, <3>1, <3>2, <3>3, <3>4
  <2> QED
    BY <2>1, <2>2
<1> HIDE DEF x, y
<1> QED
  BY <1>4, <1>5, <1>6, <1>7, <1>8 DEF x, y

(* Two blocks, or the last of one file, are opened; or the pass ends. *)
LEMMA FilePairKeeps ==
  ASSUME IInv, FilePair, UNCHANGED <<setup, using>>
  PROVE  Engine'
<1>0. /\ Engine /\ pc = "filepair" /\ Merging /\ cont = "retrieve" /\ ret # 10 /\ FilesPair
      /\ UNCHANGED <<setup, using, memory, unique, retrieving, files_used, destination_file, empty,
                     cont, pending, sort_return, failed, ended, out, ret, retrieval_queue, destination>>
  <2>1. Engine /\ Stages /\ pc = "filepair" /\ FilesPair
    BY DEF IInv, Engine, Files, FilePair
  <2> QED
    BY <2>1 DEF Stages, Merging, FilePair, engine, reply
<1>1. /\ Shapes /\ setup \in Setups /\ source \in {0, 2}
      /\ queue \in [Four -> Seq(Item)] /\ file \in [Four -> File] /\ destination \in Four
      /\ ended \in [0..1 -> BOOLEAN] /\ SizeMax \in Nat \ {0}
      /\ retrieval_queue \in {0, 2} /\ ret \in {0, 10, 30}
      /\ out \in Seq([key : Keys, unique : 0..Len(setup.choices)])
      /\ \A i \in Four : /\ Len(queue[i]) = 1 /\ queue[i] \in Seq(Item)
                         /\ First(i) \in Item /\ (~First(i).eob => IsRecord(First(i)))
      /\ \A i \in Four : /\ file[i] \in File /\ file[i].data \in Seq(Item)
                         /\ Len(file[i].data) \in Nat
                         /\ file[i].at \in Nat \ {0} /\ file[i].at <= Len(file[i].data) + 1
                         /\ file[i].count \in 0..SizeMax /\ file[i].count \in Nat
                         /\ Left(i) \in Nat /\ RisingFrom(file[i].data, file[i].at)
                         /\ \A j \in 1..Len(file[i].data) :
                              IF file[i].data[j].eob THEN file[i].data[j] = Marker
                              ELSE IsRecord(file[i].data[j])
  BY <1>0, MergeFacts
<1>2. /\ FilesInTurn
      /\ \A i \in Four : Closed(file[i].data)
      /\ First(source).eob /\ First(source + 1).eob
      /\ file[source].count = Left(source)
      /\ \/ file[source + 1].count = Left(source + 1) /\ Balanced(Left(source), Left(source + 1))
         \/ Left(source) = 0 /\ Left(source + 1) = 0
  BY <1>0 DEF FilesPair
<1>3. /\ Target \in {0, 2} /\ Target # source
      /\ Four = {source, source + 1, Target, Target + 1}
      /\ source \in Four /\ source + 1 \in Four /\ Target \in Four /\ Target + 1 \in Four
      /\ {source, source + 1} \cap {Target, Target + 1} = {}
      /\ \A i \in Four : Base(i) = source <=> i \in {source, source + 1}
  BY <1>1, Lists
<1>4. /\ InTurn
      /\ \A i \in {Target, Target + 1} : file[i].at = 1 /\ file[i].count = Left(i) /\ First(i).eob
      /\ Left(Target) = Left(Target + 1) + (destination - Target)
      /\ Left(Target) + Left(Target + 1) + file[source].count >= 2
      /\ Left(Target) + Left(Target + 1) + file[source].count <= SizeMax
  BY <1>2 DEF FilesInTurn
<1>5. /\ destination \in {Target, Target + 1} /\ Base(destination) = Target
      /\ destination - Target \in {0, 1}
  BY <1>1, <1>4, Turns
<1>6. CASE file[source].count = 0
  <2>1. /\ source' = Target /\ queue' = queue /\ pc' = "filepass"
        /\ file' = [i \in Four |-> IF Base(i) = source THEN Spent(file[i])
                                   ELSE [file[i] EXCEPT !.at = 1]]
    BY <1>5, <1>6 DEF FilePair
  <2>2. Target' = source
    BY <1>1, <2>1 DEF Target
  <2>3. /\ \A i \in {source, source + 1} : file'[i] = Spent(file[i])
        /\ \A i \in {Target, Target + 1} : file'[i] = [file[i] EXCEPT !.at = 1]
    BY <1>3, <2>1
  <2>4. \A i \in {source, source + 1} :
          file'[i] \in File /\ file'[i].data = <<>> /\ file'[i].at = 1
    <3> SUFFICES ASSUME NEW i \in {source, source + 1}
                 PROVE  file'[i] \in File /\ file'[i].data = <<>> /\ file'[i].at = 1
      OBVIOUS
    <3>1. file[i] \in File /\ file'[i] = Spent(file[i])
      BY <1>1, <1>3, <2>3
    <3> QED
      BY <3>1, Emptied
  <2>5. \A i \in {Target, Target + 1} :
          /\ file'[i] \in File /\ file'[i].data = file[i].data /\ file'[i].at = 1
          /\ file'[i].count = file[i].count
    <3> SUFFICES ASSUME NEW i \in {Target, Target + 1}
                 PROVE  /\ file'[i] \in File /\ file'[i].data = file[i].data /\ file'[i].at = 1
                        /\ file'[i].count = file[i].count
      OBVIOUS
    <3>1. file[i] \in File /\ file'[i] = [file[i] EXCEPT !.at = 1]
      BY <1>1, <1>3, <2>3
    <3> QED
      BY <3>1, Rewound
  <2>6. file' \in [Four -> File]
    <3>1. \A i \in Four : file'[i] \in File
      BY <1>3, <2>4, <2>5
    <3> QED
      BY <2>1, <3>1
  <2>7. Len(<<>>) = 0 /\ Closed(<<>>) /\ RisingFrom(<<>>, 1)
    BY DEF Closed, RisingFrom
  <2>8. \A i \in Four : /\ file'[i].at = 1 /\ file'[i].at <= Len(file'[i].data) + 1
                        /\ RisingFrom(file'[i].data, file'[i].at) /\ Closed(file'[i].data)
                        /\ \A j \in 1..Len(file'[i].data) :
                             IF file'[i].data[j].eob THEN file'[i].data[j] = Marker
                             ELSE IsRecord(file'[i].data[j])
    <3> SUFFICES ASSUME NEW i \in Four
                 PROVE  /\ file'[i].at = 1 /\ file'[i].at <= Len(file'[i].data) + 1
                        /\ RisingFrom(file'[i].data, file'[i].at) /\ Closed(file'[i].data)
                        /\ \A j \in 1..Len(file'[i].data) :
                             IF file'[i].data[j].eob THEN file'[i].data[j] = Marker
                             ELSE IsRecord(file'[i].data[j])
      OBVIOUS
    <3>1. CASE i \in {source, source + 1}
      <4>1. file'[i].data = <<>> /\ file'[i].at = 1
        BY <2>4, <3>1
      <4> QED
        BY <2>7, <4>1
    <3>2. CASE i \in {Target, Target + 1}
      <4>1. file'[i].data = file[i].data /\ file'[i].at = 1 /\ file[i].at = 1
        BY <1>4, <2>5, <3>2
      <4> QED
        BY <1>1, <1>2, <4>1
    <3> QED
      BY <1>3, <3>1, <3>2
  <2>9. \A i \in Four : /\ Len(queue'[i]) = 1 /\ (~queue'[i][1].eob => IsRecord(queue'[i][1]))
                        /\ queue'[i][1].eob
    BY <1>1, <1>2, <1>3, <1>4, <2>1 DEF First
  <2>10. /\ Shapes' /\ Stages' /\ InMemory' /\ GoodItems' /\ Queues' /\ FilesRise'
    <3>1. pc' \in Merge /\ destination' \in Four /\ retrieval_queue' \in {0, 2}
          /\ queue' \in [Four -> Seq(Item)] /\ source' \in {0, 2}
      BY <1>0, <1>1, <1>3, <2>1 DEF Merge
    <3> QED
      BY <1>0, <1>1, <2>6, <2>8, <2>9, <3>1, MergeSteps
  <2>11. \A i \in {Target, Target + 1} : Left(i)' = Left(i) /\ file'[i].count = Left(i)
    BY <1>4, <2>5 DEF Left
  <2>12. FilesPass'
    <3>1. \A i \in Four : First(i)'.eob /\ file'[i].at = 1 /\ Closed(file'[i].data)
      BY <2>8, <2>9 DEF First
    <3>2. file'[source].data = <<>> /\ file'[source + 1].data = <<>>
      BY <2>4
    <3>3. /\ Left(source)' = Left(Target) /\ Left(source + 1)' = Left(Target + 1)
          /\ file'[Target].count = Left(Target) /\ file'[Target + 1].count = Left(Target + 1)
      BY <2>1, <2>11 DEF Left
    <3>4. /\ Balanced(Left(Target), Left(Target + 1))
          /\ Left(Target) + Left(Target + 1) >= 2
      <4>1. Left(Target) \in Nat /\ Left(Target + 1) \in Nat
        BY <1>1, <1>3
      <4> QED
        BY <1>4, <1>5, <1>6, <4>1 DEF Balanced
    <3> QED
      BY <2>1, <2>2, <3>1, <3>2, <3>3, <3>4 DEF FilesPass
  <2>13. FilesPair' /\ FilesMove' /\ FilesOut'
    BY <2>1 DEF FilesPair, FilesMove, FilesOut, Reading
  <2> QED
    BY <2>10, <2>12, <2>13 DEF Engine, Files
<1>7. CASE file[source].count # 0
  <2> DEFINE x == ReadItem(file, source)
             y == IF Paired THEN ReadItem(file, source + 1) ELSE [First(source + 1) EXCEPT !.eob = TRUE]
  <2>0. /\ Left(source) = file[source].count /\ Left(source) >= 1 /\ source # source + 1
        /\ file[source + 1].count = Left(source + 1) /\ Balanced(Left(source), Left(source + 1))
        /\ Paired <=> Left(source + 1) >= 1
        /\ queue' = [queue EXCEPT ![source] = <<x>>, ![source + 1] = <<y>>]
        /\ pc' = "filemove" /\ source' = source /\ file' \in [Four -> File]
        /\ HasRead(file, file', x, source)
        /\ \A i \in {Target, Target + 1} : file'[i] = file[i]
        /\ Paired => HasRead(file, file', y, source + 1)
        /\ ~Paired => file'[source + 1] = file[source + 1] /\ y = [First(source + 1) EXCEPT !.eob = TRUE]
    BY <1>7, FilePairReads
  <2> HIDE DEF x, y
  <2>1. Left(source) = file[source].count /\ Left(source) \in Nat /\ Left(source) >= 1 /\ Left(source + 1) \in Nat
    BY <1>1, <1>3, <2>0
  <2>2. file[source + 1].count = Left(source + 1) /\ Balanced(Left(source), Left(source + 1))
    BY <2>0
  <2>3. Paired <=> Left(source + 1) >= 1
    BY <2>0
  <2>4. source # source + 1 /\ setup \in Setups /\ file \in [Four -> File]
    BY <1>1, <2>0
  <2>5. /\ queue' = [queue EXCEPT ![source] = <<x>>, ![source + 1] = <<y>>]
        /\ pc' = "filemove" /\ source' = source /\ file' \in [Four -> File]
        /\ HasRead(file, file', x, source)
        /\ \A i \in {Target, Target + 1} : file'[i] = file[i]
        /\ Paired => HasRead(file, file', y, source + 1)
        /\ ~Paired => file'[source + 1] = file[source + 1] /\ y = [First(source + 1) EXCEPT !.eob = TRUE]
    BY <2>0
  <2>6. /\ x \in Item /\ (~x.eob => IsRecord(x))
        /\ Left(source) = Blocks(file'[source].data, file'[source].at) + (IF x.eob THEN 1 ELSE 0)
        /\ Blocks(file'[source].data, file'[source].at) \in Nat
        /\ RisingFrom(file'[source].data, file'[source].at)
        /\ file'[source].at <= Len(file'[source].data) + 1
        /\ file'[source].data = file[source].data /\ file'[source].count = file[source].count
        /\ ~x.eob /\ file'[source].at <= Len(file'[source].data)
              /\ ~file'[source].data[file'[source].at].eob
             => Less(x, file'[source].data[file'[source].at])
    BY <1>0, <1>3, <2>5, ReadRecord
  <2>7. ASSUME Paired
        PROVE  /\ y \in Item /\ (~y.eob => IsRecord(y))
               /\ Left(source + 1)
                    = Blocks(file'[source + 1].data, file'[source + 1].at) + (IF y.eob THEN 1 ELSE 0)
               /\ Blocks(file'[source + 1].data, file'[source + 1].at) \in Nat
               /\ RisingFrom(file'[source + 1].data, file'[source + 1].at)
               /\ file'[source + 1].at <= Len(file'[source + 1].data) + 1
               /\ file'[source + 1].data = file[source + 1].data
               /\ file'[source + 1].count = file[source + 1].count
               /\ ~y.eob /\ file'[source + 1].at <= Len(file'[source + 1].data)
                     /\ ~file'[source + 1].data[file'[source + 1].at].eob
                    => Less(y, file'[source + 1].data[file'[source + 1].at])
    <3>1. HasRead(file, file', y, source + 1)
      BY <2>5, <2>7
    <3> QED
      BY <1>0, <1>3, <3>1, ReadRecord
  <2>8. ASSUME ~Paired
        PROVE  y \in Item /\ y.eob /\ file'[source + 1] = file[source + 1]
    <3>1. y = [First(source + 1) EXCEPT !.eob = TRUE] /\ file'[source + 1] = file[source + 1]
          /\ First(source + 1) \in Item /\ setup \in Setups
      BY <1>1, <1>3, <2>5, <2>8
    <3>2. \A z \in Item : \A b \in BOOLEAN : [z EXCEPT !.eob = b] \in Item /\ [z EXCEPT !.eob = b].eob = b
      BY <3>1, Items
    <3>3. [First(source + 1) EXCEPT !.eob = TRUE] \in Item
      BY <3>1, <3>2
    <3>4. [First(source + 1) EXCEPT !.eob = TRUE].eob = TRUE
      BY <3>1, <3>2
    <3> QED
      BY <3>1, <3>3, <3>4
  <2>9. /\ y \in Item /\ (~y.eob => IsRecord(y)) /\ (~Paired => y.eob)
        /\ RisingFrom(file'[source + 1].data, file'[source + 1].at)
        /\ file'[source + 1].at <= Len(file'[source + 1].data) + 1
        /\ file'[source + 1].data = file[source + 1].data
        /\ file'[source + 1].count = file[source + 1].count
    <3>1. /\ RisingFrom(file[source + 1].data, file[source + 1].at)
          /\ file[source + 1].at <= Len(file[source + 1].data) + 1
      BY <1>1, <1>3
    <3>2. CASE Paired
      BY <2>7, <3>2
    <3>3. CASE ~Paired
      BY <2>8, <3>1, <3>3
    <3> QED
      BY <3>2, <3>3
  <2>10. /\ <<x>> \in Seq(Item) /\ <<y>> \in Seq(Item) /\ Len(<<x>>) = 1 /\ Len(<<y>>) = 1
         /\ <<x>>[1] = x /\ <<y>>[1] = y
    BY <2>6, <2>9
  <2>11. /\ queue' \in [Four -> Seq(Item)] /\ queue'[source] = <<x>> /\ queue'[source + 1] = <<y>>
         /\ \A i \in {Target, Target + 1} : queue'[i] = queue[i]
    BY <1>1, <1>3, <2>4, <2>5, <2>10
  <2>12. Target' = Target /\ source' = source
    BY <2>5 DEF Target
  <2>13. /\ First(source)' = x /\ First(source + 1)' = y
         /\ \A i \in {Target, Target + 1} : First(i)' = First(i)
    BY <2>10, <2>11, <2>12 DEF First
  <2>14. \A i \in Four : Len(queue'[i]) = 1 /\ (~queue'[i][1].eob => IsRecord(queue'[i][1]))
    <3>1. \A i \in {Target, Target + 1} :
            Len(queue'[i]) = 1 /\ (~queue'[i][1].eob => IsRecord(queue'[i][1]))
      BY <1>1, <1>3, <2>11 DEF First
    <3>2. /\ Len(queue'[source]) = 1 /\ (~queue'[source][1].eob => IsRecord(queue'[source][1]))
          /\ Len(queue'[source + 1]) = 1 /\ (~queue'[source + 1][1].eob => IsRecord(queue'[source + 1][1]))
      BY <2>6, <2>9, <2>10, <2>11
    <3> QED
      BY <1>3, <3>1, <3>2
  <2>15. \A i \in Four : /\ file'[i].at <= Len(file'[i].data) + 1
                         /\ RisingFrom(file'[i].data, file'[i].at)
                         /\ file'[i].data = file[i].data /\ file'[i].count = file[i].count
    <3>1. \A i \in {Target, Target + 1} : /\ file'[i].at <= Len(file'[i].data) + 1
                                          /\ RisingFrom(file'[i].data, file'[i].at)
                                          /\ file'[i].data = file[i].data /\ file'[i].count = file[i].count
      BY <1>1, <1>3, <2>5
    <3> QED
      BY <1>3, <2>6, <2>9, <3>1
  <2>16. \A i \in Four : \A j \in 1..Len(file'[i].data) :
           IF file'[i].data[j].eob THEN file'[i].data[j] = Marker ELSE IsRecord(file'[i].data[j])
    BY <1>1, <2>15
  <2>17. /\ Shapes' /\ Stages' /\ InMemory' /\ GoodItems' /\ Queues' /\ FilesRise'
    <3>1. /\ pc' \in Merge /\ destination' \in Four /\ source' \in {0, 2}
          /\ retrieval_queue' \in {0, 2} /\ file' \in [Four -> File]
      BY <1>0, <1>1, <2>5 DEF Merge
    <3> QED
      BY <1>0, <1>1, <2>11, <2>14, <2>15, <2>16, <3>1, MergeSteps
  <2>18. \A i \in {Target, Target + 1} : Left(i)' = Left(i) /\ file'[i] = file[i]
    BY <2>5 DEF Left
  <2>19. FilesInTurn'
    <3>1. InTurn'
      BY <1>0, <1>4, <2>12 DEF InTurn
    <3>2. \A i \in {Target, Target + 1} : file'[i].at = 1 /\ file'[i].count = Left(i)' /\ First(i)'.eob
      BY <1>4, <2>13, <2>18
    <3>3. /\ Left(Target)' = Left(Target) /\ Left(Target + 1)' = Left(Target + 1)
      BY <2>12, <2>18 DEF Left
    <3> QED
      BY <1>0, <1>4, <2>6, <2>12, <3>1, <3>2, <3>3 DEF FilesInTurn
  <2>20. FilesMove'
    <3>1. \A i \in Four : Closed(file'[i].data)
      BY <1>2, <2>15
    <3>2. ~Unended(file'[destination].data)
      BY <1>1, <3>1 DEF Closed, Unended
    <3>3. /\ Left(source)' = Blocks(file'[source].data, file'[source].at)
          /\ Left(source + 1)' = Blocks(file'[source + 1].data, file'[source + 1].at)
      BY <2>12 DEF Left
    <3>4. Opened(source)'
      <4>1. file'[source].count >= 1
        BY <2>1, <2>6
      <4>2. Left(source)' = IF x.eob THEN file'[source].count - 1 ELSE file'[source].count
        <5>1. /\ Left(source) = Left(source)' + (IF x.eob THEN 1 ELSE 0) /\ Left(source)' \in Nat
              /\ file'[source].count = Left(source)
          BY <2>1, <2>6, <3>3
        <5>2. CASE x.eob
          BY <5>1, <5>2
        <5>3. CASE ~x.eob
          BY <5>1, <5>3
        <5> QED
          BY <5>2, <5>3
      <4> QED
        BY <2>12, <2>13, <4>1, <4>2 DEF Opened
    <3>5. \/ Opened(source + 1)'
          \/ file'[source + 1].count = 0 /\ First(source + 1)'.eob /\ Left(source + 1)' = 0
      <4>1. CASE Paired
        <5>1. file'[source + 1].count >= 1
          BY <2>2, <2>3, <2>9, <4>1
        <5>2. Left(source + 1)' = IF y.eob THEN file'[source + 1].count - 1 ELSE file'[source + 1].count
          BY <2>1, <2>2, <2>7, <3>3, <4>1
        <5> QED
          BY <2>12, <2>13, <5>1, <5>2 DEF Opened
      <4>2. CASE ~Paired
        <5>1. Left(source + 1) = 0
          BY <2>1, <2>3, <4>2
        <5>2. file'[source + 1] = file[source + 1] /\ y.eob
          BY <2>8, <4>2
        <5>3. Left(source + 1)' = Left(source + 1)
          BY <2>12, <5>2 DEF Left
        <5> QED
          BY <2>2, <2>13, <5>1, <5>2, <5>3
      <4> QED
        BY <4>1, <4>2
    <3>6. Balanced(file'[source].count, file'[source + 1].count)
      BY <2>1, <2>2, <2>6, <2>9
    <3>7. FirstRises(source)'
      BY <2>6, <2>12, <2>13 DEF FirstRises
    <3>8. FirstRises(source + 1)'
      <4>1. CASE Paired
        BY <2>7, <2>12, <2>13, <4>1 DEF FirstRises
      <4>2. CASE ~Paired
        BY <2>9, <2>12, <2>13, <4>2 DEF FirstRises
      <4> QED
        BY <4>1, <4>2
    <3> QED
      BY <1>0, <2>12, <2>19, <3>1, <3>2, <3>4, <3>5, <3>6, <3>7, <3>8 DEF FilesMove
  <2>21. FilesPass' /\ FilesPair' /\ FilesOut'
    BY <2>5 DEF FilesPass, FilesPair, FilesOut, Reading
  <2> QED
    BY <2>17, <2>20, <2>21 DEF Engine, Files
<1> QED
  BY <1>6, <1>7

(* Of the two heads, the merge takes the one that comes first. *)
LEMMA HeadIs ==
  ASSUME IInv, pc = "filemove" \/ (Reading /\ pc = "retrieve"), ~(Head1(0).eob /\ Head1(1).eob)
  PROVE  /\ HeadChosen \in {0, 1} /\ source + HeadChosen \in {source, source + 1}
         /\ source + HeadChosen \in Four /\ ~First(source + HeadChosen).eob
         /\ \A m \in {0, 1} : m # HeadChosen /\ ~First(source + m).eob
              => Less(First(source + HeadChosen), First(source + m))
<1>1. /\ Engine /\ (Merging \/ Reading) /\ OnFiles /\ NoTwice
  <2>1. Engine /\ Stages /\ pc \notin {"broken", "crashed"} /\ (Merging \/ Reading) /\ PoolKept
    BY DEF IInv, Engine, Merging, Reading
  <2>2. retrieving /\ files_used
    BY <2>1, MergeFacts
  <2> QED
    BY <2>1, <2>2 DEF PoolKept, OnFiles
<1>2. /\ source \in {0, 2} /\ queue \in [Four -> Seq(Item)] /\ setup \in Setups
      /\ \A i \in Four : First(i) \in Item /\ Len(queue[i]) = 1
  BY <1>1, MergeFacts
<1>3. source \in Four /\ source + 1 \in Four /\ source # source + 1 /\ source + 0 = source
  BY <1>2, Lists
<1>4. Head1(0) = First(source) /\ Head1(1) = First(source + 1)
  BY <1>3 DEF Head1, First
<1>5. HeadChosen = IF First(source).eob THEN 1
                   ELSE IF First(source + 1).eob THEN 0
                   ELSE IF Less(First(source), First(source + 1)) THEN 0 ELSE 1
  BY <1>4 DEF HeadChosen
<1>6. ~First(source).eob \/ ~First(source + 1).eob
  BY <1>4
<1>7. ASSUME ~First(source).eob, ~First(source + 1).eob
      PROVE  ~Less(First(source), First(source + 1)) <=> Less(First(source + 1), First(source))
  <2>1. First(source).unique # First(source + 1).unique
    <3>1. queue[source] # <<>> /\ queue[source + 1] # <<>>
      BY <1>2, <1>3, EmptySeq
    <3> QED
      BY <1>1, <1>2, <1>3, <1>7, <3>1, QueueStamps DEF First
  <2>2. /\ First(source).key \in Nat /\ First(source).unique \in Nat
        /\ First(source + 1).key \in Nat /\ First(source + 1).unique \in Nat
    BY <1>2, <1>3, Items
  <2> QED
    BY <2>1, <2>2, LessTotal
<1>8. CASE First(source).eob
  <2>1. HeadChosen = 1
    BY <1>5, <1>8
  <2> QED
    BY <1>3, <1>6, <1>8, <2>1
<1>9. CASE ~First(source).eob /\ First(source + 1).eob
  <2>1. HeadChosen = 0
    BY <1>5, <1>9
  <2> QED
    BY <1>3, <1>9, <2>1
<1>10. CASE ~First(source).eob /\ ~First(source + 1).eob
  <2>1. CASE Less(First(source), First(source + 1))
    <3>1. HeadChosen = 0
      BY <1>5, <1>10, <2>1
    <3> QED
      BY <1>3, <1>10, <2>1, <3>1
  <2>2. CASE ~Less(First(source), First(source + 1))
    <3>1. HeadChosen = 1
      BY <1>5, <1>10, <2>2
    <3>2. Less(First(source + 1), First(source))
      BY <1>7, <1>10, <2>2
    <3> QED
      BY <1>3, <1>10, <3>1, <3>2
  <2> QED
    BY <2>1, <2>2
<1> QED
  BY <1>8, <1>9, <1>10

(* What one turn of the merge does: the record at the head goes behind the *)
(* destination, and the next item of its file takes its place.             *)
LEMMA FileMoves ==
  ASSUME IInv, FileMove
  PROVE  LET i == source + HeadChosen
             d == destination
             x == ReadItem(file, i)
         IN
         /\ i \in {source, source + 1} /\ i \in Four /\ i # d /\ d \in {Target, Target + 1}
         /\ d \in Four /\ ~First(i).eob /\ Opened(i)
         /\ pc' = "filemove" /\ HasRead(file, file', x, i) /\ file' \in [Four -> File]
         /\ queue' = [queue EXCEPT ![i] = <<x>>]
         /\ file'[d].data = Append(file[d].data, First(i)) /\ file'[d].at = file[d].at
         /\ file'[d].count = file[d].count
         /\ \A k \in Four \ {i, d} : file'[k] = file[k]
<1> DEFINE i == source + HeadChosen
           d == destination
           x == ReadItem(file, i)
           t == Append(file[d].data, First(i))
           h == [file EXCEPT ![d].data = t]
<1>0. /\ Engine /\ pc = "filemove" /\ Merging /\ FilesMove /\ ~(Head1(0).eob /\ Head1(1).eob)
      /\ setup \in Setups /\ source \in {0, 2} /\ file \in [Four -> File]
      /\ \A k \in Four : /\ First(k) \in Item /\ file[k] \in File /\ file[k].data \in Seq(Item)
                         /\ file[k].at <= Len(file[k].data) + 1
  <2>1. Engine /\ pc = "filemove" /\ Merging /\ FilesMove /\ ~(Head1(0).eob /\ Head1(1).eob)
    BY DEF IInv, Engine, Files, FileMove, Merging
  <2> QED
    BY <2>1, MergeFacts
<1>1. i \in {source, source + 1} /\ i \in Four /\ ~First(i).eob
  BY <1>0, HeadIs
<1>2. /\ d \in {Target, Target + 1} /\ d \in Four /\ d # source /\ d # source + 1
  <2>1. InTurn
    BY <1>0 DEF FilesMove, FilesInTurn
  <2> QED
    BY <1>0, <2>1, Turns
<1>3. Opened(i)
  BY <1>0, <1>1 DEF FilesMove
<1>4. Blocks(file[i].data, file[i].at) >= 1
  BY <1>1, <1>3 DEF Opened, Left
<1>5. i # d
  BY <1>1, <1>2
<1>6. /\ file' = Advance(h, i) /\ queue' = [queue EXCEPT ![i] = <<x>>]
      /\ pc' = IF Garbage(file, i) THEN "garbage" ELSE pc
  BY <1>0 DEF FileMove, First
<1>7. /\ h[i] = file[i] /\ h \in [Four -> File]
      /\ h[d].data = t /\ h[d].at = file[d].at /\ h[d].count = file[d].count
      /\ \A k \in Four \ {d} : h[k] = file[k]
  <2>1. t \in Seq(Item) /\ file[d] \in File
    BY <1>0, <1>1, <1>2
  <2>2. file[d] = [data |-> file[d].data, at |-> file[d].at, count |-> file[d].count, tail |-> file[d].tail]
        /\ file[d].at \in Nat \ {0} /\ file[d].count \in 0..SizeMax /\ file[d].tail \in BOOLEAN
    BY <2>1 DEF File
  <2>3. h = [file EXCEPT ![d] = [file[d] EXCEPT !.data = t]]
    BY <1>0, <1>2
  <2> HIDE DEF t
  <2>4. h[d] = [data |-> t, at |-> file[d].at, count |-> file[d].count, tail |-> file[d].tail]
    BY <1>0, <1>2, <2>2, <2>3
  <2>5. h[d] \in File
    BY <2>1, <2>2, <2>4 DEF File
  <2>6. h = [file EXCEPT ![d] = h[d]]
    BY <1>0, <1>2, <2>3
  <2> HIDE DEF h
  <2>7. h \in [Four -> File] /\ \A k \in Four \ {d} : h[k] = file[k]
    BY <1>0, <1>2, <2>5, <2>6
  <2> QED
    BY <1>1, <1>5, <2>4, <2>7
<1> HIDE DEF h, t, i, d
<1>8. /\ HasRead(h, Advance(h, i), ReadItem(h, i), i) /\ ~Garbage(h, i)
      /\ Advance(h, i) \in [Four -> File]
      /\ \A k \in Four \ {i} : Advance(h, i)[k] = h[k]
  <2>1. /\ Blocks(h[i].data, h[i].at) >= 1 /\ h[i].at <= Len(h[i].data) + 1
    BY <1>0, <1>1, <1>4, <1>7
  <2> QED
    BY <1>0, <1>1, <1>7, <2>1, ReadOne
<1>9. ReadItem(h, i) = x /\ ~Garbage(file, i)
  BY <1>7, <1>8 DEF ReadItem, Garbage
<1>10. HasRead(file, file', x, i)
  BY <1>6, <1>7, <1>8, <1>9 DEF HasRead
<1>11. file'[d] = h[d] /\ \A k \in Four \ {i, d} : file'[k] = file[k]
  BY <1>2, <1>5, <1>6, <1>7, <1>8
<1> QED
  BY <1>0, <1>1, <1>2, <1>3, <1>5, <1>6, <1>7, <1>8, <1>9, <1>10, <1>11 DEF i, d, t

(* The smaller of two heads is written behind the block that grows. *)
LEMMA FileMoveKeeps ==
  ASSUME IInv, FileMove, UNCHANGED <<setup, using>>
  PROVE  Engine'
<1> DEFINE i == source + HeadChosen
           d == destination
           x == ReadItem(file, i)
<1>0. /\ Engine /\ pc = "filemove" /\ Merging /\ cont = "retrieve" /\ ret # 10 /\ FilesMove
      /\ ~(Head1(0).eob /\ Head1(1).eob)
      /\ UNCHANGED <<setup, using, memory, unique, retrieving, files_used, destination_file, empty,
                     cont, pending, sort_return, failed, source, ended, out, ret, retrieval_queue,
                     destination>>
  <2>1. Engine /\ Stages /\ pc = "filemove" /\ FilesMove /\ ~(Head1(0).eob /\ Head1(1).eob)
    BY DEF IInv, Engine, Files, FileMove
  <2> QED
    BY <2>1 DEF Stages, Merging, FileMove, engine, local, reply
<1>1. /\ Shapes /\ setup \in Setups /\ source \in {0, 2}
      /\ queue \in [Four -> Seq(Item)] /\ file \in [Four -> File] /\ destination \in Four
      /\ ended \in [0..1 -> BOOLEAN] /\ SizeMax \in Nat \ {0}
      /\ retrieval_queue \in {0, 2} /\ ret \in {0, 10, 30}
      /\ out \in Seq([key : Keys, unique : 0..Len(setup.choices)])
      /\ \A k \in Four : /\ Len(queue[k]) = 1 /\ queue[k] \in Seq(Item)
                         /\ First(k) \in Item /\ (~First(k).eob => IsRecord(First(k)))
      /\ \A k \in Four : /\ file[k] \in File /\ file[k].data \in Seq(Item)
                         /\ Len(file[k].data) \in Nat
                         /\ file[k].at \in Nat \ {0} /\ file[k].at <= Len(file[k].data) + 1
                         /\ file[k].count \in 0..SizeMax /\ file[k].count \in Nat
                         /\ Left(k) \in Nat /\ RisingFrom(file[k].data, file[k].at)
                         /\ \A j \in 1..Len(file[k].data) :
                              IF file[k].data[j].eob THEN file[k].data[j] = Marker
                              ELSE IsRecord(file[k].data[j])
  BY <1>0, MergeFacts
<1>2. /\ FilesInTurn
      /\ \A k \in Four \ {destination} : Closed(file[k].data)
      /\ Opened(source)
      /\ \/ Opened(source + 1)
         \/ file[source + 1].count = 0 /\ First(source + 1).eob /\ Left(source + 1) = 0
      /\ Balanced(file[source].count, file[source + 1].count)
      /\ FirstRises(source) /\ FirstRises(source + 1)
      /\ Unended(file[destination].data) =>
           \A m \in 0..1 : ~First(source + m).eob =>
             Less(LastOf(file[destination].data), First(source + m))
  BY <1>0 DEF FilesMove
<1>3. /\ Target \in {0, 2} /\ Target # source
      /\ Four = {source, source + 1, Target, Target + 1}
      /\ source \in Four /\ source + 1 \in Four /\ Target \in Four /\ Target + 1 \in Four
      /\ {source, source + 1} \cap {Target, Target + 1} = {}
  BY <1>1, Lists
<1>4. /\ InTurn
      /\ \A k \in {Target, Target + 1} : file[k].at = 1 /\ file[k].count = Left(k) /\ First(k).eob
      /\ Left(Target) = Left(Target + 1) + (destination - Target)
      /\ Left(Target) + Left(Target + 1) + file[source].count >= 2
      /\ Left(Target) + Left(Target + 1) + file[source].count <= SizeMax
  BY <1>2 DEF FilesInTurn
<1>5. /\ i \in {source, source + 1} /\ i \in Four /\ i # d /\ d \in {Target, Target + 1}
      /\ d \in Four /\ ~First(i).eob /\ Opened(i)
      /\ pc' = "filemove" /\ HasRead(file, file', x, i) /\ file' \in [Four -> File]
      /\ queue' = [queue EXCEPT ![i] = <<x>>]
      /\ file'[d].data = Append(file[d].data, First(i)) /\ file'[d].at = file[d].at
      /\ file'[d].count = file[d].count
      /\ \A k \in Four \ {i, d} : file'[k] = file[k]
  BY <1>0, FileMoves
<1>6. \A m \in {0, 1} : m # HeadChosen /\ ~First(source + m).eob => Less(First(i), First(source + m))
  BY <1>0, HeadIs
<1>7. HeadChosen \in {0, 1}
  BY <1>0, HeadIs
<1>8. Target' = Target /\ source' = source /\ destination' = d
  BY <1>0 DEF Target
<1>9. file[d].at = 1
  BY <1>4, <1>5
<1> HIDE DEF x, d
<1>10. /\ x \in Item /\ (~x.eob => IsRecord(x))
       /\ Left(i) = Blocks(file'[i].data, file'[i].at) + (IF x.eob THEN 1 ELSE 0)
       /\ Blocks(file'[i].data, file'[i].at) \in Nat
       /\ RisingFrom(file'[i].data, file'[i].at)
       /\ file'[i].at <= Len(file'[i].data) + 1
       /\ file'[i].data = file[i].data /\ file'[i].count = file[i].count
       /\ ~x.eob /\ file'[i].at <= Len(file'[i].data)
             /\ ~file'[i].data[file'[i].at].eob
            => Less(x, file'[i].data[file'[i].at])
  BY <1>0, <1>5, ReadRecord
<1>11. <<x>> \in Seq(Item) /\ Len(<<x>>) = 1 /\ <<x>>[1] = x
  BY <1>10
<1>12. /\ queue' \in [Four -> Seq(Item)] /\ queue'[i] = <<x>>
       /\ \A k \in Four \ {i} : queue'[k] = queue[k]
  <2> HIDE DEF i
  <2> QED
    BY <1>1, <1>5, <1>11
<1>13. queue'[i][1] = x /\ \A k \in Four \ {i} : queue'[k][1] = First(k)
  BY <1>11, <1>12 DEF First
<1>14. \A k \in Four : Len(queue'[k]) = 1 /\ (~queue'[k][1].eob => IsRecord(queue'[k][1]))
  <2>1. \A k \in Four \ {i} : Len(queue'[k]) = 1 /\ (~queue'[k][1].eob => IsRecord(queue'[k][1]))
    BY <1>1, <1>12, <1>13
  <2>2. Len(queue'[i]) = 1 /\ (~queue'[i][1].eob => IsRecord(queue'[i][1]))
    BY <1>10, <1>11, <1>12
  <2> QED
    BY <2>1, <2>2
<1> DEFINE s == file[d].data
           z == First(i)
           t == Append(s, z)
<1>15. /\ s \in Seq(Item) /\ z \in Item /\ ~z.eob /\ IsRecord(z) /\ Len(s) \in Nat /\ 1 \in 1..Len(s) + 1
       /\ file'[d].data = t /\ file'[d].at = 1
  BY <1>1, <1>5, <1>9
<1>16. RisingFrom(s, 1)
  BY <1>1, <1>5, <1>9
<1>17. Unended(s) => Less(LastOf(s), z)
  BY <1>2, <1>5, <1>7 DEF d
<1> HIDE DEF s, z
<1>18. /\ t \in Seq(Item) /\ Len(t) = Len(s) + 1 /\ t[Len(s) + 1] = z
       /\ \A j \in 1..Len(s) : t[j] = s[j]
       /\ LastOf(t) = z
  BY <1>15 DEF LastOf
<1>19. /\ Blocks(t, 1) = Blocks(s, 1) + (IF z.eob THEN 1 ELSE 0)
       /\ Unended(t) <=> ~z.eob
  BY <1>15, BlocksAppend
<1>20. RisingFrom(t, 1)
  <2>1. RisingFrom(s, 1) /\ (Unended(s) /\ ~z.eob => Less(s[Len(s)], z)) => RisingFrom(t, 1)
    BY <1>15, RisingAppend
  <2> QED
    BY <1>16, <1>17, <2>1 DEF LastOf
<1>21. Blocks(t, 1) = Blocks(s, 1)
  <2>1. Blocks(s, 1) \in Nat
    BY <1>15, BlocksFinite
  <2> QED
    BY <1>15, <1>19, <2>1
<1> HIDE DEF t
<1>22. \A k \in Four : file'[k].at <= Len(file'[k].data) + 1 /\ RisingFrom(file'[k].data, file'[k].at)
  <2>1. \A k \in Four \ {i, d} :
          file'[k].at <= Len(file'[k].data) + 1 /\ RisingFrom(file'[k].data, file'[k].at)
    BY <1>1, <1>5
  <2>2. file'[d].at <= Len(file'[d].data) + 1 /\ RisingFrom(file'[d].data, file'[d].at)
    BY <1>15, <1>18, <1>20
  <2> QED
    BY <1>10, <2>1, <2>2
<1>23. \A k \in Four : \A j \in 1..Len(file'[k].data) :
         IF file'[k].data[j].eob THEN file'[k].data[j] = Marker ELSE IsRecord(file'[k].data[j])
  <2> DEFINE Good(y) == IF y.eob THEN y = Marker ELSE IsRecord(y)
  <2>0. \A k \in Four : \A j \in 1..Len(file[k].data) : Good(file[k].data[j])
    BY <1>1
  <2>1. Good(z)
    BY <1>15
  <2> HIDE DEF Good
  <2>2. \A k \in Four \ {d} : \A j \in 1..Len(file'[k].data) : Good(file'[k].data[j])
    BY <1>5, <1>10, <2>0
  <2>3. \A j \in 1..Len(file'[d].data) : Good(file'[d].data[j])
    <3>1. \A j \in 1..Len(s) : Good(s[j])
      BY <1>5, <2>0 DEF s
    <3>2. \A j \in 1..Len(s) + 1 : Good(t[j])
      BY <1>15, <1>18, <2>1, <3>1
    <3> QED
      BY <1>15, <1>18, <3>2
  <2>4. \A k \in Four : \A j \in 1..Len(file'[k].data) : Good(file'[k].data[j])
    BY <2>2, <2>3
  <2> QED
    BY <2>4 DEF Good
<1>24. /\ Shapes' /\ Stages' /\ InMemory' /\ GoodItems' /\ Queues' /\ FilesRise'
  <2>1. /\ pc' \in Merge /\ destination' \in Four /\ source' \in {0, 2}
        /\ retrieval_queue' \in {0, 2}
    BY <1>0, <1>1, <1>5 DEF Merge
  <2> QED
    BY <1>0, <1>1, <1>5, <1>12, <1>14, <1>22, <1>23, <2>1, MergeSteps
<1>25. \A k \in {Target, Target + 1} : /\ file'[k].at = 1 /\ file'[k].count = file[k].count
                                       /\ Blocks(file'[k].data, file'[k].at) = Left(k)
                                       /\ queue'[k][1] = First(k)
  <2> SUFFICES ASSUME NEW k \in {Target, Target + 1}
               PROVE  /\ file'[k].at = 1 /\ file'[k].count = file[k].count
                      /\ Blocks(file'[k].data, file'[k].at) = Left(k)
                      /\ queue'[k][1] = First(k)
    OBVIOUS
  <2>1. k \in Four \ {i} /\ file[k].at = 1
    BY <1>3, <1>4, <1>5
  <2>2. queue'[k][1] = First(k)
    BY <1>13, <2>1
  <2>3. CASE k = d
    BY <1>5, <1>9, <1>15, <1>21, <2>2, <2>3 DEF Left, s
  <2>4. CASE k # d
    BY <1>5, <2>1, <2>2, <2>4 DEF Left
  <2> QED
    BY <2>3, <2>4
<1>26. \A k \in {source, source + 1} : file'[k].count = file[k].count
  BY <1>3, <1>5, <1>10
<1>27. FilesInTurn'
  <2>1. InTurn'
    BY <1>4, <1>8 DEF InTurn, d
  <2>2. \A k \in {Target, Target + 1} : file'[k].at = 1 /\ file'[k].count = Left(k)' /\ First(k)'.eob
    BY <1>4, <1>25 DEF Left, First
  <2>3. /\ Left(Target)' = Left(Target) /\ Left(Target + 1)' = Left(Target + 1)
        /\ file'[source].count = file[source].count
    BY <1>8, <1>25, <1>26 DEF Left
  <2> QED
    BY <1>0, <1>4, <1>8, <2>1, <2>2, <2>3 DEF FilesInTurn
<1>28. \A k \in {source, source + 1} \ {i} :
         file'[k] = file[k] /\ queue'[k][1] = First(k)
  BY <1>3, <1>5, <1>13
<1>29. \A k \in {source, source + 1} : FirstRises(k)'
  <2>1. \A k \in {source, source + 1} \ {i} : FirstRises(k) => FirstRises(k)'
    BY <1>28 DEF FirstRises, First
  <2>2. ASSUME NEW k \in {source, source + 1}, k = i PROVE FirstRises(k)'
    BY <1>10, <1>13, <2>2 DEF FirstRises, First
  <2> QED
    BY <1>2, <2>1, <2>2
<1>30. \A k \in {source, source + 1} \ {i} : Opened(k) => Opened(k)'
  BY <1>28 DEF Opened, First, Left
<1>31. ASSUME NEW k \in {source, source + 1}, k = i PROVE Opened(k)'
  <2>1. /\ file[i].count >= 1 /\ Left(i) = file[i].count /\ file[i].count \in Nat
    BY <1>1, <1>5 DEF Opened
  <2>2. /\ Left(k)' = Blocks(file'[i].data, file'[i].at) /\ First(k)' = x
        /\ file'[k].count = file[i].count
    BY <1>10, <1>13, <1>31 DEF Left, First
  <2>3. Left(k)' = IF x.eob THEN file'[k].count - 1 ELSE file'[k].count
    <3>1. /\ Left(i) = Left(k)' + (IF x.eob THEN 1 ELSE 0) /\ Left(k)' \in Nat
      BY <1>10, <2>2
    <3>2. CASE x.eob
      BY <2>1, <2>2, <3>1, <3>2
    <3>3. CASE ~x.eob
      BY <2>1, <2>2, <3>1, <3>3
    <3> QED
      BY <3>2, <3>3
  <2> QED
    BY <2>1, <2>2, <2>3 DEF Opened
<1>32. FilesMove'
  <2>1. \A k \in Four \ {d} : Closed(file'[k].data)
    BY <1>2, <1>5, <1>10 DEF d
  <2>2. Opened(source)'
    <3>1. CASE i = source
      <4>1. \A k \in {source} : Opened(k)'
        BY <1>31, <3>1
      <4> QED
        BY <1>8, <4>1 DEF Opened, First, Left
    <3>2. CASE i # source
      <4>1. \A k \in {source} : Opened(k)'
        BY <1>2, <1>30, <3>2
      <4> QED
        BY <1>8, <4>1 DEF Opened, First, Left
    <3> QED
      BY <3>1, <3>2
  <2>3. \/ Opened(source + 1)'
        \/ file'[source + 1].count = 0 /\ First(source + 1)'.eob /\ Left(source + 1)' = 0
    <3>1. CASE i = source + 1
      <4>1. \A k \in {source + 1} : Opened(k)'
        BY <1>31, <3>1
      <4> QED
        BY <1>8, <4>1 DEF Opened, First, Left
    <3>2. CASE i # source + 1 /\ Opened(source + 1)
      <4>1. \A k \in {source + 1} : Opened(k)'
        BY <1>30, <3>2
      <4> QED
        BY <1>8, <4>1 DEF Opened, First, Left
    <3>3. CASE i # source + 1 /\ ~Opened(source + 1)
      <4>1. file[source + 1].count = 0 /\ First(source + 1).eob /\ Left(source + 1) = 0
        BY <1>2, <3>3
      <4>2. file'[source + 1] = file[source + 1] /\ queue'[source + 1][1] = First(source + 1)
        BY <1>28, <3>3
      <4> QED
        BY <1>8, <4>1, <4>2 DEF First, Left
    <3> QED
      BY <3>1, <3>2, <3>3
  <2>4. Balanced(file'[source].count, file'[source + 1].count)
    BY <1>2, <1>26
  <2>5. FirstRises(source)' /\ FirstRises(source + 1)'
    <3>1. \A k \in {source, source + 1} : FirstRises(k)'
      BY <1>29
    <3> QED
      BY <1>8, <3>1 DEF FirstRises, First
  <2>6. \A m \in 0..1 : ~First(source + m)'.eob => Less(LastOf(file'[d].data), First(source + m)')
    <3> SUFFICES ASSUME NEW m \in {0, 1}, ~queue'[source + m][1].eob
                 PROVE  Less(z, queue'[source + m][1])
      BY <1>8, <1>15, <1>18 DEF First
    <3>1. CASE source + m = i
      <4>1. queue'[source + m][1] = x /\ ~x.eob
        BY <1>13, <3>1
      <4>2. /\ file[i].at <= Len(file[i].data) /\ x = file[i].data[file[i].at]
        BY <1>1, <1>5 DEF HasRead
      <4>3. FirstRises(i)
        BY <1>2, <1>5
      <4> QED
        BY <1>5, <4>1, <4>2, <4>3 DEF FirstRises, z
    <3>2. CASE source + m # i
      <4>1. source + m \in {source, source + 1}
        BY <1>1
      <4>2. queue'[source + m][1] = First(source + m)
        BY <1>28, <3>2, <4>1
      <4>3. m # HeadChosen
        BY <3>2
      <4> QED
        BY <1>6, <4>2, <4>3 DEF z
    <3> QED
      BY <3>1, <3>2
  <2> QED
    BY <1>8, <1>27, <2>1, <2>2, <2>3, <2>4, <2>5, <2>6 DEF FilesMove
<1>33. FilesPass' /\ FilesPair' /\ FilesOut'
  BY <1>5 DEF FilesPass, FilesPair, FilesOut, Reading
<1> QED
  BY <1>24, <1>32, <1>33 DEF Engine, Files

(* What the end of a pair does to the files. *)
LEMMA FileEnds ==
  ASSUME IInv, FileBlock
  PROVE  LET d == destination IN
         /\ d \in {Target, Target + 1} /\ d \in Four /\ d # source /\ d # source + 1
         /\ source # source + 1 /\ Marker \in Item /\ Marker.eob
         /\ First(source).eob /\ First(source + 1).eob
         /\ file' \in [Four -> File]
         /\ \A k \in Four : file'[k].at = file[k].at
         /\ file'[d].data = Append(file[d].data, Marker) /\ file'[d].count = Increment(file[d].count)
         /\ \A k \in {source, source + 1} : /\ file'[k].data = file[k].data
                                            /\ file'[k].count = Decrement(file[k].count)
         /\ \A k \in Four \ {source, source + 1, d} : file'[k] = file[k]
<1> DEFINE d == destination
           t == Append(file[d].data, Marker)
           c == Increment(file[d].count)
<1>0. /\ Engine /\ pc = "filemove" /\ Merging /\ FilesMove /\ Head1(0).eob /\ Head1(1).eob
      /\ setup \in Setups /\ source \in {0, 2} /\ file \in [Four -> File] /\ SizeMax \in Nat \ {0}
      /\ \A k \in Four : /\ file[k] \in File /\ file[k].data \in Seq(Item)
                         /\ file[k].count \in 0..SizeMax
  <2>1. Engine /\ pc = "filemove" /\ Merging /\ FilesMove /\ Head1(0).eob /\ Head1(1).eob
    BY DEF IInv, Engine, Files, FileBlock, Merging
  <2> QED
    BY <2>1, MergeFacts
<1>1. /\ d \in {Target, Target + 1} /\ d \in Four /\ d # source /\ d # source + 1
      /\ source # source + 1 /\ source \in Four /\ source + 1 \in Four /\ source + 0 = source
  <2>1. InTurn
    BY <1>0 DEF FilesMove, FilesInTurn
  <2> QED
    BY <1>0, <2>1, Turns, Lists
<1>2. First(source).eob /\ First(source + 1).eob
  BY <1>0, <1>1 DEF First, Head1
<1>3. Marker \in Item /\ Marker.eob
  BY <1>0, Items DEF Marker
<1>4. /\ file' = [file EXCEPT ![d].data = t, ![d].count = c,
                              ![source].count = Decrement(@),
                              ![source + 1].count = Decrement(@)]
  BY <1>0, <1>1 DEF FileBlock
<1>5. t \in Seq(Item) /\ c \in 0..SizeMax
  BY <1>0, <1>1, <1>3 DEF Increment
<1>6. \A k \in Four : Decrement(file[k].count) \in 0..SizeMax
  BY <1>0 DEF Decrement
<1> HIDE DEF t, c, d
<1> DEFINE u == [file[d] EXCEPT !.data = t]
           v == [u EXCEPT !.count = c]
<1>7. /\ file[d] = [data |-> file[d].data, at |-> file[d].at, count |-> file[d].count,
                    tail |-> file[d].tail]
      /\ file[d].at \in Nat \ {0} /\ file[d].count \in 0..SizeMax /\ file[d].tail \in BOOLEAN
  <2>1. file[d] \in File
    BY <1>0, <1>1
  <2> QED
    BY <2>1 DEF File
<1>8. u = [data |-> t, at |-> file[d].at, count |-> file[d].count, tail |-> file[d].tail]
  BY <1>7
<1>9. /\ file'[d] = v
      /\ \A k \in {source, source + 1} : file'[k] = [file[k] EXCEPT !.count = Decrement(file[k].count)]
      /\ \A k \in Four \ {source, source + 1, d} : file'[k] = file[k]
  BY <1>0, <1>1, <1>4
<1> HIDE DEF u
<1>10. v = [data |-> t, at |-> file[d].at, count |-> c, tail |-> file[d].tail]
  BY <1>8
<1> HIDE DEF v
<1>11. v \in File
  BY <1>5, <1>7, <1>10 DEF File
<1>12. \A k \in {source, source + 1} : /\ file'[k] \in File /\ file'[k].data = file[k].data
                                       /\ file'[k].at = file[k].at
                                       /\ file'[k].count = Decrement(file[k].count)
  <2> SUFFICES ASSUME NEW k \in {source, source + 1}
               PROVE  /\ file'[k] \in File /\ file'[k].data = file[k].data
                      /\ file'[k].at = file[k].at
                      /\ file'[k].count = Decrement(file[k].count)
    OBVIOUS
  <2>1. /\ file[k] \in File /\ Decrement(file[k].count) \in 0..SizeMax
        /\ file'[k] = [file[k] EXCEPT !.count = Decrement(file[k].count)]
    BY <1>0, <1>1, <1>6, <1>9
  <2> QED
    BY <2>1, Recounted
<1>13. file' \in [Four -> File]
  <2>1. \A k \in Four : file'[k] \in File
    BY <1>0, <1>9, <1>11, <1>12
  <2>2. DOMAIN file' = Four /\ file' = [k \in DOMAIN file' |-> file'[k]]
    BY <1>0, <1>4
  <2> QED
    BY <2>1, <2>2
<1>14. \A k \in Four : file'[k].at = file[k].at
  BY <1>9, <1>10, <1>12
<1>15. file'[d].data = t /\ file'[d].count = c
  BY <1>9, <1>10
<1> QED
  BY <1>1, <1>2, <1>3, <1>9, <1>12, <1>13, <1>14, <1>15 DEF d, t, c

(* A merged block gets its marker, and the counts say so. *)
LEMMA FileBlockKeeps ==
  ASSUME IInv, FileBlock, UNCHANGED <<setup, using>>
  PROVE  Engine'
<1> DEFINE d == destination
<1>0. /\ Engine /\ pc = "filemove" /\ Merging /\ cont = "retrieve" /\ ret # 10 /\ FilesMove
      /\ pc' = "filepair" /\ destination' = Twin(d) /\ queue' = queue
      /\ UNCHANGED <<setup, using, memory, unique, retrieving, files_used, destination_file, empty,
                     cont, pending, sort_return, failed, source, ended, out, ret, retrieval_queue>>
  <2>1. Engine /\ Stages /\ pc = "filemove" /\ FilesMove
    BY DEF IInv, Engine, Files, FileBlock
  <2> QED
    BY <2>1 DEF Stages, Merging, FileBlock, engine, reply
<1>1. /\ Shapes /\ setup \in Setups /\ source \in {0, 2}
      /\ queue \in [Four -> Seq(Item)] /\ file \in [Four -> File] /\ destination \in Four
      /\ ended \in [0..1 -> BOOLEAN] /\ SizeMax \in Nat \ {0}
      /\ retrieval_queue \in {0, 2} /\ ret \in {0, 10, 30}
      /\ out \in Seq([key : Keys, unique : 0..Len(setup.choices)])
      /\ \A k \in Four : /\ Len(queue[k]) = 1 /\ queue[k] \in Seq(Item)
                         /\ First(k) \in Item /\ (~First(k).eob => IsRecord(First(k)))
      /\ \A k \in Four : /\ file[k] \in File /\ file[k].data \in Seq(Item)
                         /\ Len(file[k].data) \in Nat
                         /\ file[k].at \in Nat \ {0} /\ file[k].at <= Len(file[k].data) + 1
                         /\ file[k].count \in 0..SizeMax /\ file[k].count \in Nat
                         /\ Left(k) \in Nat /\ RisingFrom(file[k].data, file[k].at)
                         /\ \A j \in 1..Len(file[k].data) :
                              IF file[k].data[j].eob THEN file[k].data[j] = Marker
                              ELSE IsRecord(file[k].data[j])
  BY <1>0, MergeFacts
<1>2. /\ FilesInTurn
      /\ \A k \in Four \ {destination} : Closed(file[k].data)
      /\ Opened(source)
      /\ \/ Opened(source + 1)
         \/ file[source + 1].count = 0 /\ First(source + 1).eob /\ Left(source + 1) = 0
      /\ Balanced(file[source].count, file[source + 1].count)
  BY <1>0 DEF FilesMove
<1>3. /\ Target \in {0, 2} /\ Target # source
      /\ Four = {source, source + 1, Target, Target + 1}
      /\ source \in Four /\ source + 1 \in Four /\ Target \in Four /\ Target + 1 \in Four
      /\ {source, source + 1} \cap {Target, Target + 1} = {}
  BY <1>1, Lists
<1>4. /\ InTurn
      /\ \A k \in {Target, Target + 1} : file[k].at = 1 /\ file[k].count = Left(k) /\ First(k).eob
      /\ Left(Target) = Left(Target + 1) + (d - Target)
      /\ Left(Target) + Left(Target + 1) + file[source].count >= 2
      /\ Left(Target) + Left(Target + 1) + file[source].count <= SizeMax
  BY <1>2 DEF FilesInTurn
<1>5. /\ d \in {Target, Target + 1} /\ d \in Four /\ d # source /\ d # source + 1
      /\ source # source + 1 /\ Marker \in Item /\ Marker.eob
      /\ First(source).eob /\ First(source + 1).eob
      /\ file' \in [Four -> File]
      /\ \A k \in Four : file'[k].at = file[k].at
      /\ file'[d].data = Append(file[d].data, Marker) /\ file'[d].count = Increment(file[d].count)
      /\ \A k \in {source, source + 1} : /\ file'[k].data = file[k].data
                                         /\ file'[k].count = Decrement(file[k].count)
      /\ \A k \in Four \ {source, source + 1, d} : file'[k] = file[k]
  BY FileEnds
<1>6. /\ Twin(d) \in {Target, Target + 1} /\ Twin(d) \in Four
      /\ d - Target = 0 => Twin(d) = Target + 1
      /\ d - Target = 1 => Twin(d) = Target
      /\ Twin(d) - Target = 1 - (d - Target)
  BY <1>1, <1>3, <1>4, Turns
<1>7. Target' = Target /\ source' = source /\ destination' = Twin(d)
  BY <1>0 DEF Target
<1> HIDE DEF d
<1> DEFINE s == file[d].data
           t == Append(s, Marker)
<1>8. /\ s \in Seq(Item) /\ 1 \in 1..Len(s) + 1 /\ RisingFrom(s, 1) /\ Len(s) \in Nat /\ file[d].at = 1
  <2>1. file[d].at = 1
    BY <1>4, <1>5
  <2>2. file[d].data \in Seq(Item) /\ Len(file[d].data) \in Nat /\ RisingFrom(file[d].data, 1)
    BY <1>1, <1>5, <2>1
  <2>3. 1 \in 1..Len(file[d].data) + 1
    BY <2>2
  <2> QED
    BY <2>1, <2>2, <2>3
<1> HIDE DEF s
<1>9. /\ t \in Seq(Item) /\ Len(t) = Len(s) + 1 /\ t[Len(s) + 1] = Marker
      /\ \A j \in 1..Len(s) : t[j] = s[j]
  BY <1>5, <1>8
<1>10. /\ Blocks(t, 1) = Blocks(s, 1) + (IF Marker.eob THEN 1 ELSE 0)
       /\ Closed(t) <=> Marker.eob
  BY <1>5, <1>8, BlocksAppend
<1>11. RisingFrom(t, 1)
  <2>1. RisingFrom(s, 1) /\ (Unended(s) /\ ~Marker.eob => Less(s[Len(s)], Marker)) => RisingFrom(t, 1)
    BY <1>5, <1>8, RisingAppend
  <2> QED
    BY <1>5, <1>8, <2>1
<1>12. Blocks(t, 1) = Blocks(s, 1) + 1 /\ Blocks(s, 1) \in Nat /\ Closed(t)
  BY <1>5, <1>8, <1>10, BlocksFinite
<1> HIDE DEF t
<1>13. file'[d].data = t /\ file'[d].at = 1
  BY <1>5, <1>8 DEF t, s
<1>14. \A k \in Four : file'[k].at <= Len(file'[k].data) + 1 /\ RisingFrom(file'[k].data, file'[k].at)
  <2>1. ASSUME NEW k \in Four, k # d PROVE file'[k].data = file[k].data /\ file'[k].at = file[k].at
    BY <1>5, <2>1
  <2>2. file'[d].at <= Len(file'[d].data) + 1 /\ RisingFrom(file'[d].data, file'[d].at)
    BY <1>8, <1>9, <1>11, <1>13
  <2> QED
    BY <1>1, <2>1, <2>2
<1>15. \A k \in Four : \A j \in 1..Len(file'[k].data) :
         IF file'[k].data[j].eob THEN file'[k].data[j] = Marker ELSE IsRecord(file'[k].data[j])
  <2> DEFINE Good(y) == IF y.eob THEN y = Marker ELSE IsRecord(y)
  <2>0. \A k \in Four : \A j \in 1..Len(file[k].data) : Good(file[k].data[j])
    BY <1>1
  <2>1. Good(Marker)
    BY <1>5
  <2> HIDE DEF Good
  <2>2. \A k \in Four \ {d} : \A j \in 1..Len(file'[k].data) : Good(file'[k].data[j])
    <3>1. ASSUME NEW k \in Four, k # d PROVE file'[k].data = file[k].data
      BY <1>5, <3>1
    <3> QED
      BY <2>0, <3>1
  <2>3. \A j \in 1..Len(file'[d].data) : Good(file'[d].data[j])
    <3>1. \A j \in 1..Len(s) : Good(s[j])
      BY <1>5, <2>0 DEF s
    <3>2. \A j \in 1..Len(s) + 1 : Good(t[j])
      BY <1>8, <1>9, <2>1, <3>1
    <3> QED
      BY <1>9, <1>13, <3>2
  <2>4. \A k \in Four : \A j \in 1..Len(file'[k].data) : Good(file'[k].data[j])
    BY <2>2, <2>3
  <2> QED
    BY <2>4 DEF Good
<1>16. \A k \in Four : Len(queue'[k]) = 1 /\ (~queue'[k][1].eob => IsRecord(queue'[k][1]))
  BY <1>0, <1>1 DEF First
<1>17. /\ Shapes' /\ Stages' /\ InMemory' /\ GoodItems' /\ Queues' /\ FilesRise'
  <2>1. /\ pc' \in Merge /\ destination' \in Four /\ source' \in {0, 2}
        /\ retrieval_queue' \in {0, 2} /\ queue' \in [Four -> Seq(Item)]
    BY <1>0, <1>1, <1>6, <1>7 DEF Merge
  <2> QED
    BY <1>0, <1>1, <1>5, <1>14, <1>15, <1>16, <2>1, MergeSteps
<1>18. /\ Left(Target) \in Nat /\ Left(Target + 1) \in Nat
       /\ file[source].count \in Nat /\ file[source + 1].count \in Nat /\ file[source].count >= 1
       /\ Left(d) \in Nat /\ file[d].count = Left(d) /\ Left(d) = Blocks(s, 1)
  BY <1>1, <1>2, <1>3, <1>4, <1>5, <1>8 DEF Opened, Left, s
<1>19. file'[d].count = Left(d) + 1
  <2>1. Left(d) # SizeMax
    <3>1. Left(d) = Left(Target) \/ Left(d) = Left(Target + 1)
      BY <1>5
    <3> PICK a \in Nat : a = Left(Target)
      BY <1>18
    <3> PICK b \in Nat : b = Left(Target + 1)
      BY <1>18
    <3> PICK c \in Nat : c = file[source].count /\ c >= 1
      BY <1>18
    <3>2. a + b + c <= SizeMax
      BY <1>4
    <3>3. SizeMax \in Nat
      BY <1>1
    <3>4. a # SizeMax /\ b # SizeMax
      BY <3>2, <3>3
    <3> QED
      BY <3>1, <3>4
  <2> QED
    BY <1>5, <1>18, <2>1 DEF Increment
<1>20. Blocks(file'[d].data, file'[d].at) = Left(d) + 1
  BY <1>12, <1>13, <1>18
<1>21. \A k \in Four \ {d} : Blocks(file'[k].data, file'[k].at) = Left(k)
  <2>1. ASSUME NEW k \in Four, k # d PROVE file'[k].data = file[k].data /\ file'[k].at = file[k].at
    BY <1>5, <2>1
  <2> QED
    BY <2>1 DEF Left
<1>22. file'[source].count = file[source].count - 1
  <2>1. file'[source].count = Decrement(file[source].count)
    BY <1>5
  <2>2. file[source].count # 0
    BY <1>18
  <2> QED
    BY <2>1, <2>2 DEF Decrement
<1>23. FilesInTurn'
  <2>1. InTurn'
    BY <1>6, <1>7 DEF InTurn
  <2>2. \A k \in {Target, Target + 1} : file'[k].at = 1 /\ file'[k].count = Left(k)' /\ First(k)'.eob
    <3> SUFFICES ASSUME NEW k \in {Target, Target + 1}
                 PROVE  /\ file'[k].at = 1 /\ file'[k].count = Blocks(file'[k].data, file'[k].at)
                        /\ queue'[k][1].eob
      BY DEF Left, First
    <3>0. k \in Four /\ k # source /\ k # source + 1
      BY <1>3
    <3>1. file'[k].at = 1 /\ queue'[k][1].eob
      BY <1>0, <1>4, <1>5, <3>0 DEF First
    <3>2. CASE k = d
      BY <1>19, <1>20, <3>1, <3>2
    <3>3. CASE k # d
      BY <1>4, <1>5, <1>21, <3>0, <3>1, <3>3
    <3> QED
      BY <3>2, <3>3
  <2>3. /\ Left(Target)' = Blocks(file'[Target].data, file'[Target].at)
        /\ Left(Target + 1)' = Blocks(file'[Target + 1].data, file'[Target + 1].at)
    BY <1>7 DEF Left
  <2>4. /\ Left(Target)' = Left(Target + 1)' + (destination' - Target)
        /\ Left(Target)' + Left(Target + 1)' = Left(Target) + Left(Target + 1) + 1
    <3>1. CASE d = Target
      <4>1. Left(Target)' = Left(Target) + 1
        BY <1>20, <2>3, <3>1
      <4>2. Target + 1 \in Four \ {d}
        BY <1>3, <3>1
      <4>3. Left(Target + 1)' = Left(Target + 1)
        BY <1>21, <2>3, <4>2
      <4>4. d - Target = 0
        BY <1>3, <3>1
      <4> QED
        BY <1>4, <1>6, <1>7, <1>18, <4>1, <4>3, <4>4
    <3>2. CASE d = Target + 1
      <4>1. Left(Target + 1)' = Left(Target + 1) + 1
        BY <1>20, <2>3, <3>2
      <4>2. Target \in Four \ {d}
        BY <1>3, <3>2
      <4>3. Left(Target)' = Left(Target)
        BY <1>21, <2>3, <4>2
      <4>4. d - Target = 1 /\ Twin(d) - Target = 0
        BY <1>3, <1>6, <3>2
      <4> QED
        BY <1>4, <1>6, <1>7, <1>18, <4>1, <4>3, <4>4
    <3> QED
      BY <1>5, <3>1, <3>2
  <2>5. /\ Left(Target)' + Left(Target + 1)' + file'[source].count
             = Left(Target) + Left(Target + 1) + file[source].count
    BY <1>18, <1>22, <2>4
  <2> QED
    BY <1>4, <1>7, <2>1, <2>2, <2>4, <2>5 DEF FilesInTurn
<1>24. FilesPair'
  <2>1. \A k \in Four : Closed(file'[k].data)
    <3>1. ASSUME NEW k \in Four, k # d PROVE file'[k].data = file[k].data
      BY <1>5, <3>1
    <3> QED
      BY <1>2, <1>12, <1>13, <3>1 DEF d
  <2>2. First(source)'.eob /\ First(source + 1)'.eob
    BY <1>0, <1>5 DEF First
  <2>3. Left(source)' = Left(source) /\ Left(source + 1)' = Left(source + 1)
    BY <1>3, <1>5, <1>7, <1>21 DEF Left
  <2>4. Left(source) = file[source].count - 1
    BY <1>2, <1>5 DEF Opened
  <2>5. file'[source].count = Left(source)'
    BY <1>22, <2>3, <2>4
  <2>6. \/ /\ file'[source + 1].count = Left(source + 1)'
           /\ Balanced(Left(source)', Left(source + 1)')
        \/ Left(source)' = 0 /\ Left(source + 1)' = 0
    <3>1. CASE Opened(source + 1)
      <4>1. file[source + 1].count >= 1 /\ Left(source + 1) = file[source + 1].count - 1
        BY <1>5, <3>1 DEF Opened
      <4>2. file'[source + 1].count = file[source + 1].count - 1
        <5>1. file'[source + 1].count = Decrement(file[source + 1].count)
          BY <1>5
        <5>2. file[source + 1].count # 0
          BY <1>18, <4>1
        <5> QED
          BY <5>1, <5>2 DEF Decrement
      <4>3. Balanced(Left(source), Left(source + 1))
        BY <1>2, <1>18, <2>4, <4>1 DEF Balanced
      <4> QED
        BY <2>3, <4>1, <4>2, <4>3
    <3>2. CASE ~Opened(source + 1)
      <4>1. file[source + 1].count = 0 /\ Left(source + 1) = 0
        BY <1>2, <3>2
      <4>2. file[source].count = 1
        BY <1>2, <1>18, <4>1 DEF Balanced
      <4> QED
        BY <2>3, <2>4, <4>1, <4>2
    <3> QED
      BY <3>1, <3>2
  <2> QED
    BY <1>7, <1>23, <2>1, <2>2, <2>5, <2>6 DEF FilesPair
<1>25. FilesPass' /\ FilesMove' /\ FilesOut'
  BY <1>0 DEF FilesPass, FilesMove, FilesOut, Reading
<1> QED
  BY <1>17, <1>24, <1>25 DEF Engine, Files

(* RETURN from files takes the first of the two heads. *)
LEMMA TakenFromFiles ==
  ASSUME IInv, RetrieveFromFiles, ~(Head1(0).eob /\ Head1(1).eob)
  PROVE  LET i == source + HeadChosen
             x == ReadItem(file, i)
         IN
         /\ i \in {source, source + 1} /\ i \in Four /\ ~First(i).eob /\ Left(i) = 1
         /\ pc' = "idle" /\ HasRead(file, file', x, i) /\ file' \in [Four -> File]
         /\ queue' = [queue EXCEPT ![i] = <<x>>] /\ Deliver(First(i))
         /\ \A k \in Four \ {i} : file'[k] = file[k]
<1> DEFINE i == source + HeadChosen
           x == ReadItem(file, i)
<1>0. /\ Engine /\ Reading /\ pc = "retrieve" /\ FilesOut
      /\ setup \in Setups /\ source \in {0, 2} /\ file \in [Four -> File]
      /\ \A k \in Four : file[k].at <= Len(file[k].data) + 1
  <2>1. Engine /\ Stages /\ pc = "retrieve" /\ files_used /\ FilesOut
    BY DEF IInv, Engine, Files, RetrieveFromFiles
  <2>2. Reading
    BY <2>1 DEF Stages, Reading
  <2> QED
    BY <2>1, <2>2, MergeFacts
<1>1. i \in {source, source + 1} /\ i \in Four /\ ~First(i).eob /\ HeadChosen \in {0, 1}
  BY <1>0, HeadIs
<1>2. Left(i) = 1
  BY <1>0, <1>1 DEF FilesOut
<1>3. /\ file' = Advance(file, i) /\ queue' = [queue EXCEPT ![i] = <<x>>]
      /\ pc' = IF Garbage(file, i) THEN "garbage" ELSE "idle"
      /\ Deliver(First(i))
  BY DEF RetrieveFromFiles, First
<1> HIDE DEF i
<1>4. /\ HasRead(file, Advance(file, i), x, i) /\ ~Garbage(file, i)
      /\ Advance(file, i) \in [Four -> File]
      /\ \A k \in Four \ {i} : Advance(file, i)[k] = file[k]
  <2>1. /\ Blocks(file[i].data, file[i].at) >= 1 /\ file[i].at <= Len(file[i].data) + 1
    BY <1>0, <1>1, <1>2 DEF Left
  <2> QED
    BY <1>0, <1>1, <2>1, ReadOne
<1> QED
  BY <1>1, <1>2, <1>3, <1>4 DEF i

(* RETURN takes the smaller of the two heads, or says AT END. *)
LEMMA RetrieveFromFilesKeeps ==
  ASSUME IInv, RetrieveFromFiles, UNCHANGED <<setup, using>>
  PROVE  Engine'
<1> DEFINE i == source + HeadChosen
           x == ReadItem(file, i)
<1>0. /\ Engine /\ Reading /\ pc = "retrieve" /\ FilesOut /\ retrieving
      /\ UNCHANGED <<setup, using, memory, unique, retrieving, files_used, destination_file, empty,
                     cont, pending, sort_return, failed, source, ended, retrieval_queue, destination>>
      /\ UNCHANGED <<engine, local>>
  <2>1. Engine /\ Stages /\ pc = "retrieve" /\ files_used /\ FilesOut
    BY DEF IInv, Engine, Files, RetrieveFromFiles
  <2>2. Reading /\ retrieving
    BY <2>1 DEF Stages, Reading
  <2> QED
    BY <2>1, <2>2 DEF RetrieveFromFiles, engine, local
<1>1. /\ Shapes /\ setup \in Setups /\ source \in {0, 2}
      /\ queue \in [Four -> Seq(Item)] /\ file \in [Four -> File] /\ destination \in Four
      /\ ended \in [0..1 -> BOOLEAN] /\ SizeMax \in Nat \ {0}
      /\ retrieval_queue \in {0, 2} /\ ret \in {0, 10, 30}
      /\ out \in Seq([key : Keys, unique : 0..Len(setup.choices)])
      /\ \A k \in Four : /\ Len(queue[k]) = 1 /\ queue[k] \in Seq(Item)
                         /\ First(k) \in Item /\ (~First(k).eob => IsRecord(First(k)))
      /\ \A k \in Four : /\ file[k] \in File /\ file[k].data \in Seq(Item)
                         /\ Len(file[k].data) \in Nat
                         /\ file[k].at \in Nat \ {0} /\ file[k].at <= Len(file[k].data) + 1
                         /\ file[k].count \in 0..SizeMax /\ file[k].count \in Nat
                         /\ Left(k) \in Nat /\ RisingFrom(file[k].data, file[k].at)
                         /\ \A j \in 1..Len(file[k].data) :
                              IF file[k].data[j].eob THEN file[k].data[j] = Marker
                              ELSE IsRecord(file[k].data[j])
  BY <1>0, MergeFacts
<1>2. /\ Target \in {0, 2} /\ Target # source
      /\ Four = {source, source + 1, Target, Target + 1}
      /\ source \in Four /\ source + 1 \in Four /\ Target \in Four /\ Target + 1 \in Four
      /\ {source, source + 1} \cap {Target, Target + 1} = {}
  BY <1>1, Lists
<1>3. /\ \A k \in {Target, Target + 1} : file[k].data = <<>> /\ First(k).eob
      /\ \A m \in 0..1 : /\ Left(source + m) = IF First(source + m).eob THEN 0 ELSE 1
                         /\ Closed(file[source + m].data)
                         /\ FirstRises(source + m)
  BY <1>0 DEF FilesOut
<1>4. CASE Head1(0).eob /\ Head1(1).eob
  <2>1. UNCHANGED <<setup, using, engine, queue, empty, file, cont, local, pending, out, failed>>
        /\ ret' = 10 /\ sort_return' = sort_return /\ sort_return \in {0, 16} /\ pc' = "idle"
    BY <1>1, <1>4 DEF RetrieveFromFiles, End, Shapes
  <2> QED
    BY <1>0, <2>1, Answers
<1>5. CASE ~(Head1(0).eob /\ Head1(1).eob)
  <2>1. /\ i \in {source, source + 1} /\ i \in Four /\ ~First(i).eob /\ Left(i) = 1
        /\ pc' = "idle" /\ HasRead(file, file', x, i) /\ file' \in [Four -> File]
        /\ queue' = [queue EXCEPT ![i] = <<x>>] /\ Deliver(First(i))
        /\ \A k \in Four \ {i} : file'[k] = file[k]
    BY <1>5, TakenFromFiles
  <2> HIDE DEF i, x
  <2>2. /\ x \in Item /\ (~x.eob => IsRecord(x))
        /\ Left(i) = Blocks(file'[i].data, file'[i].at) + (IF x.eob THEN 1 ELSE 0)
        /\ Blocks(file'[i].data, file'[i].at) \in Nat
        /\ RisingFrom(file'[i].data, file'[i].at)
        /\ file'[i].at <= Len(file'[i].data) + 1
        /\ file'[i].data = file[i].data
        /\ ~x.eob /\ file'[i].at <= Len(file'[i].data)
              /\ ~file'[i].data[file'[i].at].eob
             => Less(x, file'[i].data[file'[i].at])
    BY <1>0, <2>1, ReadRecord
  <2>3. Target' = Target /\ source' = source
    BY <1>0 DEF Target
  <2>4. <<x>> \in Seq(Item) /\ Len(<<x>>) = 1 /\ <<x>>[1] = x
    BY <2>2
  <2>5. /\ queue' \in [Four -> Seq(Item)] /\ queue'[i] = <<x>>
        /\ \A k \in Four \ {i} : queue'[k] = queue[k]
    BY <1>1, <2>1, <2>4
  <2>6. queue'[i][1] = x /\ \A k \in Four \ {i} : queue'[k][1] = First(k)
    BY <2>4, <2>5 DEF First
  <2>7. \A k \in Four : Len(queue'[k]) = 1 /\ (~queue'[k][1].eob => IsRecord(queue'[k][1]))
    <3>1. \A k \in Four \ {i} : Len(queue'[k]) = 1 /\ (~queue'[k][1].eob => IsRecord(queue'[k][1]))
      BY <1>1, <2>5, <2>6
    <3>2. Len(queue'[i]) = 1 /\ (~queue'[i][1].eob => IsRecord(queue'[i][1]))
      BY <2>2, <2>4, <2>5
    <3> QED
      BY <3>1, <3>2
  <2>8. \A k \in Four : /\ file'[k].at <= Len(file'[k].data) + 1
                        /\ RisingFrom(file'[k].data, file'[k].at)
                        /\ file'[k].data = file[k].data
    <3>1. \A k \in Four \ {i} : /\ file'[k].at <= Len(file'[k].data) + 1
                                /\ RisingFrom(file'[k].data, file'[k].at)
                                /\ file'[k].data = file[k].data
      BY <1>1, <2>1
    <3> QED
      BY <2>2, <3>1
  <2>9. \A k \in Four : \A j \in 1..Len(file'[k].data) :
          IF file'[k].data[j].eob THEN file'[k].data[j] = Marker ELSE IsRecord(file'[k].data[j])
    BY <1>1, <2>8
  <2>10. out' \in Seq([key : Keys, unique : 0..Len(setup.choices)]) /\ ret' = 0
    <3>1. IsRecord(First(i)) /\ First(i) \in Item
      BY <1>1, <2>1
    <3>2. Record(First(i)) \in [key : Keys, unique : 0..Len(setup.choices)]
      BY <3>1 DEF Record, IsRecord, Item
    <3> QED
      BY <1>1, <2>1, <3>2 DEF Deliver, Record
  <2>11. /\ Shapes' /\ Stages' /\ InMemory' /\ GoodItems' /\ Queues' /\ FilesRise'
    <3>1. /\ pc' \in Merge \cup {"idle", "retrieve"} /\ (pc' \in Merge => cont = "retrieve")
          /\ destination' \in Four /\ source' \in {0, 2} /\ retrieval_queue' \in {0, 2}
          /\ ret' \in {0, 10, 30} /\ (ret' = 10 => pc' \in {"idle", "retrieve"})
          /\ ended' \in [0..1 -> BOOLEAN]
      BY <1>0, <1>1, <2>1, <2>10 DEF Merge
    <3> QED
      BY <1>0, <2>1, <2>5, <2>7, <2>8, <2>9, <2>10, <3>1, MergeSteps
  <2>12. FilesOut'
    <3>1. \A k \in {Target, Target + 1} : file'[k].data = <<>> /\ First(k)'.eob
      <4>1. i \notin {Target, Target + 1}
        BY <1>2, <2>1
      <4> QED
        BY <1>2, <1>3, <2>1, <2>6, <4>1 DEF First
    <3>2. \A m \in 0..1 : /\ Left(source + m)' = IF First(source + m)'.eob THEN 0 ELSE 1
                          /\ Closed(file'[source + m].data)
                          /\ FirstRises(source + m)'
      <4> SUFFICES ASSUME NEW m \in {0, 1}
                   PROVE  /\ Left(source + m)' = IF First(source + m)'.eob THEN 0 ELSE 1
                          /\ Closed(file'[source + m].data)
                          /\ FirstRises(source + m)'
        OBVIOUS
      <4>0. source + m \in Four
        BY <1>1, <1>2
      <4>1. Closed(file'[source + m].data)
        BY <1>3, <2>8, <4>0
      <4>2. CASE source + m = i
        <5>1. First(source + m)' = x /\ Left(source + m)' = Blocks(file'[i].data, file'[i].at)
          BY <2>3, <2>6, <4>2 DEF First, Left
        <5>2. Left(source + m)' = IF x.eob THEN 0 ELSE 1
          <6>1. CASE x.eob
            BY <2>1, <2>2, <5>1, <6>1
          <6>2. CASE ~x.eob
            BY <2>1, <2>2, <5>1, <6>2
          <6> QED
            BY <6>1, <6>2
        <5>3. FirstRises(source + m)'
          BY <2>2, <2>3, <4>2, <5>1 DEF FirstRises
        <5> QED
          BY <4>1, <5>1, <5>2, <5>3
      <4>3. CASE source + m # i
        <5>1. file'[source + m] = file[source + m] /\ queue'[source + m][1] = First(source + m)
          BY <2>1, <2>6, <4>0, <4>3
        <5> QED
          BY <1>3, <2>3, <4>1, <5>1 DEF First, Left, FirstRises
      <4> QED
        BY <4>2, <4>3
    <3> QED
      BY <2>3, <3>1, <3>2 DEF FilesOut
  <2>13. FilesPass' /\ FilesMove' /\ FilesPair'
    BY <2>1 DEF FilesPass, FilesMove, FilesPair
  <2> QED
    BY <2>11, <2>12, <2>13 DEF Engine, Files
<1> QED
  BY <1>4, <1>5

-----------------------------------------------------------------------------
(* Where the records go: what each step does to the pool.                  *)

All == {"queue", "file"} \X Four \X Nat

(* A place, and what lies there. *)
LEMMA PlaceIs ==
  /\ Places \subseteq All
  /\ \A i \in Four, j \in Nat : /\ <<"queue", i, j>> \in All /\ <<"file", i, j>> \in All
                                /\ <<"queue", i, j>> \in Places <=> InQueue(i, j)
                                /\ <<"file", i, j>> \in Places <=> InFile(i, j)
                                /\ Held(<<"queue", i, j>>) = Record(queue[i][j])
                                /\ Held(<<"file", i, j>>) = Record(file[i].data[j])
<1>1. Places \subseteq All
  BY DEF Places, All
<1>2. ASSUME NEW i \in Four, NEW j \in Nat
      PROVE  /\ <<"queue", i, j>> \in All /\ <<"file", i, j>> \in All
             /\ <<"queue", i, j>> \in Places <=> InQueue(i, j)
             /\ <<"file", i, j>> \in Places <=> InFile(i, j)
             /\ Held(<<"queue", i, j>>) = Record(queue[i][j])
             /\ Held(<<"file", i, j>>) = Record(file[i].data[j])
  <2> DEFINE p == <<"queue", i, j>>
             r == <<"file", i, j>>
  <2>1. /\ p \in All /\ p[1] = "queue" /\ p[2] = i /\ p[3] = j
        /\ r \in All /\ r[1] = "file" /\ r[1] # "queue" /\ r[2] = i /\ r[3] = j
    BY DEF All
  <2> HIDE DEF p, r
  <2>2. p \in Places <=> InQueue(i, j)
    BY <2>1 DEF Places, All
  <2>3. r \in Places <=> InFile(i, j)
    BY <2>1 DEF Places, All
  <2>4. Held(p) = Record(queue[i][j]) /\ Held(r) = Record(file[i].data[j])
    BY <2>1 DEF Held
  <2> QED
    BY <2>1, <2>2, <2>3, <2>4 DEF p, r
<1> QED
  BY <1>1, <1>2

(* And after a step. *)
LEMMA PlaceIsNext ==
  /\ Places' \subseteq All
  /\ \A i \in Four, j \in Nat : /\ <<"queue", i, j>> \in All /\ <<"file", i, j>> \in All
                                /\ <<"queue", i, j>> \in Places' <=> InQueue(i, j)'
                                /\ <<"file", i, j>> \in Places' <=> InFile(i, j)'
                                /\ Held(<<"queue", i, j>>)' = Record(queue'[i][j])
                                /\ Held(<<"file", i, j>>)' = Record(file'[i].data[j])
<1>1. Places' \subseteq All
  BY DEF Places, All
<1>2. ASSUME NEW i \in Four, NEW j \in Nat
      PROVE  /\ <<"queue", i, j>> \in All /\ <<"file", i, j>> \in All
             /\ <<"queue", i, j>> \in Places' <=> InQueue(i, j)'
             /\ <<"file", i, j>> \in Places' <=> InFile(i, j)'
             /\ Held(<<"queue", i, j>>)' = Record(queue'[i][j])
             /\ Held(<<"file", i, j>>)' = Record(file'[i].data[j])
  <2> DEFINE p == <<"queue", i, j>>
             r == <<"file", i, j>>
  <2>1. /\ p \in All /\ p[1] = "queue" /\ p[2] = i /\ p[3] = j
        /\ r \in All /\ r[1] = "file" /\ r[1] # "queue" /\ r[2] = i /\ r[3] = j
    BY DEF All
  <2> HIDE DEF p, r
  <2>2. p \in Places' <=> InQueue(i, j)'
    BY <2>1 DEF Places, All
  <2>3. r \in Places' <=> InFile(i, j)'
    BY <2>1 DEF Places, All
  <2>4. Held(p)' = Record(queue'[i][j]) /\ Held(r)' = Record(file'[i].data[j])
    BY <2>1 DEF Held
  <2> QED
    BY <2>1, <2>2, <2>3, <2>4 DEF p, r
<1> QED
  BY <1>1, <1>2

(* A place is an item of a queue or of a file. *)
LEMMA PlaceCases ==
  ASSUME NEW p \in All
  PROVE  \E i \in Four, j \in Nat : p = <<"queue", i, j>> \/ p = <<"file", i, j>>
<1>1. /\ p = <<p[1], p[2], p[3]>> /\ p[1] \in {"queue", "file"} /\ p[2] \in Four /\ p[3] \in Nat
  BY DEF All
<1> QED
  BY <1>1

(* What IInv says of the pool, and of its places after a step. *)
LEMMA PoolFacts ==
  ASSUME IInv, Engine', pc \notin {"broken", "crashed"}
  PROVE  /\ PoolPlaced /\ PoolPlaced' /\ NoTwice /\ Counted
         /\ unique \in Nat /\ out \in Seq([key : Keys, unique : 0..Len(setup.choices)])
<1>1. Shapes /\ GoodItems /\ NoTwice /\ Counted
  BY DEF IInv, Engine, PoolKept
<1>2. PoolPlaced
  BY <1>1, PoolIs
<1>3. PoolPlaced'
  BY PoolIsNext DEF Engine
<1>4. unique \in Nat
  BY <1>1, Program DEF Shapes
<1> QED
  BY <1>1, <1>2, <1>3, <1>4 DEF Shapes

(* A step by which at most two records change their place. *)
LEMMA Exchanged ==
  ASSUME NEW a, NEW b, NEW c, NEW d, a # c, b # d,
         PoolPlaced, PoolPlaced', NoTwice, Counted, UNCHANGED <<out, unique>>,
         \A p \in All : p \in Places /\ p \notin {a, c} <=> p \in Places' /\ p \notin {b, d},
         \A p \in Places : p \notin {a, c} => Held(p)' = Held(p),
         a \in Places <=> b \in Places', a \in Places => Held(b)' = Held(a),
         c \in Places <=> d \in Places', c \in Places => Held(d)' = Held(c)
  PROVE  NoTwice' /\ Counted' /\ Pool' = Pool
<1> DEFINE phi == [p \in All \cup {b, d} |-> IF p = b THEN a ELSE IF p = d THEN c ELSE p]
           psi == [p \in All \cup {a, c} |-> IF p = a THEN b ELSE IF p = c THEN d ELSE p]
<1>1. /\ phi[b] = a /\ phi[d] = c /\ \A p \in All : p \notin {b, d} => phi[p] = p
      /\ psi[a] = b /\ psi[c] = d /\ \A p \in All : p \notin {a, c} => psi[p] = p
  OBVIOUS
<1>2. Places \subseteq All /\ Places' \subseteq All
  BY PlaceIs, PlaceIsNext
<1> HIDE DEF phi, psi
<1>3. ASSUME NEW p \in Places'
      PROVE  phi[p] \in Places /\ psi[phi[p]] = p /\ Held(p)' = Held(phi[p])
  <2>1. CASE p = b
    BY <1>1, <2>1
  <2>2. CASE p = d
    BY <1>1, <2>2
  <2>3. CASE p \notin {b, d}
    <3>1. p \in All /\ p \in Places /\ p \notin {a, c}
      BY <1>2, <2>3
    <3> QED
      BY <1>1, <2>3, <3>1
  <2> QED
    BY <2>1, <2>2, <2>3
<1>4. ASSUME NEW p \in Places PROVE psi[p] \in Places' /\ phi[psi[p]] = p
  <2>1. CASE p = a
    BY <1>1, <2>1
  <2>2. CASE p = c
    BY <1>1, <2>2
  <2>3. CASE p \notin {a, c}
    <3>1. p \in All /\ p \in Places' /\ p \notin {b, d}
      BY <1>2, <2>3
    <3> QED
      BY <1>1, <2>3, <3>1
  <2> QED
    BY <2>1, <2>2, <2>3
<1> HIDE DEF Pool, PoolPlaced, NoTwice, Counted
<1> QED
  BY <1>3, <1>4, Rearranged

(* A step that leaves every record where it is. *)
LEMMA Stay ==
  ASSUME IInv, Engine', pc \notin {"broken", "crashed"}, UNCHANGED <<out, unique>>,
         \A i \in Four : \A j \in Nat :
           /\ InQueue(i, j)' <=> InQueue(i, j)
           /\ InFile(i, j)' <=> InFile(i, j)
           /\ InQueue(i, j) => Record(queue'[i][j]) = Record(queue[i][j])
           /\ InFile(i, j) => Record(file'[i].data[j]) = Record(file[i].data[j])
  PROVE  NoTwice' /\ Counted' /\ Pool' = Pool
<1>1. /\ PoolPlaced /\ PoolPlaced' /\ NoTwice /\ Counted
  BY PoolFacts
<1>4. ASSUME NEW p \in All
      PROVE  (p \in Places <=> p \in Places') /\ (p \in Places => Held(p)' = Held(p))
  <2>1. PICK i \in Four, j \in Nat : p = <<"queue", i, j>> \/ p = <<"file", i, j>>
    BY PlaceCases
  <2>2. CASE p = <<"queue", i, j>>
    <3>1. Held(p)' = Record(queue'[i][j]) /\ Held(p) = Record(queue[i][j])
      BY <2>2 DEF Held
    <3>2. /\ p \in Places <=> InQueue(i, j)
          /\ p \in Places' <=> InQueue(i, j)'
      BY <2>2, PlaceIs, PlaceIsNext
    <3> QED
      BY <3>1, <3>2
  <2>3. CASE p = <<"file", i, j>>
    <3>1. Held(p)' = Record(file'[i].data[j]) /\ Held(p) = Record(file[i].data[j])
      BY <2>3 DEF Held
    <3>2. /\ p \in Places <=> InFile(i, j)
          /\ p \in Places' <=> InFile(i, j)'
      BY <2>3, PlaceIs, PlaceIsNext
    <3> QED
      BY <3>1, <3>2
  <2> QED
    BY <2>1, <2>2, <2>3
<1>5. Places \subseteq All /\ Places' \subseteq All
  BY PlaceIs, PlaceIsNext
<1>6. Places' = Places /\ \A p \in Places : Held(p)' = Held(p)
  BY <1>4, <1>5
<1>7. Pool' = Pool
  BY <1>1, <1>6 DEF PoolPlaced
<1>8. NoTwice'
  BY <1>1, <1>6 DEF NoTwice
<1>9. Counted'
  BY <1>1, <1>7 DEF Counted
<1> QED
  BY <1>7, <1>8, <1>9

(* A step that changes neither queues nor files. *)
LEMMA Unmoved ==
  ASSUME IInv, Engine', pc \notin {"broken", "crashed"}, UNCHANGED <<out, unique, queue, file>>,
         OnFiles' <=> OnFiles
  PROVE  NoTwice' /\ Counted' /\ Pool' = Pool
<1>1. \A i \in Four : \A j \in Nat :
        /\ InQueue(i, j)' <=> InQueue(i, j)
        /\ InFile(i, j)' <=> InFile(i, j)
        /\ InQueue(i, j) => Record(queue'[i][j]) = Record(queue[i][j])
        /\ InFile(i, j) => Record(file'[i].data[j]) = Record(file[i].data[j])
  BY DEF InQueue, InFile
<1> QED
  BY <1>1, Stay

(* The steps that move no record: they look for the next list, start or    *)
(* end a pass, or only answer.                                             *)
Quiet == \/ QueuePass \/ QueuePair \/ SortedInMemory \/ Return \/ ReturnAgain
         \/ (\E k \in Keys : Release(k)) /\ (retrieving \/ Full)
         \/ RetrieveFromQueue /\ queue[retrieval_queue] = <<>>
         \/ RetrieveFromFiles /\ Head1(0).eob /\ Head1(1).eob
         \/ FilePass /\ MoreBlocks
         \/ QueueBlock \/ FileBlock
         \/ FilePair /\ file[source].count = 0

(* They keep every record where it is. *)
LEMMA QuietStays ==
  ASSUME IInv, Engine', Quiet, UNCHANGED <<setup, using>>
  PROVE  NoTwice' /\ Counted' /\ Pool' = Pool /\ UNCHANGED out
<1>0. /\ Engine /\ Shapes /\ Stages /\ queue \in [Four -> Seq(Item)] /\ file \in [Four -> File]
      /\ setup \in Setups /\ source \in {0, 2}
  BY DEF IInv, Engine, Shapes
<1>1. CASE QueuePass \/ QueuePair
  <2>1. /\ pc \in Loop /\ pc' \in Loop /\ UNCHANGED <<out, unique, file>>
    BY <1>1 DEF QueuePass, QueuePair, Loop, reply, engine
  <2>2. UNCHANGED queue
    BY <1>1, QueuePassKeeps, QueuePairKeeps
  <2>3. ~OnFiles /\ ~OnFiles' /\ pc \notin {"broken", "crashed"}
    BY <2>1 DEF OnFiles, Loop
  <2> QED
    BY <2>1, <2>2, <2>3, Unmoved
<1>2. CASE SortedInMemory \/ Return \/ ReturnAgain
  <2>1. /\ UNCHANGED <<out, unique, file, queue>> /\ (OnFiles' <=> OnFiles)
        /\ pc \notin {"broken", "crashed"}
    BY <1>2 DEF SortedInMemory, Return, ReturnAgain, reply, engine, OnFiles
  <2> QED
    BY <2>1, Unmoved
<1>3. CASE (\E k \in Keys : Release(k)) /\ (retrieving \/ Full)
  <2>1. /\ UNCHANGED <<out, unique, file, queue>> /\ (OnFiles' <=> OnFiles)
        /\ pc \notin {"broken", "crashed"}
    BY <1>3 DEF Release, Refuse, reply, engine, OnFiles
  <2> QED
    BY <2>1, Unmoved
<1>4. CASE RetrieveFromQueue /\ queue[retrieval_queue] = <<>>
  <2>1. /\ UNCHANGED <<out, unique, file, queue>> /\ (OnFiles' <=> OnFiles)
        /\ pc \notin {"broken", "crashed"}
    BY <1>4 DEF RetrieveFromQueue, End, engine, OnFiles
  <2> QED
    BY <2>1, Unmoved
<1>5. CASE RetrieveFromFiles /\ Head1(0).eob /\ Head1(1).eob
  <2>1. /\ UNCHANGED <<out, unique, file, queue>> /\ (OnFiles' <=> OnFiles)
        /\ pc \notin {"broken", "crashed"}
    BY <1>5 DEF RetrieveFromFiles, End, engine, OnFiles
  <2> QED
    BY <2>1, Unmoved
<1>6. CASE FilePass /\ MoreBlocks
  <2>1. /\ UNCHANGED <<out, unique, queue>> /\ (OnFiles' <=> OnFiles) /\ file' = Fresh(Other(source))
        /\ pc \notin {"broken", "crashed"}
    BY <1>6 DEF FilePass, reply, OnFiles
  <2>2. \A i \in Four : file'[i].data = file[i].data /\ file'[i].at = file[i].at
    <3>1. Other(source) \in Four /\ Other(source) + 1 \in Four /\ Other(source) # Other(source) + 1
      BY <1>0, Lists
    <3>2. \A i \in Four : file'[i] = file[i] \/ file'[i] = [file[i] EXCEPT !.count = 0]
      BY <1>0, <2>1, <3>1 DEF Fresh
    <3>3. \A y \in File : [y EXCEPT !.count = 0].data = y.data /\ [y EXCEPT !.count = 0].at = y.at
      <4>1. 0 \in 0..SizeMax
        BY <1>0, Program
      <4> QED
        BY <4>1, Recounted
    <3> QED
      BY <1>0, <3>2, <3>3
  <2>3. \A i \in Four : \A j \in Nat :
          /\ InQueue(i, j)' <=> InQueue(i, j)
          /\ InFile(i, j)' <=> InFile(i, j)
          /\ InQueue(i, j) => Record(queue'[i][j]) = Record(queue[i][j])
          /\ InFile(i, j) => Record(file'[i].data[j]) = Record(file[i].data[j])
    BY <2>1, <2>2 DEF InQueue, InFile
  <2> QED
    BY <2>1, <2>3, Stay
<1>7. CASE QueueBlock
  <2>1. /\ UNCHANGED <<out, unique, file>> /\ ~OnFiles /\ ~OnFiles'
        /\ pc \notin {"broken", "crashed"}
    BY <1>7 DEF QueueBlock, reply, engine, OnFiles
  <2>2. \A i \in Four : /\ Len(queue'[i]) = Len(queue[i])
                        /\ \A j \in 1..Len(queue[i]) :
                             /\ queue'[i][j].key = queue[i][j].key
                             /\ queue'[i][j].unique = queue[i][j].unique
    BY <1>7, QueueEnds
  <2>3. \A i \in Four : \A j \in Nat :
          /\ InQueue(i, j)' <=> InQueue(i, j)
          /\ InFile(i, j)' <=> InFile(i, j)
          /\ InQueue(i, j) => Record(queue'[i][j]) = Record(queue[i][j])
          /\ InFile(i, j) => Record(file'[i].data[j]) = Record(file[i].data[j])
    BY <2>1, <2>2 DEF InQueue, InFile, Record
  <2> QED
    BY <2>1, <2>3, Stay
<1>8. CASE FileBlock
  <2>1. /\ UNCHANGED <<out, unique, queue>> /\ (OnFiles' <=> OnFiles) /\ pc \notin {"broken", "crashed"}
        /\ Merging
    BY <1>8 DEF FileBlock, reply, engine, OnFiles, Merging
  <2>2. LET d == destination IN
        /\ d \in {Target, Target + 1} /\ d \in Four /\ d # source /\ d # source + 1
        /\ source # source + 1 /\ Marker \in Item /\ Marker.eob
        /\ First(source).eob /\ First(source + 1).eob
        /\ file' \in [Four -> File]
        /\ \A k \in Four : file'[k].at = file[k].at
        /\ file'[d].data = Append(file[d].data, Marker) /\ file'[d].count = Increment(file[d].count)
        /\ \A k \in {source, source + 1} : /\ file'[k].data = file[k].data
                                           /\ file'[k].count = Decrement(file[k].count)
        /\ \A k \in Four \ {source, source + 1, d} : file'[k] = file[k]
    BY <1>8, FileEnds
  <2>3. \A i \in Four : file[i].data \in Seq(Item) /\ Len(file[i].data) \in Nat /\ file[i].at \in Nat \ {0}
    BY <1>0, <2>1, MergeFacts
  <2>d. PICK d \in Four : d = destination
    BY <2>2
  <2> DEFINE s == file[d].data
             t == file'[d].data
  <2>4. /\ d \in Four /\ s \in Seq(Item) /\ Len(s) \in Nat /\ Len(t) = Len(s) + 1 /\ t[Len(s) + 1].eob
        /\ \A j \in 1..Len(s) : t[j] = s[j]
    <3>1. t = Append(s, Marker) /\ Marker \in Item /\ Marker.eob /\ s \in Seq(Item) /\ Len(s) \in Nat
      BY <2>2, <2>3, <2>d
    <3> HIDE DEF s, t
    <3> QED
      BY <3>1
  <2>5. \A i \in Four \ {d} : file'[i].data = file[i].data
    BY <2>2, <2>d
  <2>6. \A i \in Four : file'[i].at = file[i].at
    BY <2>2
  <2>7. ASSUME NEW j \in Nat
        PROVE  (InFile(d, j)' <=> InFile(d, j)) /\ (InFile(d, j) => Record(t[j]) = Record(s[j]))
    <3> DEFINE a == file[d].at
    <3>1. /\ InFile(d, j) <=> j \in a..Len(s) /\ ~s[j].eob
          /\ InFile(d, j)' <=> j \in a..Len(t) /\ ~t[j].eob
      BY <2>4, <2>6 DEF InFile
    <3>2. a \in Nat \ {0}
      BY <2>3, <2>4
    <3> HIDE DEF s, t, a
    <3>3. j \in a..Len(s) => j \in 1..Len(s) /\ j \in a..Len(t)
      BY <2>4, <3>2
    <3>4. j \in a..Len(t) => j \in a..Len(s) \/ j = Len(s) + 1
      BY <2>4, <3>2
    <3> QED
      BY <2>4, <3>1, <3>3, <3>4
  <2>8. \A i \in Four : \A j \in Nat :
          /\ InQueue(i, j)' <=> InQueue(i, j)
          /\ InFile(i, j)' <=> InFile(i, j)
          /\ InQueue(i, j) => Record(queue'[i][j]) = Record(queue[i][j])
          /\ InFile(i, j) => Record(file'[i].data[j]) = Record(file[i].data[j])
    <3> SUFFICES ASSUME NEW i \in Four, NEW j \in Nat
                 PROVE  /\ InQueue(i, j)' <=> InQueue(i, j)
                        /\ InFile(i, j)' <=> InFile(i, j)
                        /\ InQueue(i, j) => Record(queue'[i][j]) = Record(queue[i][j])
                        /\ InFile(i, j) => Record(file'[i].data[j]) = Record(file[i].data[j])
      OBVIOUS
    <3>1. /\ InQueue(i, j)' <=> InQueue(i, j)
          /\ InQueue(i, j) => Record(queue'[i][j]) = Record(queue[i][j])
      BY <2>1 DEF InQueue
    <3>2. ASSUME i = d
          PROVE  /\ InFile(i, j)' <=> InFile(i, j)
                 /\ InFile(i, j) => Record(file'[i].data[j]) = Record(file[i].data[j])
      BY <2>7, <3>2 DEF InFile
    <3>3. ASSUME i # d
          PROVE  /\ InFile(i, j)' <=> InFile(i, j)
                 /\ InFile(i, j) => Record(file'[i].data[j]) = Record(file[i].data[j])
      BY <2>5, <2>6, <3>3 DEF InFile
    <3> QED
      BY <3>1, <3>2, <3>3
  <2> QED
    BY <2>1, <2>8, Stay
<1>9. CASE FilePair /\ file[source].count = 0
  <2>1. /\ UNCHANGED <<out, unique, queue>> /\ (OnFiles' <=> OnFiles) /\ pc \notin {"broken", "crashed"}
        /\ file' = [i \in Four |-> IF Base(i) = source THEN Spent(file[i])
                                   ELSE [file[i] EXCEPT !.at = 1]]
        /\ pc = "filepair" /\ Merging
    BY <1>9 DEF FilePair, reply, engine, OnFiles, Merging
  <2>2. /\ FilesInTurn
        /\ \A i \in Four : Closed(file[i].data)
        /\ file[source].count = Left(source)
        /\ \/ file[source + 1].count = Left(source + 1) /\ Balanced(Left(source), Left(source + 1))
           \/ Left(source) = 0 /\ Left(source + 1) = 0
    BY <2>1 DEF IInv, Engine, Files, FilesPair
  <2>3. \A i \in Four : /\ file[i] \in File /\ file[i].data \in Seq(Item) /\ Len(file[i].data) \in Nat
                        /\ file[i].at \in Nat \ {0} /\ Left(i) \in Nat
    BY <1>0, <2>1, MergeFacts
  <2>4. /\ Four = {source, source + 1, Target, Target + 1}
        /\ source \in Four /\ source + 1 \in Four
        /\ {source, source + 1} \cap {Target, Target + 1} = {}
        /\ \A i \in Four : Base(i) = source <=> i \in {source, source + 1}
    BY <1>0, Lists
  <2>5. Left(source) = 0 /\ Left(source + 1) = 0
    <3>1. Left(source) = 0 /\ Left(source + 1) \in Nat
      BY <1>9, <2>2, <2>3, <2>4
    <3> QED
      BY <2>2, <3>1 DEF Balanced
  <2>6. \A i \in {source, source + 1} : \A j \in Nat : ~InFile(i, j) /\ ~InFile(i, j)'
    <3> SUFFICES ASSUME NEW i \in {source, source + 1}, NEW j \in Nat PROVE ~InFile(i, j) /\ ~InFile(i, j)'
      OBVIOUS
    <3>1. Left(i) = 0 /\ i \in Four
      BY <2>4, <2>5
    <3>2. ~InFile(i, j)
      <4>1. ASSUME file[i].at \in 1..Len(file[i].data) PROVE FALSE
        <5>1. Blocks(file[i].data, file[i].at) >= 1
          BY <2>2, <2>3, <3>1, <4>1, ClosedBlocks
        <5> QED
          BY <3>1, <5>1 DEF Left
      <4>2. file[i].at \in Nat \ {0} /\ Len(file[i].data) \in Nat
        BY <2>3, <3>1
      <4>3. file[i].at..Len(file[i].data) = {}
        BY <4>1, <4>2
      <4> QED
        BY <4>3 DEF InFile
    <3>3. ~InFile(i, j)'
      <4>1. file'[i] = Spent(file[i]) /\ file[i] \in File
        BY <2>1, <2>3, <2>4, <3>1
      <4>2. file'[i].data = <<>> /\ file'[i].at = 1
        BY <4>1, Emptied
      <4>3. file'[i].at..Len(file'[i].data) = {}
        BY <4>2
      <4> QED
        BY <4>3 DEF InFile
    <3> QED
      BY <3>2, <3>3
  <2>7. \A i \in {Target, Target + 1} : file'[i].data = file[i].data /\ file'[i].at = file[i].at
    <3> SUFFICES ASSUME NEW i \in {Target, Target + 1}
                 PROVE  file'[i].data = file[i].data /\ file'[i].at = file[i].at
      OBVIOUS
    <3>1. file'[i] = [file[i] EXCEPT !.at = 1] /\ file[i] \in File /\ file[i].at = 1
      BY <2>1, <2>2, <2>3, <2>4 DEF FilesInTurn
    <3> QED
      BY <3>1, Rewound
  <2>8. \A i \in Four : \A j \in Nat :
          /\ InQueue(i, j)' <=> InQueue(i, j)
          /\ InFile(i, j)' <=> InFile(i, j)
          /\ InQueue(i, j) => Record(queue'[i][j]) = Record(queue[i][j])
          /\ InFile(i, j) => Record(file'[i].data[j]) = Record(file[i].data[j])
    <3> SUFFICES ASSUME NEW i \in Four, NEW j \in Nat
                 PROVE  /\ InQueue(i, j)' <=> InQueue(i, j)
                        /\ InFile(i, j)' <=> InFile(i, j)
                        /\ InQueue(i, j) => Record(queue'[i][j]) = Record(queue[i][j])
                        /\ InFile(i, j) => Record(file'[i].data[j]) = Record(file[i].data[j])
      OBVIOUS
    <3>1. /\ InQueue(i, j)' <=> InQueue(i, j)
          /\ InQueue(i, j) => Record(queue'[i][j]) = Record(queue[i][j])
      BY <2>1 DEF InQueue
    <3>2. ASSUME i \in {source, source + 1}
          PROVE  /\ InFile(i, j)' <=> InFile(i, j)
                 /\ InFile(i, j) => Record(file'[i].data[j]) = Record(file[i].data[j])
      BY <2>6, <3>2
    <3>3. ASSUME i \in {Target, Target + 1}
          PROVE  /\ InFile(i, j)' <=> InFile(i, j)
                 /\ InFile(i, j) => Record(file'[i].data[j]) = Record(file[i].data[j])
      BY <2>7, <3>3 DEF InFile
    <3> QED
      BY <2>4, <3>1, <3>2, <3>3
  <2> QED
    BY <2>1, <2>8, Stay
<1> QED
  BY <1>1, <1>2, <1>3, <1>4, <1>5, <1>6, <1>7, <1>8, <1>9 DEF Quiet, QueuePass, QueuePair, SortedInMemory,
     Return, ReturnAgain, Release, Refuse, RetrieveFromQueue, End, RetrieveFromFiles, FilePass, QueueBlock,
     FileBlock, FilePair, reply

(* A function on places, given for queues and for files. *)
Carry(fq, ff) == [p \in All |-> IF p[1] = "queue" THEN fq[p[2]][p[3]] ELSE ff[p[2]][p[3]]]

(* Its values. *)
LEMMA CarryIs ==
  ASSUME NEW fq, NEW ff
  PROVE  /\ \A i \in Four, j \in Nat : Carry(fq, ff)[<<"queue", i, j>>] = fq[i][j]
         /\ \A i \in Four, j \in Nat : Carry(fq, ff)[<<"file", i, j>>] = ff[i][j]
<1> SUFFICES ASSUME NEW i \in Four, NEW j \in Nat
             PROVE  /\ Carry(fq, ff)[<<"queue", i, j>>] = fq[i][j]
                    /\ Carry(fq, ff)[<<"file", i, j>>] = ff[i][j]
  OBVIOUS
<1> DEFINE p == <<"queue", i, j>>
           r == <<"file", i, j>>
<1>1. /\ p \in All /\ p[1] = "queue" /\ p[2] = i /\ p[3] = j
      /\ r \in All /\ r[1] # "queue" /\ r[2] = i /\ r[3] = j
  BY DEF All
<1> HIDE DEF p, r
<1>2. Carry(fq, ff)[p] = fq[i][j] /\ Carry(fq, ff)[r] = ff[i][j]
  BY <1>1 DEF Carry
<1> QED
  BY <1>2 DEF p, r

(* One turn of the loop of cob_sort_queues moves one record. *)
LEMMA QueueMovePool ==
  ASSUME IInv, Engine', QueueMove, UNCHANGED <<setup, using>>
  PROVE  NoTwice' /\ Counted' /\ Pool' = Pool /\ UNCHANGED out
<1>0. /\ pc = "move" /\ ~OnFiles /\ ~OnFiles' /\ UNCHANGED <<out, unique, file>>
      /\ queue \in [Four -> Seq(Item)] /\ pc \notin {"broken", "crashed"} /\ setup \in Setups
  BY DEF IInv, Engine, Shapes, QueueMove, OnFiles, reply, engine
<1>1. PICK c \in 0..1, i \in Four, d \in Four :
        /\ c = Chosen /\ i = source + Chosen /\ d = destination
  BY QueueMoves
<1> DEFINE x == [queue[i][1] EXCEPT !.eob = FALSE]
<1>2. /\ i # d /\ queue[i] # <<>> /\ queue[i] \in Seq(Item) /\ queue[d] \in Seq(Item)
      /\ queue[i][1] \in Item /\ queue' \in [Four -> Seq(Item)]
      /\ queue'[i] = Tail(queue[i]) /\ queue'[d] = Append(queue[d], x)
      /\ \A k \in Four \ {i, d} : queue'[k] = queue[k]
  BY <1>0, <1>1, QueueMoves
<1>3. /\ x \in Item /\ x.key = queue[i][1].key /\ x.unique = queue[i][1].unique
  BY <1>0, <1>2, Items
<1>n. PICK n \in Nat : n = Len(queue[d])
  BY <1>2, LenProperties
<1>m. PICK m \in Nat \ {0} : m = Len(queue[i])
  BY <1>2, LenProperties, EmptySeq
<1>x. PICK y : y = x
  OBVIOUS
<1>4. /\ Len(queue'[d]) = n + 1 /\ queue'[d][n + 1] = y /\ \A j \in 1..n : queue'[d][j] = queue[d][j]
      /\ Len(queue'[i]) = m - 1 /\ \A j \in 1..m - 1 : queue'[i][j] = queue[i][j + 1]
  <2> HIDE DEF x
  <2>2. Len(queue'[d]) = n + 1 /\ queue'[d][n + 1] = y /\ \A j \in 1..n : queue'[d][j] = queue[d][j]
    BY <1>2, <1>3, <1>n, <1>x
  <2>3. Len(queue'[i]) = m - 1 /\ \A j \in 1..m - 1 : queue'[i][j] = queue[i][j + 1]
    BY <1>2, <1>m
  <2> QED
    BY <2>2, <2>3
<1>5. Record(y) = Record(queue[i][1])
  BY <1>3, <1>x DEF Record
<1> DEFINE fq == [k \in Four |-> [j \in Nat |-> IF k = i THEN <<"queue", i, j + 1>>
                                               ELSE IF k = d /\ j = n + 1 THEN <<"queue", i, 1>>
                                               ELSE <<"queue", k, j>>]]
           gq == [k \in Four |-> [j \in Nat |-> IF k = i THEN IF j = 1 THEN <<"queue", d, n + 1>>
                                                             ELSE <<"queue", i, j - 1>>
                                               ELSE <<"queue", k, j>>]]
           ff == [k \in Four |-> [j \in Nat |-> <<"file", k, j>>]]
           phi == Carry(fq, ff)
           psi == Carry(gq, ff)
<1>6. /\ \A j \in Nat : phi[<<"queue", i, j>>] = <<"queue", i, j + 1>>
      /\ phi[<<"queue", d, n + 1>>] = <<"queue", i, 1>>
      /\ \A k \in Four, j \in Nat : k # i /\ ~(k = d /\ j = n + 1)
            => phi[<<"queue", k, j>>] = <<"queue", k, j>>
      /\ psi[<<"queue", i, 1>>] = <<"queue", d, n + 1>>
      /\ \A j \in Nat : j # 1 => psi[<<"queue", i, j>>] = <<"queue", i, j - 1>>
      /\ \A k \in Four, j \in Nat : k # i => psi[<<"queue", k, j>>] = <<"queue", k, j>>
      /\ \A k \in Four, j \in Nat : /\ phi[<<"file", k, j>>] = <<"file", k, j>>
                                    /\ psi[<<"file", k, j>>] = <<"file", k, j>>
  <2>1. /\ \A j \in Nat : fq[i][j] = <<"queue", i, j + 1>>
        /\ fq[d][n + 1] = <<"queue", i, 1>> /\ n + 1 \in Nat
        /\ \A k \in Four, j \in Nat : k # i /\ ~(k = d /\ j = n + 1) => fq[k][j] = <<"queue", k, j>>
    BY <1>2, <1>4
  <2>2. /\ gq[i][1] = <<"queue", d, n + 1>>
        /\ \A j \in Nat : j # 1 => gq[i][j] = <<"queue", i, j - 1>>
        /\ \A k \in Four, j \in Nat : k # i => gq[k][j] = <<"queue", k, j>>
    OBVIOUS
  <2>3. \A k \in Four, j \in Nat : ff[k][j] = <<"file", k, j>>
    OBVIOUS
  <2>0. phi = Carry(fq, ff) /\ psi = Carry(gq, ff)
    OBVIOUS
  <2> HIDE DEF fq, gq, ff, phi, psi
  <2>4. ASSUME NEW k \in Four, NEW j \in Nat PROVE phi[<<"queue", k, j>>] = fq[k][j]
    BY <2>0, CarryIs
  <2>5. ASSUME NEW k \in Four, NEW j \in Nat PROVE phi[<<"file", k, j>>] = ff[k][j]
    BY <2>0, CarryIs
  <2>6. ASSUME NEW k \in Four, NEW j \in Nat PROVE psi[<<"queue", k, j>>] = gq[k][j]
    BY <2>0, CarryIs
  <2>7. ASSUME NEW k \in Four, NEW j \in Nat PROVE psi[<<"file", k, j>>] = ff[k][j]
    BY <2>0, CarryIs
  <2>8. \A j \in Nat : phi[<<"queue", i, j>>] = <<"queue", i, j + 1>>
    BY <2>1, <2>4
  <2>9. phi[<<"queue", d, n + 1>>] = <<"queue", i, 1>>
    BY <2>1, <2>4
  <2>10. \A k \in Four, j \in Nat : k # i /\ ~(k = d /\ j = n + 1)
           => phi[<<"queue", k, j>>] = <<"queue", k, j>>
    BY <2>1, <2>4
  <2>11. psi[<<"queue", i, 1>>] = <<"queue", d, n + 1>>
    BY <2>2, <2>6
  <2>12. \A j \in Nat : j # 1 => psi[<<"queue", i, j>>] = <<"queue", i, j - 1>>
    BY <2>2, <2>6
  <2>13. \A k \in Four, j \in Nat : k # i => psi[<<"queue", k, j>>] = <<"queue", k, j>>
    BY <2>2, <2>6
  <2>14. \A k \in Four, j \in Nat : /\ phi[<<"file", k, j>>] = <<"file", k, j>>
                                   /\ psi[<<"file", k, j>>] = <<"file", k, j>>
    <3>1. \A k \in Four, j \in Nat : phi[<<"file", k, j>>] = <<"file", k, j>>
      BY <2>3, <2>5
    <3>2. \A k \in Four, j \in Nat : psi[<<"file", k, j>>] = <<"file", k, j>>
      BY <2>3, <2>7
    <3> QED
      BY <3>1, <3>2
  <2> QED
    BY <2>8, <2>9, <2>10, <2>11, <2>12, <2>13, <2>14
<1> HIDE DEF phi, psi, x
<1>7. \A k \in Four, j \in Nat :
        /\ InQueue(k, j) <=> j \in 1..Len(queue[k])
        /\ InQueue(k, j)' <=> j \in 1..Len(queue'[k])
        /\ InFile(k, j)' <=> InFile(k, j)
  BY <1>0 DEF InQueue, InFile
<1>8. ASSUME NEW p \in Places'
      PROVE  phi[p] \in Places /\ psi[phi[p]] = p /\ Held(p)' = Held(phi[p])
  <2>1. PICK k \in Four, j \in Nat : p = <<"queue", k, j>> \/ p = <<"file", k, j>>
    BY PlaceCases, PlaceIsNext
  <2>2. CASE p = <<"file", k, j>>
    <3>1. InFile(k, j) /\ Held(p)' = Record(file'[k].data[j])
      BY <1>7, <2>2, PlaceIsNext DEF Held
    <3>2. phi[p] = p /\ psi[p] = p
      BY <1>6, <2>2
    <3>3. p \in Places /\ Held(p) = Record(file[k].data[j])
      BY <2>2, <3>1, PlaceIs
    <3> QED
      BY <1>0, <3>1, <3>2, <3>3
  <2>3. CASE p = <<"queue", k, j>>
    <3>1. j \in 1..Len(queue'[k]) /\ Held(p)' = Record(queue'[k][j])
      <4>1. InQueue(k, j)'
        BY <2>3, PlaceIsNext
      <4> QED
        BY <1>7, <2>3, <4>1 DEF Held
    <3>2. CASE k = i
      <4>1. phi[p] = <<"queue", i, j + 1>> /\ j + 1 \in Nat /\ j + 1 \in 1..m /\ j \in 1..m - 1
        <5>1. phi[p] = <<"queue", i, j + 1>>
          BY <1>6, <2>3, <3>2
        <5>2. j \in 1..m - 1
          BY <1>4, <3>1, <3>2
        <5>3. j + 1 \in Nat /\ j + 1 \in 1..m
          BY <1>m, <5>2
        <5> QED
          BY <5>1, <5>2, <5>3
      <4>2. psi[phi[p]] = p
        <5>1. psi[<<"queue", i, j + 1>>] = <<"queue", i, (j + 1) - 1>>
          BY <1>6, <4>1
        <5>2. (j + 1) - 1 = j
          OBVIOUS
        <5> QED
          BY <2>3, <3>2, <4>1, <5>1, <5>2
      <4>3. phi[p] \in Places /\ Held(phi[p]) = Record(queue[i][j + 1])
        <5>1. InQueue(i, j + 1)
          BY <1>7, <4>1, <1>m
        <5> QED
          BY <4>1, <5>1, PlaceIs
      <4>4. queue'[k][j] = queue[i][j + 1]
        BY <1>4, <3>2, <4>1
      <4> QED
        BY <3>1, <4>2, <4>3, <4>4
    <3>3. CASE k = d /\ j = n + 1
      <4>1. phi[p] = <<"queue", i, 1>> /\ psi[phi[p]] = p
        <5>1. phi[p] = <<"queue", i, 1>>
          BY <1>2, <1>6, <2>3, <3>3
        <5>2. psi[<<"queue", i, 1>>] = <<"queue", d, n + 1>>
          BY <1>6
        <5> QED
          BY <2>3, <3>3, <5>1, <5>2
      <4>2. phi[p] \in Places /\ Held(phi[p]) = Record(queue[i][1])
        <5>1. InQueue(i, 1)
          <6>1. 1 \in 1..Len(queue[i])
            BY <1>m
          <6> QED
            BY <1>7, <6>1
        <5>2. /\ <<"queue", i, 1>> \in Places
              /\ Held(<<"queue", i, 1>>) = Record(queue[i][1])
          BY <5>1, PlaceIs
        <5> QED
          BY <4>1, <5>2
      <4>3. queue'[k][j] = y
        BY <1>4, <3>3
      <4> QED
        BY <1>5, <3>1, <4>1, <4>2, <4>3
    <3>4. CASE k # i /\ ~(k = d /\ j = n + 1)
      <4>1. phi[p] = p /\ psi[p] = p
        BY <1>6, <2>3, <3>4
      <4>2. j \in 1..Len(queue[k]) /\ queue'[k][j] = queue[k][j]
        <5>1. CASE k = d
          <6>1. j \in 1..n
            BY <1>4, <3>1, <3>4, <5>1
          <6> QED
            BY <1>4, <5>1, <6>1, <1>n
        <5>2. CASE k # d
          BY <1>2, <3>1, <3>4, <5>2
        <5> QED
          BY <5>1, <5>2
      <4>3. p \in Places /\ Held(p) = Record(queue[k][j])
        BY <1>7, <2>3, <4>2, PlaceIs
      <4> QED
        BY <3>1, <4>1, <4>2, <4>3
    <3> QED
      BY <3>2, <3>3, <3>4
  <2> QED
    BY <2>1, <2>2, <2>3
<1>9. ASSUME NEW p \in Places PROVE psi[p] \in Places' /\ phi[psi[p]] = p
  <2>1. PICK k \in Four, j \in Nat : p = <<"queue", k, j>> \/ p = <<"file", k, j>>
    BY PlaceCases, PlaceIs
  <2>2. CASE p = <<"file", k, j>>
    <3>1. InFile(k, j)'
      BY <1>7, <2>2, PlaceIs
    <3>2. phi[p] = p /\ psi[p] = p
      BY <1>6, <2>2
    <3> QED
      BY <2>2, <3>1, <3>2, PlaceIsNext
  <2>3. CASE p = <<"queue", k, j>>
    <3>1. j \in 1..Len(queue[k])
      BY <1>7, <2>3, PlaceIs
    <3>2. CASE k = i /\ j = 1
      <4>1. psi[p] = <<"queue", d, n + 1>> /\ n + 1 \in Nat
        <5>1. psi[p] = <<"queue", d, n + 1>>
          BY <1>6, <2>3, <3>2
        <5> QED
          BY <5>1
      <4>2. phi[<<"queue", d, n + 1>>] = <<"queue", i, 1>>
        BY <1>2, <1>6, <4>1
      <4>3. InQueue(d, n + 1)'
        <5>1. n + 1 \in 1..Len(queue'[d])
          BY <1>4
        <5> QED
          BY <1>7, <4>1, <5>1
      <4>4. <<"queue", d, n + 1>> \in Places'
        BY <4>1, <4>3, PlaceIsNext
      <4> QED
        BY <2>3, <3>2, <4>1, <4>2, <4>4
    <3>3. CASE k = i /\ j # 1
      <4>1. psi[p] = <<"queue", i, j - 1>> /\ j - 1 \in Nat /\ j - 1 \in 1..m - 1
        <5>1. j \in 1..m
          BY <3>1, <3>3, <1>m
        <5>2. psi[p] = <<"queue", i, j - 1>>
          BY <1>6, <2>3, <3>3
        <5>3. j - 1 \in Nat /\ j - 1 \in 1..m - 1
          BY <1>m, <3>3, <5>1
        <5> QED
          BY <5>2, <5>3
      <4>2. phi[<<"queue", i, j - 1>>] = <<"queue", i, (j - 1) + 1>>
        BY <1>6, <4>1
      <4>3. (j - 1) + 1 = j
        OBVIOUS
      <4>4. InQueue(i, j - 1)'
        BY <1>4, <1>7, <4>1
      <4>5. <<"queue", i, j - 1>> \in Places'
        BY <4>1, <4>4, PlaceIsNext
      <4> QED
        BY <2>3, <3>3, <4>1, <4>2, <4>3, <4>5
    <3>4. CASE k # i
      <4>1. psi[p] = p
        BY <1>6, <2>3, <3>4
      <4>2. j \in 1..Len(queue'[k]) /\ ~(k = d /\ j = n + 1)
        <5>1. CASE k = d
          <6>1. j \in 1..n
            BY <3>1, <5>1, <1>n
          <6> QED
            BY <1>4, <5>1, <6>1
        <5>2. CASE k # d
          BY <1>2, <3>1, <3>4, <5>2
        <5> QED
          BY <5>1, <5>2
      <4>3. phi[p] = p
        BY <1>6, <2>3, <3>4, <4>2
      <4>4. p \in Places'
        BY <1>7, <2>3, <4>2, PlaceIsNext
      <4> QED
        BY <4>1, <4>3, <4>4
    <3> QED
      BY <3>2, <3>3, <3>4
  <2> QED
    BY <2>1, <2>2, <2>3
<1>10. PoolPlaced /\ PoolPlaced' /\ NoTwice /\ Counted
  BY <1>0, PoolFacts
<1>11. UNCHANGED <<out, unique>>
  BY <1>0
<1> HIDE DEF Pool, PoolPlaced, NoTwice, Counted
<1>12. NoTwice' /\ Counted' /\ Pool' = Pool
  BY <1>8, <1>9, <1>10, <1>11, Rearranged
<1> QED
  BY <1>11, <1>12

(* While files are merged or read, a queue holds a head and nothing else. *)
LEMMA HeadPlaces ==
  ASSUME Engine, Merging \/ Reading
  PROVE  /\ OnFiles /\ pc \notin {"broken", "crashed"}
         /\ \A k \in Four, j \in Nat : InQueue(k, j) <=> j = 1 /\ ~queue[k][1].eob
<1>1. OnFiles /\ pc \notin {"broken", "crashed"}
  BY MergeFacts DEF Merging, Reading, OnFiles
<1>2. \A k \in Four : Len(queue[k]) = 1
  BY MergeFacts
<1> QED
  BY <1>1, <1>2 DEF InQueue

(* And after a step. *)
LEMMA HeadPlacesNext ==
  ASSUME Engine', (Merging \/ Reading)'
  PROVE  /\ OnFiles' /\ pc' \notin {"broken", "crashed"}
         /\ \A k \in Four, j \in Nat : InQueue(k, j)' <=> j = 1 /\ ~queue'[k][1].eob
<1>1. OnFiles' /\ pc' \notin {"broken", "crashed"}
  <2>1. /\ pc' \in {"filepass", "filepair", "filemove", "idle", "retrieve"}
        /\ (Merging' => Stages') /\ (Reading' => retrieving' /\ files_used')
    BY DEF Engine, Merging, Reading
  <2>2. retrieving' /\ files_used'
    BY <2>1 DEF Stages, Merging, Reading
  <2> QED
    BY <2>1, <2>2 DEF OnFiles
<1>2. \A k \in Four : Len(queue'[k]) = 1
  BY DEF Engine, GoodItems
<1> QED
  BY <1>1, <1>2 DEF InQueue

(* Two heads are read, or one while the other file has no block left: the  *)
(* records go from the files to the heads.                                 *)
LEMMA HeadsRead ==
  ASSUME IInv, Engine', Merging \/ Reading, (Merging \/ Reading)', UNCHANGED <<out, unique>>,
         NEW i \in Four, NEW k \in Four, i # k, First(i).eob, First(k).eob,
         NEW x, NEW y,
         HasRead(file, file', x, i), queue'[i] = <<x>>,
         \/ HasRead(file, file', y, k) /\ queue'[k] = <<y>>
         \/ file'[k] = file[k] /\ queue'[k][1].eob,
         \A m \in Four \ {i, k} : queue'[m] = queue[m] /\ file'[m] = file[m]
  PROVE  NoTwice' /\ Counted' /\ Pool' = Pool
<1> DEFINE none == <<"none", 0, 0>>
           nil  == <<"nil", 0, 0>>
           R    == HasRead(file, file', y, k) /\ queue'[k] = <<y>>
<1>0. Engine /\ PoolPlaced /\ PoolPlaced' /\ NoTwice /\ Counted
  BY HeadPlaces, PoolFacts DEF IInv
<1>1. /\ \A m \in Four, j \in Nat : InQueue(m, j) <=> j = 1 /\ ~queue[m][1].eob
      /\ \A m \in Four, j \in Nat : InQueue(m, j)' <=> j = 1 /\ ~queue'[m][1].eob
  BY <1>0, HeadPlaces, HeadPlacesNext
<1>2. PICK e \in Nat : e = file[i].at
  BY DEF HasRead
<1>3. /\ file'[i].data = file[i].data /\ file'[i].at = e + 1 /\ e \in 1..Len(file[i].data)
      /\ Len(file[i].data) \in Nat /\ x = file[i].data[e] /\ queue'[i][1] = x
  BY <1>2 DEF HasRead
<1>4. ASSUME R
      PROVE  \E f \in Nat : /\ file[k].at = f /\ file'[k].data = file[k].data /\ file'[k].at = f + 1
                            /\ f \in 1..Len(file[k].data)
                            /\ Len(file[k].data) \in Nat /\ y = file[k].data[f] /\ queue'[k][1] = y
  BY <1>4 DEF HasRead
<1>5. PICK f, c, d :
        \/ /\ R /\ f \in Nat /\ c = <<"file", k, f>> /\ d = <<"queue", k, 1>>
           /\ file[k].at = f /\ file'[k].data = file[k].data /\ file'[k].at = f + 1
           /\ f \in 1..Len(file[k].data)
           /\ Len(file[k].data) \in Nat /\ y = file[k].data[f] /\ queue'[k][1] = y
        \/ c = none /\ d = nil /\ file'[k] = file[k] /\ queue'[k][1].eob
  BY <1>4
<1> DEFINE a == <<"file", i, e>>
           b == <<"queue", i, 1>>
<1>6. /\ none # nil /\ none \notin All /\ nil \notin All
      /\ a \in All /\ a[1] = "file" /\ a[2] = i /\ a[3] = e
      /\ b \in All /\ b[1] = "queue" /\ b[2] = i /\ b[3] = 1
  BY DEF All
<1>61. \/ c[1] = "file" /\ c[2] = k /\ c[3] = f /\ d[1] = "queue" /\ d[2] = k /\ d[3] = 1
       \/ c[1] = "none" /\ d[1] = "nil"
  BY <1>5
<1> HIDE DEF none, nil, R
<1>7. a # c /\ b # d
  BY <1>6, <1>61
<1>8. \A m \in Four, j \in Nat : InFile(m, j) <=> j \in file[m].at..Len(file[m].data)
                                                  /\ ~file[m].data[j].eob
  BY DEF InFile
<1>9. \A m \in Four, j \in Nat : InFile(m, j)' <=> j \in file'[m].at..Len(file'[m].data)
                                                   /\ ~file'[m].data[j].eob
  BY DEF InFile
<1>10. ASSUME NEW m \in Four, NEW j \in Nat, NEW p, p = <<"queue", m, j>>
       PROVE  /\ p \in Places /\ p \notin {a, c} <=> p \in Places' /\ p \notin {b, d}
              /\ p \in Places /\ p \notin {a, c} => Held(p)' = Held(p)
  <2>1. /\ p \in Places <=> InQueue(m, j)
        /\ p \in Places' <=> InQueue(m, j)'
        /\ Held(p) = Record(queue[m][j]) /\ Held(p)' = Record(queue'[m][j])
    BY <1>10, PlaceIs, PlaceIsNext DEF Held
  <2>0. p[1] = "queue" /\ p[2] = m /\ p[3] = j
    BY <1>10
  <2>2. p \notin {a, c}
    <3> HIDE DEF a
    <3> QED
      BY <1>6, <1>61, <2>0
  <2>3. CASE m = i
    <3>1. ~InQueue(m, j)
      BY <1>1, <2>3 DEF First
    <3>2. InQueue(m, j)' => p = b
      BY <1>1, <1>10, <2>3
    <3> QED
      BY <2>1, <3>1, <3>2
  <2>4. CASE m = k
    <3>1. ~InQueue(m, j)
      BY <1>1, <2>4 DEF First
    <3>2. InQueue(m, j)' => p = d
      BY <1>1, <1>5, <1>10, <2>4
    <3> QED
      BY <2>1, <3>1, <3>2
  <2>5. CASE m \notin {i, k}
    <3>1. queue'[m] = queue[m]
      BY <2>5
    <3>2. p \notin {b, d}
      <4> HIDE DEF b
      <4> QED
        BY <1>6, <1>61, <2>0, <2>5
    <3>3. InQueue(m, j)' <=> InQueue(m, j)
      BY <1>1, <3>1
    <3> QED
      BY <2>1, <2>2, <3>1, <3>2, <3>3
  <2> QED
    BY <2>3, <2>4, <2>5
<1>11. ASSUME NEW m \in Four, NEW j \in Nat, NEW p, p = <<"file", m, j>>
       PROVE  /\ p \in Places /\ p \notin {a, c} <=> p \in Places' /\ p \notin {b, d}
              /\ p \in Places /\ p \notin {a, c} => Held(p)' = Held(p)
  <2>1. /\ p \in Places <=> InFile(m, j)
        /\ p \in Places' <=> InFile(m, j)'
        /\ Held(p) = Record(file[m].data[j]) /\ Held(p)' = Record(file'[m].data[j])
    BY <1>11, PlaceIs, PlaceIsNext DEF Held
  <2>0. p[1] = "file" /\ p[2] = m /\ p[3] = j
    BY <1>11
  <2>2. p \notin {b, d}
    <3> HIDE DEF b
    <3> QED
      BY <1>6, <1>61, <2>0
  <2>3. CASE m = i
    <3>1. p \notin {a, c} <=> j # e
      <4>1. p # c
        BY <1>61, <2>0, <2>3
      <4> QED
        BY <1>11, <2>0, <2>3, <4>1
    <3>2. InFile(m, j) /\ j # e <=> InFile(m, j)'
      BY <1>2, <1>3, <1>8, <1>9, <2>3
    <3> QED
      BY <1>3, <2>1, <2>2, <2>3, <3>1, <3>2
  <2>4. CASE m = k
    <3>1. CASE c = <<"file", k, f>> /\ d = <<"queue", k, 1>>
      <4>1. p \notin {a, c} <=> j # f
        <5>1. p # a
          BY <2>0, <2>4
        <5> QED
          BY <1>11, <2>0, <2>4, <3>1, <5>1
      <4>2. /\ file[k].at = f /\ file'[k].data = file[k].data /\ file'[k].at = f + 1
            /\ f \in 1..Len(file[k].data) /\ Len(file[k].data) \in Nat
        <5>1. c # none
          BY <3>1 DEF none
        <5> QED
          BY <1>5, <5>1
      <4>3. InFile(m, j) /\ j # f <=> InFile(m, j)'
        BY <1>8, <1>9, <2>4, <4>2
      <4> QED
        BY <2>1, <2>2, <2>4, <4>1, <4>2, <4>3
    <3>2. CASE c = none /\ file'[k] = file[k]
      <4>1. p \notin {a, c}
        <5>1. c[1] = "none"
          BY <3>2 DEF none
        <5> QED
          BY <2>0, <2>4, <5>1
      <4>2. InFile(m, j) <=> InFile(m, j)'
        BY <1>8, <1>9, <2>4, <3>2
      <4> QED
        BY <2>1, <2>2, <2>4, <3>2, <4>1, <4>2
    <3> QED
      BY <1>5, <3>1, <3>2
  <2>5. CASE m \notin {i, k}
    <3>1. file'[m] = file[m]
      BY <2>5
    <3>2. p \notin {a, c}
      <4> HIDE DEF a
      <4> QED
        BY <1>6, <1>61, <2>0, <2>5
    <3>3. InFile(m, j)' <=> InFile(m, j)
      BY <1>8, <1>9, <3>1
    <3> QED
      BY <2>1, <2>2, <3>1, <3>2, <3>3
  <2> QED
    BY <2>3, <2>4, <2>5
<1>12. \A p \in All : /\ p \in Places /\ p \notin {a, c} <=> p \in Places' /\ p \notin {b, d}
                      /\ p \in Places /\ p \notin {a, c} => Held(p)' = Held(p)
  BY <1>10, <1>11, PlaceCases
<1>13. (a \in Places <=> b \in Places') /\ (a \in Places => Held(b)' = Held(a))
  <2>0. /\ a \in Places <=> InFile(i, e)
        /\ b \in Places' <=> InQueue(i, 1)'
        /\ Held(a) = Record(file[i].data[e]) /\ Held(b)' = Record(queue'[i][1])
    BY PlaceIs, PlaceIsNext DEF Held
  <2>1. /\ a \in Places <=> ~x.eob
        /\ b \in Places' <=> ~x.eob
    <3>1. e \in file[i].at..Len(file[i].data)
      BY <1>2, <1>3
    <3>2. InFile(i, e) <=> ~x.eob
      BY <1>3, <1>8, <3>1
    <3>3. InQueue(i, 1)' <=> ~x.eob
      BY <1>1, <1>3
    <3> QED
      BY <2>0, <3>2, <3>3
  <2>2. Held(a) = Record(x) /\ Held(b)' = Record(x)
    BY <1>3, <2>0
  <2> QED
    BY <2>1, <2>2
<1>14. (c \in Places <=> d \in Places') /\ (c \in Places => Held(d)' = Held(c))
  <2>1. CASE /\ f \in Nat /\ c = <<"file", k, f>> /\ d = <<"queue", k, 1>> /\ file[k].at = f
             /\ f \in 1..Len(file[k].data) /\ Len(file[k].data) \in Nat
             /\ y = file[k].data[f] /\ queue'[k][1] = y
    <3>0. /\ c \in Places <=> InFile(k, f)
          /\ d \in Places' <=> InQueue(k, 1)'
      BY <2>1, PlaceIs, PlaceIsNext
    <3>1. /\ c \in Places <=> ~y.eob
          /\ d \in Places' <=> ~y.eob
      <4>1. f \in file[k].at..Len(file[k].data)
        BY <2>1
      <4>2. InFile(k, f) <=> ~y.eob
        BY <1>8, <2>1, <4>1
      <4>3. InQueue(k, 1)' <=> ~y.eob
        BY <1>1, <2>1
      <4> QED
        BY <3>0, <4>2, <4>3
    <3>2. Held(c) = Record(y) /\ Held(d)' = Record(y)
      BY <2>1 DEF Held
    <3> QED
      BY <3>1, <3>2
  <2>2. CASE c = none /\ d = nil
    BY <1>6, <2>2, PlaceIs, PlaceIsNext
  <2> QED
    BY <1>5, <2>1, <2>2
<1>15. \A p \in Places : p \notin {a, c} => Held(p)' = Held(p)
  BY <1>12, PlaceIs
<1> HIDE DEF a, b, Pool, PoolPlaced, NoTwice, Counted
<1> QED
  BY <1>0, <1>7, <1>12, <1>13, <1>14, <1>15, Exchanged

(* The last pass reads the two heads that RETURN begins with. *)
LEMMA FilePassPool ==
  ASSUME IInv, Engine', FilePass, ~MoreBlocks, UNCHANGED <<setup, using>>
  PROVE  NoTwice' /\ Counted' /\ Pool' = Pool /\ UNCHANGED out
<1>1. /\ Engine /\ pc = "filepass" /\ Merging /\ UNCHANGED <<out, unique, retrieving, files_used>>
      /\ FilesPass
  BY DEF IInv, Engine, Files, FilePass, Merging, reply
<1>2. PICK x, y : /\ HasRead(file, file', x, source) /\ HasRead(file, file', y, source + 1)
                  /\ source # source + 1 /\ pc' = "retrieve"
                  /\ \A j \in Four \ {source, source + 1} : file'[j] = file[j]
                  /\ queue' = [queue EXCEPT ![source] = <<x>>, ![source + 1] = <<y>>]
  BY FilePassReads
<1>3. retrieving /\ files_used /\ source \in {0, 2} /\ queue \in [Four -> Seq(Item)]
  BY <1>1, MergeFacts
<1>4. PICK i \in Four, k \in Four : i = source /\ k = source + 1
  BY <1>3, Lists
<1>5. /\ First(i).eob /\ First(k).eob /\ i # k
      /\ HasRead(file, file', x, i) /\ HasRead(file, file', y, k)
      /\ queue'[i] = <<x>> /\ queue'[k] = <<y>>
      /\ \A m \in Four \ {i, k} : queue'[m] = queue[m] /\ file'[m] = file[m]
  <2>1. First(i).eob /\ First(k).eob
    BY <1>1 DEF FilesPass
  <2>2. HasRead(file, file', x, i) /\ HasRead(file, file', y, k) /\ i # k
    BY <1>2, <1>4
  <2>3. /\ queue'[i] = <<x>> /\ queue'[k] = <<y>>
        /\ \A m \in Four \ {i, k} : queue'[m] = queue[m] /\ file'[m] = file[m]
    BY <1>2, <1>3, <1>4
  <2> QED
    BY <2>1, <2>2, <2>3
<1>6. (Merging \/ Reading)'
  BY <1>1, <1>2, <1>3 DEF Reading
<1> HIDE DEF NoTwice, Counted, Pool
<1> QED
  BY <1>1, <1>5, <1>6, HeadsRead

(* A pair that is begun. *)
LEMMA FilePairPool ==
  ASSUME IInv, Engine', FilePair, file[source].count # 0, UNCHANGED <<setup, using>>
  PROVE  NoTwice' /\ Counted' /\ Pool' = Pool /\ UNCHANGED out
<1>1. /\ Engine /\ pc = "filepair" /\ Merging /\ UNCHANGED <<out, unique, retrieving, files_used>>
      /\ FilesPair
  BY DEF IInv, Engine, Files, FilePair, Merging, reply, engine
<1>2. PICK x, y : /\ HasRead(file, file', x, source) /\ source # source + 1 /\ pc' = "filemove"
                  /\ Paired => HasRead(file, file', y, source + 1)
                  /\ ~Paired => /\ file'[source + 1] = file[source + 1]
                                /\ y = [First(source + 1) EXCEPT !.eob = TRUE]
                  /\ \A j \in {Target, Target + 1} : file'[j] = file[j]
                  /\ queue' = [queue EXCEPT ![source] = <<x>>, ![source + 1] = <<y>>]
  BY FilePairReads
<1>3. /\ setup \in Setups /\ source \in {0, 2} /\ queue \in [Four -> Seq(Item)]
      /\ First(source) \in Item /\ First(source + 1) \in Item
      /\ Four = {source, source + 1, Target, Target + 1}
      /\ source \in Four /\ source + 1 \in Four
  BY <1>1, MergeFacts, Lists
<1>4. PICK i \in Four, k \in Four : i = source /\ k = source + 1
  BY <1>3
<1>5. /\ First(i).eob /\ First(k).eob /\ i # k /\ HasRead(file, file', x, i) /\ queue'[i] = <<x>>
      /\ \/ HasRead(file, file', y, k) /\ queue'[k] = <<y>>
         \/ file'[k] = file[k] /\ queue'[k][1].eob
      /\ \A m \in Four \ {i, k} : queue'[m] = queue[m] /\ file'[m] = file[m]
  <2>1. First(i).eob /\ First(k).eob
    BY <1>1, <1>4 DEF FilesPair
  <2>2. HasRead(file, file', x, i) /\ i # k
    BY <1>2, <1>4
  <2>3. /\ queue'[i] = <<x>> /\ queue'[k] = <<y>>
        /\ \A m \in Four \ {i, k} : queue'[m] = queue[m]
    BY <1>2, <1>3, <1>4
  <2>4. \A m \in Four \ {i, k} : file'[m] = file[m]
    BY <1>2, <1>3, <1>4
  <2>5. \/ HasRead(file, file', y, k)
        \/ file'[k] = file[k] /\ queue'[k][1].eob
    <3>1. CASE Paired
      BY <1>2, <1>4, <3>1
    <3>2. CASE ~Paired
      <4>1. /\ file'[k] = file[k] /\ y = [First(source + 1) EXCEPT !.eob = TRUE]
            /\ queue'[k][1] = y
        <5>1. queue'[k][1] = y
          BY <2>3
        <5>2. file'[source + 1] = file[source + 1] /\ y = [First(source + 1) EXCEPT !.eob = TRUE]
          BY <1>2, <3>2
        <5> QED
          BY <1>4, <5>1, <5>2
      <4>2. [First(source + 1) EXCEPT !.eob = TRUE].eob = TRUE
        BY <1>3, Items
      <4> QED
        BY <4>1, <4>2
    <3> QED
      BY <3>1, <3>2
  <2> QED
    BY <2>1, <2>2, <2>3, <2>4, <2>5
<1>6. (Merging \/ Reading)'
  BY <1>1, <1>2 DEF Merging
<1> HIDE DEF NoTwice, Counted, Pool
<1> QED
  BY <1>1, <1>5, <1>6, HeadsRead

(* One turn of the merge: the record at a head goes behind the destination, *)
(* and one of its file, if there is one, takes its place.                   *)
LEMMA FileMovePool ==
  ASSUME IInv, Engine', FileMove, UNCHANGED <<setup, using>>
  PROVE  NoTwice' /\ Counted' /\ Pool' = Pool /\ UNCHANGED out
<1>0. /\ Engine /\ pc = "filemove" /\ Merging /\ UNCHANGED <<out, unique, retrieving, files_used>>
      /\ FilesMove
  BY DEF IInv, Engine, Files, FileMove, Merging, reply, engine
<1>i. PICK i \in Four : i = source + HeadChosen
  BY FileMoves
<1>d. PICK dd \in Four : dd = destination
  BY FileMoves
<1>x. PICK x : x = ReadItem(file, i)
  OBVIOUS
<1>1. /\ i = source + HeadChosen /\ dd = destination
      /\ i # dd /\ ~First(i).eob /\ pc' = "filemove" /\ HasRead(file, file', x, i)
      /\ queue' = [queue EXCEPT ![i] = <<x>>]
      /\ file'[dd].data = Append(file[dd].data, First(i)) /\ file'[dd].at = file[dd].at
      /\ \A k \in Four \ {i, dd} : file'[k] = file[k]
  BY <1>i, <1>d, <1>x, FileMoves
<1>2. /\ queue \in [Four -> Seq(Item)] /\ file[dd].data \in Seq(Item) /\ Len(file[dd].data) \in Nat
      /\ First(i) \in Item
      /\ file[dd].at \in Nat \ {0} /\ file[dd].at <= Len(file[dd].data) + 1
  BY <1>0, MergeFacts
<1>3. /\ Engine /\ Merging' /\ PoolPlaced /\ PoolPlaced' /\ NoTwice /\ Counted
  BY <1>0, <1>1, HeadPlaces, PoolFacts DEF Merging
<1>4. /\ \A m \in Four, j \in Nat : InQueue(m, j) <=> j = 1 /\ ~queue[m][1].eob
      /\ \A m \in Four, j \in Nat : InQueue(m, j)' <=> j = 1 /\ ~queue'[m][1].eob
  BY <1>0, <1>3, HeadPlaces, HeadPlacesNext
<1>e. PICK e \in Nat : e = file[i].at
  BY <1>1 DEF HasRead
<1>n. PICK n \in Nat : n = Len(file[dd].data)
  BY <1>2
<1>h. PICK h : h = First(i)
  OBVIOUS
<1>5. e = file[i].at /\ n = Len(file[dd].data) /\ h = First(i)
  BY <1>e, <1>n, <1>h
<1>6. /\ file'[i].data = file[i].data /\ file'[i].at = e + 1 /\ e \in 1..Len(file[i].data)
      /\ Len(file[i].data) \in Nat /\ x = file[i].data[e] /\ queue'[i][1] = x
      /\ queue[i][1] = h /\ ~h.eob /\ \A m \in Four \ {i} : queue'[m] = queue[m]
  <2>1. queue'[i][1] = x /\ queue[i][1] = h /\ ~h.eob /\ \A m \in Four \ {i} : queue'[m] = queue[m]
    BY <1>1, <1>2, <1>5 DEF First
  <2>2. /\ file'[i].data = file[i].data /\ file'[i].at = e + 1 /\ e \in 1..Len(file[i].data)
        /\ Len(file[i].data) \in Nat /\ x = file[i].data[e]
    BY <1>1, <1>5 DEF HasRead
  <2> QED
    BY <2>1, <2>2
<1>7. /\ Len(file'[dd].data) = n + 1 /\ file'[dd].data[n + 1] = h
      /\ \A j \in 1..n : file'[dd].data[j] = file[dd].data[j]
  BY <1>1, <1>2, <1>5
<1> DEFINE a == <<"queue", i, 1>>
           b == <<"file", dd, n + 1>>
           c == <<"file", i, e>>
           d == <<"queue", i, 1>>
<1>8. /\ a \in All /\ a[1] = "queue" /\ a[2] = i /\ a[3] = 1
      /\ b \in All /\ b[1] = "file" /\ b[2] = dd /\ b[3] = n + 1
      /\ c \in All /\ c[1] = "file" /\ c[2] = i /\ c[3] = e
      /\ d \in All /\ d[1] = "queue" /\ d[2] = i /\ d[3] = 1
  BY DEF All
<1>9. /\ \A m \in Four, j \in Nat : InFile(m, j) <=> j \in file[m].at..Len(file[m].data)
                                                     /\ ~file[m].data[j].eob
      /\ \A m \in Four, j \in Nat : InFile(m, j)' <=> j \in file'[m].at..Len(file'[m].data)
                                                      /\ ~file'[m].data[j].eob
  BY DEF InFile
<1>10. ASSUME NEW m \in Four, NEW j \in Nat, NEW p, p = <<"queue", m, j>>
       PROVE  /\ p \in Places /\ p \notin {a, c} <=> p \in Places' /\ p \notin {b, d}
              /\ p \in Places /\ p \notin {a, c} => Held(p)' = Held(p)
  <2>1. /\ p \in Places <=> InQueue(m, j)
        /\ p \in Places' <=> InQueue(m, j)'
        /\ Held(p) = Record(queue[m][j]) /\ Held(p)' = Record(queue'[m][j])
    BY <1>10, PlaceIs, PlaceIsNext DEF Held
  <2>2. p[1] = "queue" /\ p[2] = m /\ p[3] = j
    BY <1>10
  <2>3. CASE m = i
    <3>1. InQueue(m, j) => j = 1
      BY <1>4
    <3>2. InQueue(m, j)' => j = 1
      BY <1>4
    <3>3. j = 1 => p = a /\ p = d
      BY <1>10, <2>3
    <3> QED
      BY <2>1, <3>1, <3>2, <3>3
  <2>4. CASE m # i
    <3>1. p \notin {a, c} /\ p \notin {b, d}
      <4> HIDE DEF a, b, c, d
      <4> QED
        BY <1>8, <2>2, <2>4
    <3>2. queue'[m] = queue[m]
      BY <1>6, <2>4
    <3>3. InQueue(m, j)' <=> InQueue(m, j)
      BY <1>4, <3>2
    <3> QED
      BY <2>1, <3>1, <3>2, <3>3
  <2> QED
    BY <2>3, <2>4
<1>11. ASSUME NEW m \in Four, NEW j \in Nat, NEW p, p = <<"file", m, j>>
       PROVE  /\ p \in Places /\ p \notin {a, c} <=> p \in Places' /\ p \notin {b, d}
              /\ p \in Places /\ p \notin {a, c} => Held(p)' = Held(p)
  <2>1. /\ p \in Places <=> InFile(m, j)
        /\ p \in Places' <=> InFile(m, j)'
        /\ Held(p) = Record(file[m].data[j]) /\ Held(p)' = Record(file'[m].data[j])
    BY <1>11, PlaceIs, PlaceIsNext DEF Held
  <2>2. p[1] = "file" /\ p[2] = m /\ p[3] = j
    BY <1>11
  <2>3. p # a /\ p # d
    <3> HIDE DEF a, d
    <3> QED
      BY <1>8, <2>2
  <2>4. CASE m = i
    <3>1. p # c <=> j # e
      BY <1>11, <2>2, <2>4
    <3>2. p # b
      <4> HIDE DEF b
      <4> QED
        BY <1>1, <1>8, <2>2, <2>4
    <3>3. InFile(m, j) /\ j # e <=> InFile(m, j)'
      BY <1>5, <1>6, <1>9, <2>4
    <3> HIDE DEF a, b, c, d
    <3> QED
      BY <1>6, <2>1, <2>3, <2>4, <3>1, <3>2, <3>3
  <2>5. CASE m = dd
    <3>1. p # c
      <4> HIDE DEF c
      <4> QED
        BY <1>1, <1>8, <2>2, <2>5
    <3>2. p # b <=> j # n + 1
      BY <1>11, <2>2, <2>5
    <3>3. InFile(m, j)' /\ j # n + 1 <=> InFile(m, j)
      <4>1. file'[m].at = file[m].at /\ Len(file[m].data) = n /\ Len(file'[m].data) = n + 1
            /\ file[m].at \in Nat \ {0}
        BY <1>1, <1>2, <1>5, <1>7, <2>5
      <4>2. InFile(m, j)' /\ j # n + 1 <=> j \in file[m].at..n /\ ~file'[m].data[j].eob
        BY <1>9, <4>1
      <4>3. j \in file[m].at..n => file'[m].data[j] = file[m].data[j]
        BY <1>7, <2>5, <4>1
      <4> QED
        BY <1>9, <4>1, <4>2, <4>3
    <3>4. InFile(m, j) => file'[m].data[j] = file[m].data[j]
      <4>1. InFile(m, j) => j \in 1..n
        BY <1>2, <1>5, <1>9, <2>5
      <4> QED
        BY <1>7, <2>5, <4>1
    <3> HIDE DEF a, b, c, d
    <3> QED
      BY <2>1, <2>3, <3>1, <3>2, <3>3, <3>4
  <2>6. CASE m \notin {i, dd}
    <3>1. p # c /\ p # b
      <4> HIDE DEF b, c
      <4> QED
        BY <1>8, <2>2, <2>6
    <3>2. file'[m] = file[m]
      BY <1>1, <2>6
    <3>3. InFile(m, j)' <=> InFile(m, j)
      BY <1>9, <3>2
    <3> HIDE DEF a, b, c, d
    <3> QED
      BY <2>1, <2>3, <3>1, <3>2, <3>3
  <2> QED
    BY <2>4, <2>5, <2>6
<1>12. \A p \in All : /\ p \in Places /\ p \notin {a, c} <=> p \in Places' /\ p \notin {b, d}
                      /\ p \in Places /\ p \notin {a, c} => Held(p)' = Held(p)
  BY <1>10, <1>11, PlaceCases
<1>13. (a \in Places <=> b \in Places') /\ (a \in Places => Held(b)' = Held(a))
  <2>1. /\ a \in Places <=> InQueue(i, 1)
        /\ b \in Places' <=> InFile(dd, n + 1)'
        /\ Held(a) = Record(queue[i][1]) /\ Held(b)' = Record(file'[dd].data[n + 1])
    <3>1. a \in Places <=> InQueue(i, 1)
      BY PlaceIs
    <3>2. n + 1 \in Nat
      OBVIOUS
    <3>3. b \in Places' <=> InFile(dd, n + 1)'
      BY <3>2, PlaceIsNext
    <3>4. Held(a) = Record(queue[i][1]) /\ Held(b)' = Record(file'[dd].data[n + 1])
      BY DEF Held
    <3> QED
      BY <3>1, <3>3, <3>4
  <2>2. InQueue(i, 1)
    BY <1>4, <1>6
  <2>3. n + 1 \in file'[dd].at..Len(file'[dd].data)
    BY <1>1, <1>2, <1>5, <1>7
  <2>4. InFile(dd, n + 1)'
    <3>1. n + 1 \in Nat
      OBVIOUS
    <3> QED
      BY <1>6, <1>7, <1>9, <2>3, <3>1
  <2> QED
    BY <1>6, <1>7, <2>1, <2>2, <2>4
<1>14. (c \in Places <=> d \in Places') /\ (c \in Places => Held(d)' = Held(c))
  <2>1. /\ c \in Places <=> InFile(i, e)
        /\ d \in Places' <=> InQueue(i, 1)'
        /\ Held(c) = Record(file[i].data[e]) /\ Held(d)' = Record(queue'[i][1])
    BY PlaceIs, PlaceIsNext DEF Held
  <2>2. e \in file[i].at..Len(file[i].data)
    BY <1>5, <1>6
  <2>3. InFile(i, e) <=> ~x.eob
    BY <1>6, <1>9, <2>2
  <2>4. InQueue(i, 1)' <=> ~x.eob
    BY <1>4, <1>6
  <2> QED
    BY <1>6, <2>1, <2>3, <2>4
<1>15. \A p \in Places : p \notin {a, c} => Held(p)' = Held(p)
  BY <1>12, PlaceIs
<1>16. a # c /\ b # d
  <2> HIDE DEF a, b, c, d
  <2> QED
    BY <1>8
<1> HIDE DEF a, b, c, d, Pool, PoolPlaced, NoTwice, Counted
<1>17. NoTwice' /\ Counted' /\ Pool' = Pool
  BY <1>0, <1>3, <1>12, <1>13, <1>14, <1>15, <1>16, Exchanged
<1> QED
  BY <1>0, <1>17

(* A record that lies somewhere is one released: its stamp says when. *)
LEMMA Stamps ==
  ASSUME Engine, InQueues \/ Merging \/ Reading
  PROVE  \A p \in Places : /\ Held(p).key \in Keys
                           /\ Held(p).unique \in Nat /\ Held(p).unique < unique
<1>1. unique \in Nat /\ file \in [Four -> File] /\ queue \in [Four -> Seq(Item)]
  BY Program DEF Engine, Shapes
<1>2. \A x : IsRecord(x) => Record(x).key \in Keys /\ Record(x).unique \in Nat /\ Record(x).unique < unique
  BY <1>1 DEF IsRecord, Record
<1>3. ASSUME NEW m \in Four, NEW j \in Nat, InQueue(m, j) PROVE IsRecord(queue[m][j])
  <2>1. CASE InQueues
    BY <1>3, <2>1 DEF Engine, GoodItems, InQueue
  <2>2. CASE Merging \/ Reading
    <3>1. j = 1 /\ ~queue[m][1].eob
      BY <1>3, <2>2, HeadPlaces
    <3> QED
      BY <2>2, <3>1 DEF Engine, GoodItems
  <2> QED
    BY <2>1, <2>2
<1>4. ASSUME NEW m \in Four, NEW j \in Nat, InFile(m, j) PROVE IsRecord(file[m].data[j])
  <2>1. file[m] \in File
    BY <1>1
  <2>2. file[m].at \in Nat \ {0} /\ Len(file[m].data) \in Nat
    BY <2>1, LenProperties DEF File
  <2>3. j \in 1..Len(file[m].data) /\ ~file[m].data[j].eob
    BY <1>4, <2>2 DEF InFile
  <2> QED
    BY <2>3 DEF Engine, GoodItems
<1>5. ASSUME NEW p \in Places
      PROVE  \E x : IsRecord(x) /\ Held(p) = Record(x)
  <2>1. PICK m \in Four, j \in Nat : p = <<"queue", m, j>> \/ p = <<"file", m, j>>
    BY PlaceCases, PlaceIs
  <2>2. CASE p = <<"queue", m, j>>
    <3>1. InQueue(m, j) /\ Held(p) = Record(queue[m][j])
      BY <2>2, PlaceIs
    <3> QED
      BY <1>3, <3>1
  <2>3. CASE p = <<"file", m, j>>
    <3>1. InFile(m, j) /\ Held(p) = Record(file[m].data[j])
      BY <2>3, PlaceIs
    <3> QED
      BY <1>4, <3>1
  <2> QED
    BY <2>1, <2>2, <2>3
<1> QED
  BY <1>2, <1>5

(* The places of a queue, one further and one back. *)
Shifts(up, down, q) ==
  /\ \A j \in Nat : up[<<"queue", q, j>>] = <<"queue", q, j + 1>>
  /\ \A j \in Nat : down[<<"queue", q, j + 1>>] = <<"queue", q, j>>
  /\ \A m \in Four, j \in Nat : m # q => /\ up[<<"queue", m, j>>] = <<"queue", m, j>>
                                         /\ down[<<"queue", m, j>>] = <<"queue", m, j>>
  /\ \A m \in Four, j \in Nat : /\ up[<<"file", m, j>>] = <<"file", m, j>>
                                /\ down[<<"file", m, j>>] = <<"file", m, j>>

(* There are such functions. *)
LEMMA Shift ==
  ASSUME NEW q \in Four
  PROVE  \E up, down : Shifts(up, down, q)
<1> DEFINE fq == [k \in Four |-> [j \in Nat |-> IF k = q THEN <<"queue", k, j + 1>> ELSE <<"queue", k, j>>]]
           gq == [k \in Four |-> [j \in Nat |-> IF k = q THEN <<"queue", k, j - 1>> ELSE <<"queue", k, j>>]]
           ff == [k \in Four |-> [j \in Nat |-> <<"file", k, j>>]]
<1>1. PICK up, down : up = Carry(fq, ff) /\ down = Carry(gq, ff)
  OBVIOUS
<1>2. /\ \A k \in Four, j \in Nat : fq[k][j] = IF k = q THEN <<"queue", k, j + 1>> ELSE <<"queue", k, j>>
      /\ \A k \in Four, j \in Nat : gq[k][j] = IF k = q THEN <<"queue", k, j - 1>> ELSE <<"queue", k, j>>
      /\ \A k \in Four, j \in Nat : ff[k][j] = <<"file", k, j>>
  OBVIOUS
<1> HIDE DEF fq, gq, ff
<1>3. ASSUME NEW k \in Four, NEW j \in Nat
      PROVE  /\ up[<<"queue", k, j>>] = fq[k][j] /\ down[<<"queue", k, j>>] = gq[k][j]
             /\ up[<<"file", k, j>>] = ff[k][j] /\ down[<<"file", k, j>>] = ff[k][j]
  BY <1>1, CarryIs
<1>4. ASSUME NEW j \in Nat
      PROVE  up[<<"queue", q, j>>] = <<"queue", q, j + 1>>
  BY <1>2, <1>3
<1>5. ASSUME NEW j \in Nat
      PROVE  down[<<"queue", q, j + 1>>] = <<"queue", q, j>>
  <2>1. j + 1 \in Nat /\ (j + 1) - 1 = j
    OBVIOUS
  <2>2. down[<<"queue", q, j + 1>>] = gq[q][j + 1]
    BY <1>3, <2>1
  <2>3. gq[q][j + 1] = <<"queue", q, (j + 1) - 1>>
    BY <1>2, <2>1
  <2> QED
    BY <2>1, <2>2, <2>3
<1>6. ASSUME NEW m \in Four, NEW j \in Nat, m # q
      PROVE  up[<<"queue", m, j>>] = <<"queue", m, j>> /\ down[<<"queue", m, j>>] = <<"queue", m, j>>
  <2>1. fq[m][j] = <<"queue", m, j>> /\ gq[m][j] = <<"queue", m, j>>
    BY <1>2, <1>6
  <2> QED
    BY <1>3, <2>1
<1>7. ASSUME NEW m \in Four, NEW j \in Nat
      PROVE  up[<<"file", m, j>>] = <<"file", m, j>> /\ down[<<"file", m, j>>] = <<"file", m, j>>
  <2>1. ff[m][j] = <<"file", m, j>>
    BY <1>2
  <2>2. up[<<"file", m, j>>] = ff[m][j] /\ down[<<"file", m, j>>] = ff[m][j]
    BY <1>3
  <2> QED
    BY <2>1, <2>2
<1>8. Shifts(up, down, q)
  BY <1>4, <1>5, <1>6, <1>7 DEF Shifts
<1> QED
  BY <1>8

(* A RELEASE that fits memory brings one record. *)
LEMMA ReleasePool ==
  ASSUME IInv, Engine', NEW k \in Keys, Release(k), ~retrieving, ~Full, UNCHANGED <<setup, using>>
  PROVE  /\ NoTwice' /\ Counted' /\ UNCHANGED out
         /\ \E x : /\ x \notin Pool /\ Pool' = Pool \cup {x} /\ x.key \in Keys
                   /\ \A y \in Pool : y.unique < x.unique
<1>0. /\ Engine /\ Shapes /\ pc = "idle" /\ ~retrieving /\ ~OnFiles /\ ~OnFiles' /\ UNCHANGED <<out, file>>
      /\ Push(k, queue, empty) /\ unique' = unique + 1 /\ unique < Len(setup.choices)
      /\ setup \in Setups
  <2>1. Engine /\ Shapes /\ setup \in Setups
    BY DEF IInv, Engine, Shapes
  <2>2. /\ pc = "idle" /\ unique < Len(setup.choices) /\ Push(k, queue, empty)
        /\ UNCHANGED <<retrieving, out, file>>
    BY DEF Release
  <2> QED
    BY <2>1, <2>2 DEF OnFiles, Push
<1>1. /\ InQueues /\ unique \in Nat /\ unique <= Len(setup.choices) /\ QueuesIdle
      /\ queue \in [Four -> Seq(Item)]
      /\ out \in Seq([key : Keys, unique : 0..Len(setup.choices)])
      /\ \A i \in Four : \A j \in 1..Len(queue[i]) : IsRecord(queue[i][j])
  <2>1. InQueues
    BY <1>0 DEF InQueues
  <2> QED
    BY <1>0, <2>1, Program DEF Engine, Shapes, Queues, GoodItems
<1>2. Pushable(queue)
  BY <1>0, <1>1 DEF QueuesIdle, Pushable
<1>3. PICK z \in Four :
        /\ z = Shorter(queue) /\ Len(queue'[z]) = Len(queue[z]) + 1
        /\ queue'[z][1] = [key |-> k, unique |-> unique, eob |-> TRUE]
        /\ \A j \in 1..Len(queue[z]) : queue'[z][j + 1] = queue[z][j]
        /\ \A i \in Four \ {z} : queue'[i] = queue[i]
  <2>1. Shorter(queue) \in Four
    BY DEF Shorter, Four
  <2> QED
    BY <1>0, <1>1, <1>2, <2>1, Pushed
<1>4. PICK m \in Nat : m = Len(queue[z])
  BY <1>1, LenProperties
<1>s. PICK up, down : Shifts(up, down, z)
  BY Shift
<1>5. /\ \A j \in Nat : up[<<"queue", z, j>>] = <<"queue", z, j + 1>>
      /\ \A j \in Nat : down[<<"queue", z, j + 1>>] = <<"queue", z, j>>
      /\ \A i \in Four, j \in Nat : i # z => /\ up[<<"queue", i, j>>] = <<"queue", i, j>>
                                             /\ down[<<"queue", i, j>>] = <<"queue", i, j>>
      /\ \A i \in Four, j \in Nat : /\ up[<<"file", i, j>>] = <<"file", i, j>>
                                    /\ down[<<"file", i, j>>] = <<"file", i, j>>
  BY <1>s DEF Shifts
<1>6. \A i \in Four, j \in Nat :
        /\ InQueue(i, j) <=> j \in 1..Len(queue[i])
        /\ InQueue(i, j)' <=> j \in 1..Len(queue'[i])
        /\ InFile(i, j)' <=> InFile(i, j)
  BY <1>0 DEF InQueue, InFile
<1>n. PICK n : n = <<"queue", z, 1>>
  OBVIOUS
<1>7. /\ n \in Places' /\ n[1] = "queue" /\ n[2] = z /\ n[3] = 1
      /\ Held(n)' = [key |-> k, unique |-> unique]
  <2>1. InQueue(z, 1)'
    BY <1>3, <1>4, <1>6
  <2>2. n \in Places' /\ Held(n)' = Record(queue'[z][1])
    BY <1>n, <2>1, PlaceIsNext DEF Held
  <2>3. Record(queue'[z][1]) = [key |-> k, unique |-> unique]
    BY <1>3 DEF Record
  <2> QED
    BY <1>n, <2>2, <2>3
<1>8. ASSUME NEW p \in Places' \ {n}
      PROVE  down[p] \in Places /\ up[down[p]] = p /\ Held(p)' = Held(down[p])
  <2>1. PICK i \in Four, j \in Nat : p = <<"queue", i, j>> \/ p = <<"file", i, j>>
    BY PlaceCases, PlaceIsNext
  <2>2. CASE p = <<"file", i, j>>
    <3>1. InFile(i, j) /\ Held(p)' = Record(file'[i].data[j])
      BY <1>6, <2>2, PlaceIsNext DEF Held
    <3>2. p \in Places /\ Held(p) = Record(file[i].data[j])
      BY <2>2, <3>1, PlaceIs
    <3> QED
      BY <1>0, <1>5, <2>2, <3>1, <3>2
  <2>3. CASE p = <<"queue", i, j>>
    <3>1. j \in 1..Len(queue'[i]) /\ Held(p)' = Record(queue'[i][j])
      <4>1. InQueue(i, j)'
        BY <2>3, PlaceIsNext
      <4> QED
        BY <1>6, <2>3, <4>1 DEF Held
    <3>2. CASE i = z
      <4>1. j # 1
        BY <1>8, <1>n, <2>3, <3>2
      <4>2. PICK h \in Nat : h + 1 = j /\ h \in 1..m
        <5>1. j - 1 \in Nat /\ (j - 1) + 1 = j /\ j - 1 \in 1..m
          BY <1>3, <1>4, <3>1, <3>2, <4>1
        <5> QED
          BY <5>1
      <4>3. down[p] = <<"queue", z, h>> /\ up[<<"queue", z, h>>] = p
        BY <1>5, <2>3, <3>2, <4>2
      <4>4. down[p] \in Places /\ Held(down[p]) = Record(queue[z][h])
        <5>1. InQueue(z, h)
          BY <1>4, <1>6, <4>2
        <5> QED
          BY <4>3, <5>1, PlaceIs
      <4>5. queue'[i][j] = queue[z][h]
        BY <1>3, <1>4, <3>2, <4>2
      <4> QED
        BY <3>1, <4>3, <4>4, <4>5
    <3>3. CASE i # z
      <4>1. p \in Places /\ Held(p) = Record(queue[i][j])
        <5>1. InQueue(i, j)
          BY <1>3, <1>6, <3>1, <3>3
        <5> QED
          BY <2>3, <5>1, PlaceIs
      <4>2. down[p] = p /\ up[p] = p
        BY <1>5, <2>3, <3>3
      <4>3. queue'[i][j] = queue[i][j]
        BY <1>3, <3>3
      <4> QED
        BY <3>1, <4>1, <4>2, <4>3
    <3> QED
      BY <3>2, <3>3
  <2> QED
    BY <2>1, <2>2, <2>3
<1>9. ASSUME NEW p \in Places PROVE up[p] \in Places' \ {n} /\ down[up[p]] = p
  <2>1. PICK i \in Four, j \in Nat : p = <<"queue", i, j>> \/ p = <<"file", i, j>>
    BY PlaceCases, PlaceIs
  <2>2. CASE p = <<"file", i, j>>
    <3>1. InFile(i, j)'
      BY <1>6, <2>2, PlaceIs
    <3>2. p \in Places' /\ p[1] = "file"
      BY <2>2, <3>1, PlaceIsNext
    <3> QED
      BY <1>5, <1>7, <2>2, <3>2
  <2>3. CASE p = <<"queue", i, j>>
    <3>1. j \in 1..Len(queue[i])
      BY <1>6, <2>3, PlaceIs
    <3>2. CASE i = z
      <4>1. up[p] = <<"queue", z, j + 1>> /\ down[<<"queue", z, j + 1>>] = p
        BY <1>5, <2>3, <3>2
      <4>2. j + 1 \in Nat /\ j + 1 # 1 /\ j + 1 \in 1..m + 1
        BY <1>4, <3>1, <3>2
      <4>3. InQueue(z, j + 1)'
        BY <1>3, <1>4, <1>6, <4>2
      <4>4. <<"queue", z, j + 1>> \in Places'
        BY <4>2, <4>3, PlaceIsNext
      <4>5. <<"queue", z, j + 1>> # n
        BY <1>n, <4>2
      <4> QED
        BY <4>1, <4>4, <4>5
    <3>3. CASE i # z
      <4>1. InQueue(i, j)'
        BY <1>3, <1>6, <3>1, <3>3
      <4>2. p \in Places' /\ p[2] = i
        BY <2>3, <4>1, PlaceIsNext
      <4> QED
        BY <1>5, <1>7, <2>3, <3>3, <4>2
    <3> QED
      BY <3>2, <3>3
  <2> QED
    BY <2>1, <2>2, <2>3
<1>10. PoolPlaced /\ PoolPlaced' /\ NoTwice /\ Counted
  BY <1>0, PoolFacts
<1>11. \A p \in Places : Held(p).unique \in Nat /\ Held(p).unique < unique
  BY <1>0, <1>1, Stamps
<1>12. Held(n)'.unique = unique /\ Held(n)'.key \in Keys
  BY <1>7
<1>13. out' = out /\ unique' = unique + 1
  BY <1>0
<1>14. n \in Places'
  BY <1>7
<1>16. unique \in Nat /\ out \in Seq([key : Keys, unique : 0..Len(setup.choices)])
  BY <1>1
<1>17. Brings(down, up, n)
  BY <1>8, <1>9, <1>12, <1>14 DEF Brings
<1> HIDE DEF Pool, PoolPlaced, NoTwice, Counted
<1>15. NoTwice' /\ Counted' /\ Held(n)' \notin Pool /\ Pool' = Pool \cup {Held(n)'}
       /\ \A y \in Pool : y.unique < unique
  BY <1>10, <1>11, <1>13, <1>16, <1>17, Accepted
<1> QED
  BY <1>12, <1>13, <1>15

(* A sorted queue becomes a block of the current file: its records follow  *)
(* what the file holds.                                                    *)
Spills(phi, psi) ==
  /\ \A m \in Four, j \in Nat : InFile(m, j)' =>
       /\ phi[<<"file", m, j>>] \in Places /\ psi[phi[<<"file", m, j>>]] = <<"file", m, j>>
       /\ Held(<<"file", m, j>>)' = Held(phi[<<"file", m, j>>])
  /\ \A p \in Places : \E m \in Four, j \in Nat :
       psi[p] = <<"file", m, j>> /\ InFile(m, j)' /\ phi[<<"file", m, j>>] = p

(* There are such functions for a spill. *)
LEMMA SpilledPlaces ==
  ASSUME Engine, pc = "sorted", file' = Written(source)
  PROVE  \E phi, psi : Spills(phi, psi)
<1>0. /\ source \in Four /\ queue \in [Four -> Seq(Item)] /\ ~OnFiles
      /\ \A i \in Four \ {source} : queue[i] = <<>>
  BY OneQueue DEF OnFiles
<1>1. PICK s \in Four, d \in Four, n \in Nat, m \in Nat :
        /\ s = source /\ n = Len(file[d].data) /\ m = Len(queue[s])
        /\ \A i \in Four \ {d} : file'[i] = file[i]
        /\ file[d].at = 1 /\ file'[d].at = 1 /\ Len(file'[d].data) = n + m + 1
        /\ \A j \in 1..n : file'[d].data[j] = file[d].data[j]
        /\ \A j \in 1..m : /\ file'[d].data[n + j].key = queue[s][j].key
                           /\ file'[d].data[n + j].unique = queue[s][j].unique
                           /\ ~file'[d].data[n + j].eob
        /\ file'[d].data[n + m + 1] = Marker
  BY <1>0, Spilled
<1> DEFINE fq == [k \in Four |-> [j \in Nat |-> <<"file", d, n + j>>]]
           ff == [k \in Four |-> [j \in Nat |-> <<"file", k, j>>]]
           gf == [k \in Four |-> [j \in Nat |-> IF k = d /\ j > n THEN <<"queue", s, j - n>>
                                               ELSE <<"file", k, j>>]]
<1>2. PICK phi, psi : phi = Carry(fq, gf) /\ psi = Carry(fq, ff)
  OBVIOUS
<1>3. /\ \A k \in Four, j \in Nat : fq[k][j] = <<"file", d, n + j>>
      /\ \A k \in Four, j \in Nat : ff[k][j] = <<"file", k, j>>
      /\ \A k \in Four, j \in Nat : gf[k][j] = IF k = d /\ j > n THEN <<"queue", s, j - n>>
                                               ELSE <<"file", k, j>>
  OBVIOUS
<1> HIDE DEF fq, gf, ff
<1>4. ASSUME NEW k \in Four, NEW j \in Nat
      PROVE  /\ psi[<<"queue", k, j>>] = fq[k][j] /\ psi[<<"file", k, j>>] = ff[k][j]
             /\ phi[<<"file", k, j>>] = gf[k][j]
  BY <1>2, CarryIs
<1>5. ASSUME NEW k \in Four, NEW j \in Nat, ~(k = d /\ j > n)
      PROVE  phi[<<"file", k, j>>] = <<"file", k, j>>
  <2>1. gf[k][j] = <<"file", k, j>>
    BY <1>3, <1>5
  <2> QED
    BY <1>4, <2>1
<1>6. ASSUME NEW h \in Nat \ {0}
      PROVE  phi[<<"file", d, n + h>>] = <<"queue", s, h>>
  <2>1. n + h \in Nat /\ n + h > n /\ (n + h) - n = h
    OBVIOUS
  <2>2. gf[d][n + h] = <<"queue", s, (n + h) - n>>
    BY <1>3, <2>1
  <2>3. phi[<<"file", d, n + h>>] = gf[d][n + h]
    BY <1>4, <2>1
  <2> QED
    BY <2>1, <2>2, <2>3
<1>7. ASSUME NEW k \in Four, NEW j \in Nat
      PROVE  /\ psi[<<"queue", k, j>>] = <<"file", d, n + j>>
             /\ psi[<<"file", k, j>>] = <<"file", k, j>>
  <2>1. fq[k][j] = <<"file", d, n + j>> /\ ff[k][j] = <<"file", k, j>>
    BY <1>3
  <2> QED
    BY <1>4, <2>1
<1>8. \A i \in Four, j \in Nat :
        /\ InQueue(i, j) <=> j \in 1..Len(queue[i])
        /\ InFile(i, j) <=> j \in file[i].at..Len(file[i].data) /\ ~file[i].data[j].eob
        /\ InFile(i, j)' <=> j \in file'[i].at..Len(file'[i].data) /\ ~file'[i].data[j].eob
  BY <1>0 DEF InQueue, InFile
<1>9. ASSUME NEW k \in Four, NEW j \in Nat, InFile(k, j)'
      PROVE  /\ phi[<<"file", k, j>>] \in Places /\ psi[phi[<<"file", k, j>>]] = <<"file", k, j>>
             /\ Held(<<"file", k, j>>)' = Held(phi[<<"file", k, j>>])
  <2>1. Held(<<"file", k, j>>)' = Record(file'[k].data[j])
    BY PlaceIsNext
  <2>2. CASE k = d /\ j > n
    <3>1. j \in 1..n + m + 1 /\ ~file'[d].data[j].eob
      BY <1>1, <1>8, <1>9, <2>2
    <3>2. j # n + m + 1
      <4>1. ASSUME j = n + m + 1 PROVE FALSE
        <5>1. file'[d].data[j] = Marker /\ Marker.eob
          BY <1>1, <4>1 DEF Marker
        <5> QED
          BY <3>1, <5>1
      <4> QED
        BY <4>1
    <3>3. PICK h \in Nat \ {0} : j = n + h /\ h \in 1..m
      <4>1. j - n \in Nat \ {0} /\ j = n + (j - n) /\ j - n \in 1..m
        BY <2>2, <3>1, <3>2
      <4> QED
        BY <4>1
    <3>4. phi[<<"file", k, j>>] = <<"queue", s, h>> /\ psi[<<"queue", s, h>>] = <<"file", k, j>>
      BY <1>6, <1>7, <2>2, <3>3
    <3>5. <<"queue", s, h>> \in Places /\ Held(<<"queue", s, h>>) = Record(queue[s][h])
      <4>1. InQueue(s, h)
        BY <1>1, <1>8, <3>3
      <4> QED
        BY <4>1, PlaceIs
    <3>6. Record(file'[k].data[j]) = Record(queue[s][h])
      BY <1>1, <2>2, <3>3 DEF Record
    <3> QED
      BY <2>1, <3>4, <3>5, <3>6
  <2>3. CASE ~(k = d /\ j > n)
    <3>1. phi[<<"file", k, j>>] = <<"file", k, j>> /\ psi[<<"file", k, j>>] = <<"file", k, j>>
      BY <1>5, <1>7, <2>3
    <3>2. InFile(k, j) /\ file'[k].data[j] = file[k].data[j]
      <4>1. CASE k = d
        <5>1. j \in 1..n /\ ~file'[d].data[j].eob
          BY <1>1, <1>8, <1>9, <2>3, <4>1
        <5> QED
          BY <1>1, <1>8, <4>1, <5>1
      <4>2. CASE k # d
        BY <1>1, <1>8, <1>9, <4>2
      <4> QED
        BY <4>1, <4>2
    <3>3. <<"file", k, j>> \in Places /\ Held(<<"file", k, j>>) = Record(file[k].data[j])
      BY <3>2, PlaceIs
    <3> QED
      BY <2>1, <3>1, <3>2, <3>3
  <2> QED
    BY <2>2, <2>3
<1>10. ASSUME NEW p \in Places
       PROVE  \E k \in Four, j \in Nat :
                psi[p] = <<"file", k, j>> /\ InFile(k, j)' /\ phi[<<"file", k, j>>] = p
  <2>1. PICK k \in Four, j \in Nat : p = <<"queue", k, j>> \/ p = <<"file", k, j>>
    BY PlaceCases, PlaceIs
  <2>2. CASE p = <<"file", k, j>>
    <3>1. InFile(k, j)
      BY <2>2, PlaceIs
    <3>2. ~(k = d /\ j > n) /\ InFile(k, j)'
      <4>1. CASE k = d
        <5>1. j \in 1..n /\ ~file[d].data[j].eob
          BY <1>1, <1>8, <3>1, <4>1
        <5>2. file'[d].data[j] = file[d].data[j]
          BY <1>1, <5>1
        <5>3. j \in 1..n + m + 1 /\ ~(j > n)
          BY <5>1
        <5>4. j \in file'[d].at..Len(file'[d].data)
          BY <1>1, <5>3
        <5>5. InFile(k, j)'
          BY <1>8, <4>1, <5>1, <5>2, <5>4
        <5> QED
          BY <5>3, <5>5
      <4>2. CASE k # d
        <5>1. file'[k] = file[k]
          BY <1>1, <4>2
        <5> QED
          BY <1>8, <3>1, <4>2, <5>1
      <4> QED
        BY <4>1, <4>2
    <3>3. psi[p] = <<"file", k, j>> /\ phi[<<"file", k, j>>] = p
      BY <1>5, <1>7, <2>2, <3>2
    <3> QED
      BY <3>2, <3>3
  <2>3. CASE p = <<"queue", k, j>>
    <3>1. j \in 1..Len(queue[k])
      BY <1>8, <2>3, PlaceIs
    <3>2. k = s
      <4>1. ASSUME k # s PROVE FALSE
        <5>1. Len(queue[k]) = 0
          BY <1>0, <1>1, <4>1
        <5> QED
          BY <3>1, <5>1
      <4> QED
        BY <4>1
    <3>3. j \in 1..m /\ j \in Nat \ {0}
      BY <1>1, <3>1, <3>2
    <3>4. psi[p] = <<"file", d, n + j>> /\ phi[<<"file", d, n + j>>] = p
      BY <1>6, <1>7, <2>3, <3>2, <3>3
    <3>5. n + j \in Nat /\ n + j \in 1..n + m + 1
      BY <3>3
    <3>6. ~file'[d].data[n + j].eob
      BY <1>1, <3>3
    <3>7. n + j \in file'[d].at..Len(file'[d].data)
      BY <1>1, <3>5
    <3>8. InFile(d, n + j)'
      BY <1>8, <3>5, <3>6, <3>7
    <3> QED
      BY <3>4, <3>5, <3>8
  <2> QED
    BY <2>1, <2>2, <2>3
<1>11. Spills(phi, psi)
  BY <1>9, <1>10 DEF Spills
<1> QED
  BY <1>11

(* The last block joins the others: from now on the records lie on files.  *)
LEMMA SortedOnFilesPool ==
  ASSUME IInv, Engine', SortedOnFiles, Freed(source) >= 4, UNCHANGED <<setup, using>>
  PROVE  NoTwice' /\ Counted' /\ Pool' = Pool /\ UNCHANGED out
<1>1. /\ Engine /\ pc = "sorted" /\ pc' = "filepass" /\ file' = Written(source)
      /\ queue' = [i \in Four |-> <<Marker>>] /\ UNCHANGED <<out, unique>>
  BY DEF IInv, SortedOnFiles, engine, reply
<1>2. PICK phi, psi : Spills(phi, psi)
  BY <1>1, SpilledPlaces
<1>3. \A m \in Four, j \in Nat : ~InQueue(m, j)'
  <2>1. Merging'
    BY <1>1 DEF Merging
  <2>2. \A m \in Four : queue'[m][1].eob
    BY <1>1 DEF Marker
  <2> QED
    BY <2>1, <2>2, HeadPlacesNext
<1>4. ASSUME NEW p \in Places'
      PROVE  phi[p] \in Places /\ psi[phi[p]] = p /\ Held(p)' = Held(phi[p])
  <2>1. PICK m \in Four, j \in Nat : p = <<"queue", m, j>> \/ p = <<"file", m, j>>
    BY PlaceCases, PlaceIsNext
  <2>2. p = <<"file", m, j>> /\ InFile(m, j)'
    BY <1>3, <2>1, PlaceIsNext
  <2>3. Held(p)' = Held(<<"file", m, j>>)'
    BY <2>2 DEF Held
  <2> QED
    BY <1>2, <2>2, <2>3 DEF Spills
<1>5. ASSUME NEW p \in Places PROVE psi[p] \in Places' /\ phi[psi[p]] = p
  <2>1. PICK m \in Four, j \in Nat :
          psi[p] = <<"file", m, j>> /\ InFile(m, j)' /\ phi[<<"file", m, j>>] = p
    BY <1>2 DEF Spills
  <2>2. <<"file", m, j>> \in Places'
    BY <2>1, PlaceIsNext
  <2> QED
    BY <2>1, <2>2
<1>6. PoolPlaced /\ PoolPlaced' /\ NoTwice /\ Counted
  BY <1>1, PoolFacts
<1>7. UNCHANGED <<out, unique>>
  BY <1>1
<1> HIDE DEF Pool, PoolPlaced, NoTwice, Counted
<1>8. NoTwice' /\ Counted' /\ Pool' = Pool
  BY <1>4, <1>5, <1>6, <1>7, Rearranged
<1> QED
  BY <1>7, <1>8

(* A RELEASE that finds memory full writes the sorted queue and then brings *)
(* its record.                                                              *)
LEMMA SubmitSortedPool ==
  ASSUME IInv, Engine', SubmitSorted, UNCHANGED <<setup, using>>
  PROVE  /\ NoTwice' /\ Counted' /\ UNCHANGED out /\ ~retrieving
         /\ \E x : /\ x \notin Pool /\ Pool' = Pool \cup {x} /\ x.key \in Keys
                   /\ \A y \in Pool : y.unique < x.unique
<1> DEFINE q == [queue EXCEPT ![source] = <<>>]
<1>0. /\ Engine /\ Shapes /\ Stages /\ pc = "sorted" /\ cont = "submit" /\ pc' = "idle"
      /\ file' = Written(source) /\ Push(pending, q, Freed(source)) /\ UNCHANGED <<out, retrieving>>
  BY DEF IInv, Engine, SubmitSorted
<1>1. /\ setup \in Setups /\ unique \in Nat /\ unique <= Len(setup.choices) /\ unique' = unique + 1
      /\ ~retrieving /\ ~OnFiles /\ ~OnFiles' /\ pending \in Keys /\ InQueues
      /\ out \in Seq([key : Keys, unique : 0..Len(setup.choices)])
  BY <1>0, Program DEF Shapes, Stages, Loop, InQueues, OnFiles, Push
<1>2. /\ q = [i \in Four |-> <<>>] /\ 0 \in Four /\ 1 \in Four /\ 2 \in Four /\ 3 \in Four
  <2>1. /\ source \in Four /\ queue \in [Four -> Seq(Item)]
        /\ \A i \in Four \ {source} : queue[i] = <<>>
    BY <1>0, OneQueue
  <2>2. q = [i \in Four |-> <<>>]
    BY <2>1
  <2>3. 0 \in Four /\ 1 \in Four /\ 2 \in Four /\ 3 \in Four
    BY DEF Four
  <2> HIDE DEF q
  <2> QED
    BY <2>2, <2>3
<1>3. PICK p0 : p0 = q
  OBVIOUS
<1> HIDE DEF q
<1>4. /\ p0 \in [Four -> Seq(Item)] /\ \A i \in Four : p0[i] = <<>> /\ Len(p0[i]) = 0
  BY <1>2, <1>3
<1>5. Pushable(p0)
  <2>1. p0[2] = <<>> /\ p0[3] = <<>> /\ Len(p0[0]) = 0 /\ Len(p0[1]) = 0
    BY <1>2, <1>4
  <2>2. \A i \in 0..1 : \A j \in 1..Len(p0[i]) : p0[i][j].eob
    BY <2>1
  <2> QED
    BY <1>4, <2>1, <2>2 DEF Pushable, Balanced
<1>6. PICK z \in Four : /\ Len(queue'[z]) = 1
                        /\ queue'[z][1] = [key |-> pending, unique |-> unique, eob |-> TRUE]
                        /\ \A i \in Four \ {z} : queue'[i] = <<>>
  <2>1. Shorter(p0) \in Four
    BY DEF Shorter, Four
  <2>2. Push(pending, p0, Freed(source))
    BY <1>0, <1>3
  <2>3. \A i \in Four : \A j \in 1..Len(p0[i]) : IsRecord(p0[i][j])
    BY <1>4
  <2>4. /\ Len(queue'[Shorter(p0)]) = Len(p0[Shorter(p0)]) + 1
        /\ queue'[Shorter(p0)][1] = [key |-> pending, unique |-> unique, eob |-> TRUE]
        /\ \A i \in Four \ {Shorter(p0)} : queue'[i] = p0[i]
    BY <1>1, <1>5, <2>2, <2>3, Pushed
  <2>5. PICK z \in Four : z = Shorter(p0)
    BY <2>1
  <2>6. Len(p0[z]) = 0 /\ \A i \in Four \ {z} : p0[i] = <<>>
    BY <1>4
  <2>7. Len(queue'[z]) = 1 /\ \A i \in Four \ {z} : queue'[i] = <<>>
    BY <2>4, <2>5, <2>6
  <2> QED
    BY <2>4, <2>5, <2>7
<1>7. PICK n : n = <<"queue", z, 1>>
  OBVIOUS
<1>8. PICK phi, psi : Spills(phi, psi)
  BY <1>0, SpilledPlaces
<1>9. \A i \in Four, j \in Nat : InQueue(i, j)' <=> i = z /\ j = 1
  <2>1. \A i \in Four, j \in Nat : InQueue(i, j)' <=> j \in 1..Len(queue'[i])
    BY <1>1 DEF InQueue
  <2>2. \A i \in Four \ {z} : Len(queue'[i]) = 0
    BY <1>6
  <2>3. \A j \in Nat : (j \in 1..1 <=> j = 1) /\ j \notin 1..0
    OBVIOUS
  <2>4. Len(queue'[z]) = 1
    BY <1>6
  <2> QED
    BY <2>1, <2>2, <2>3, <2>4
<1>10. /\ n \in Places' /\ n[1] = "queue" /\ Held(n)' = [key |-> pending, unique |-> unique]
  <2>1. InQueue(z, 1)'
    BY <1>9
  <2>2. n \in Places' /\ Held(n)' = Record(queue'[z][1])
    BY <1>7, <2>1, PlaceIsNext DEF Held
  <2>3. Record(queue'[z][1]) = [key |-> pending, unique |-> unique]
    BY <1>6 DEF Record
  <2> QED
    BY <1>7, <2>2, <2>3
<1>11. ASSUME NEW p \in Places' \ {n}
       PROVE  phi[p] \in Places /\ psi[phi[p]] = p /\ Held(p)' = Held(phi[p])
  <2>1. PICK m \in Four, j \in Nat : p = <<"queue", m, j>> \/ p = <<"file", m, j>>
    BY PlaceCases, PlaceIsNext
  <2>2. p # <<"queue", m, j>>
    <3>1. ASSUME p = <<"queue", m, j>> PROVE FALSE
      <4>1. InQueue(m, j)'
        BY <3>1, PlaceIsNext
      <4> QED
        BY <1>7, <1>9, <1>11, <3>1, <4>1
    <3> QED
      BY <3>1
  <2>3. p = <<"file", m, j>> /\ InFile(m, j)'
    BY <2>1, <2>2, PlaceIsNext
  <2>4. Held(p)' = Held(<<"file", m, j>>)'
    BY <2>3 DEF Held
  <2> QED
    BY <1>8, <2>3, <2>4 DEF Spills
<1>12. ASSUME NEW p \in Places PROVE psi[p] \in Places' \ {n} /\ phi[psi[p]] = p
  <2>1. PICK m \in Four, j \in Nat :
          psi[p] = <<"file", m, j>> /\ InFile(m, j)' /\ phi[<<"file", m, j>>] = p
    BY <1>8 DEF Spills
  <2>2. <<"file", m, j>> \in Places'
    BY <2>1, PlaceIsNext
  <2>3. psi[p] # n
    <3>1. psi[p][1] = "file"
      BY <2>1
    <3> QED
      BY <1>10, <3>1
  <2> QED
    BY <2>1, <2>2, <2>3
<1>13. PoolPlaced /\ PoolPlaced' /\ NoTwice /\ Counted
  BY <1>0, PoolFacts
<1>14. \A p \in Places : Held(p).unique \in Nat /\ Held(p).unique < unique
  BY <1>0, <1>1, Stamps
<1>15. Held(n)'.unique = unique /\ Held(n)'.key \in Keys
  BY <1>1, <1>10
<1>16. Brings(phi, psi, n)
  BY <1>10, <1>11, <1>12, <1>15 DEF Brings
<1>17. /\ out' = out /\ unique' = unique + 1 /\ unique \in Nat
       /\ out \in Seq([key : Keys, unique : 0..Len(setup.choices)])
  BY <1>0, <1>1
<1> HIDE DEF Pool, PoolPlaced, NoTwice, Counted
<1>18. NoTwice' /\ Counted' /\ Held(n)' \notin Pool /\ Pool' = Pool \cup {Held(n)'}
       /\ \A y \in Pool : y.unique < unique
  BY <1>13, <1>14, <1>16, <1>17, Accepted
<1> QED
  BY <1>1, <1>15, <1>17, <1>18

(* A record that comes before the others. *)
Least(x, S) == x \in S /\ \A y \in S \ {x} : Less(x, y)

(* RETURN takes the first of the sorted queue. *)
LEMMA RetrieveFromQueuePool ==
  ASSUME IInv, Engine', RetrieveFromQueue, queue[retrieval_queue] # <<>>, UNCHANGED <<setup, using>>
  PROVE  /\ NoTwice' /\ Counted' /\ retrieving
         /\ \E x : Least(x, Pool) /\ out' = Append(out, x) /\ Pool' = Pool \ {x}
<1>0. /\ Engine /\ Shapes /\ setup \in Setups /\ pc' = "idle" /\ UNCHANGED <<retrieving, files_used, unique, file>>
      /\ out \in Seq([key : Keys, unique : 0..Len(setup.choices)])
  BY DEF IInv, Engine, Shapes, RetrieveFromQueue, engine
<1>r. PICK r \in Four : r = retrieval_queue
  BY <1>0, TakenFromQueue
<1>s. PICK s : s = queue[r]
  OBVIOUS
<1>m. PICK m \in Nat \ {0} : m = Len(s)
  BY <1>0, <1>r, <1>s, TakenFromQueue
<1>1. /\ r = retrieval_queue /\ s = queue[r] /\ m = Len(s)
      /\ pc = "retrieve" /\ retrieving /\ ~files_used /\ InQueues /\ ~OnFiles
      /\ queue \in [Four -> Seq(Item)] /\ s \in Seq(Item) /\ Single(s)
      /\ \A j \in 1..m : IsRecord(s[j])
      /\ \A i \in Four \ {r} : queue[i] = <<>> /\ queue'[i] = <<>>
      /\ \A i \in Four : file[i].data = <<>>
      /\ queue'[r] = Tail(s) /\ Len(Tail(s)) = m - 1 /\ \A j \in 1..m - 1 : Tail(s)[j] = s[j + 1]
      /\ out' = Append(out, [key |-> s[1].key, unique |-> s[1].unique])
  BY <1>0, <1>r, <1>s, <1>m, TakenFromQueue DEF Deliver
<1>2. ~OnFiles'
  BY <1>0, <1>1 DEF OnFiles
<1>3. \A i \in Four, j \in Nat :
        /\ InQueue(i, j) <=> i = r /\ j \in 1..m
        /\ InQueue(i, j)' <=> i = r /\ j \in 1..m - 1
        /\ ~InFile(i, j) /\ ~InFile(i, j)'
  <2>1. \A i \in Four, j \in Nat : /\ InQueue(i, j) <=> j \in 1..Len(queue[i])
                                   /\ InQueue(i, j)' <=> j \in 1..Len(queue'[i])
    BY <1>1, <1>2 DEF InQueue
  <2>2. \A i \in Four \ {r} : Len(queue[i]) = 0 /\ Len(queue'[i]) = 0
    BY <1>1
  <2>3. Len(queue[r]) = m /\ Len(queue'[r]) = m - 1
    BY <1>1
  <2>4. \A j \in Nat : j \notin 1..0
    OBVIOUS
  <2>5. \A i \in Four, j \in Nat : ~InFile(i, j) /\ ~InFile(i, j)'
    <3>1. \A i \in Four : file[i].at \in Nat \ {0} /\ Len(file[i].data) = 0
      BY <1>0, <1>1 DEF Shapes, File
    <3>2. \A a \in Nat \ {0} : a..0 = {}
      OBVIOUS
    <3>3. \A i \in Four : file[i].at..Len(file[i].data) = {}
      BY <3>1, <3>2
    <3> QED
      BY <1>0, <3>3 DEF InFile
  <2> QED
    BY <2>1, <2>2, <2>3, <2>4, <2>5
<1>4. PICK up, down : Shifts(up, down, r)
  BY Shift
<1>5. /\ \A j \in Nat : up[<<"queue", r, j>>] = <<"queue", r, j + 1>>
      /\ \A j \in Nat : down[<<"queue", r, j + 1>>] = <<"queue", r, j>>
  BY <1>4 DEF Shifts
<1>6. PICK n : n = <<"queue", r, 1>>
  OBVIOUS
<1>7. n \in Places /\ Held(n) = Record(s[1])
  <2>1. InQueue(r, 1)
    BY <1>3
  <2> QED
    BY <1>1, <1>6, <2>1, PlaceIs
<1>8. ASSUME NEW p \in Places'
      PROVE  up[p] \in Places \ {n} /\ down[up[p]] = p /\ Held(p)' = Held(up[p])
  <2>1. PICK i \in Four, j \in Nat : p = <<"queue", i, j>> \/ p = <<"file", i, j>>
    BY PlaceCases, PlaceIsNext
  <2>2. p = <<"queue", r, j>> /\ j \in 1..m - 1
    BY <1>3, <2>1, PlaceIsNext
  <2>3. up[p] = <<"queue", r, j + 1>> /\ down[up[p]] = p
    BY <1>5, <2>2
  <2>4. j + 1 \in Nat /\ j + 1 \in 1..m /\ j + 1 # 1
    BY <2>2
  <2>5. /\ <<"queue", r, j + 1>> \in Places
        /\ Held(<<"queue", r, j + 1>>) = Record(queue[r][j + 1])
    <3>1. InQueue(r, j + 1)
      BY <1>3, <2>4
    <3> QED
      BY <2>4, <3>1, PlaceIs
  <2>6. <<"queue", r, j + 1>> # n
    BY <1>6, <2>4
  <2>7. Held(p)' = Record(queue'[r][j])
    BY <2>2 DEF Held
  <2>8. queue'[r][j] = queue[r][j + 1]
    BY <1>1, <2>2
  <2> QED
    BY <2>3, <2>5, <2>6, <2>7, <2>8
<1>9. ASSUME NEW p \in Places \ {n} PROVE down[p] \in Places' /\ up[down[p]] = p
  <2>1. PICK i \in Four, j \in Nat : p = <<"queue", i, j>> \/ p = <<"file", i, j>>
    BY PlaceCases, PlaceIs
  <2>2. p = <<"queue", r, j>> /\ j \in 1..m
    BY <1>3, <2>1, PlaceIs
  <2>3. j # 1
    BY <1>6, <1>9, <2>2
  <2>4. PICK h \in Nat : h + 1 = j /\ h \in 1..m - 1
    <3>1. j - 1 \in Nat /\ (j - 1) + 1 = j /\ j - 1 \in 1..m - 1
      BY <2>2, <2>3
    <3> QED
      BY <3>1
  <2>5. down[p] = <<"queue", r, h>> /\ up[<<"queue", r, h>>] = p
    BY <1>5, <2>2, <2>4
  <2>6. <<"queue", r, h>> \in Places'
    <3>1. InQueue(r, h)'
      BY <1>3, <2>4
    <3> QED
      BY <3>1, PlaceIsNext
  <2> QED
    BY <2>5, <2>6
<1>10. out' = Append(out, Held(n))
  BY <1>1, <1>7 DEF Record
<1>11. Takes(up, down, n)
  BY <1>7, <1>8, <1>9, <1>10 DEF Takes
<1>12. PoolPlaced /\ PoolPlaced' /\ NoTwice /\ Counted /\ unique' = unique
  BY <1>0, <1>1, PoolFacts
<1>13. \A j \in 2..m : Less(s[1], s[j])
  <2>1. \A j \in 1..m : s[j].key \in Nat /\ s[j].unique \in Nat
    BY <1>0, <1>1, Items
  <2>2. \A j \in 1..m - 1 : Less(s[j], s[j + 1])
    BY <1>1 DEF Single
  <2>3. \A j \in 1 + 1..m : Less(s[1], s[j])
    BY <2>1, <2>2, FirstIsLeast
  <2> QED
    BY <2>3
<1>14. ASSUME NEW y \in Pool \ {Held(n)} PROVE Less(Held(n), y)
  <2>1. PICK p \in Places : y = Held(p)
    BY <1>12 DEF PoolPlaced
  <2>2. PICK i \in Four, j \in Nat : p = <<"queue", i, j>> \/ p = <<"file", i, j>>
    BY PlaceCases, PlaceIs
  <2>3. p = <<"queue", r, j>> /\ j \in 1..m
    BY <1>3, <2>2, PlaceIs
  <2>4. j \in 2..m
    <3>1. j # 1
      BY <1>6, <1>14, <2>1, <2>3
    <3> QED
      BY <2>3, <3>1
  <2>5. y = Record(s[j])
    BY <1>1, <2>1, <2>3, PlaceIs
  <2> QED
    BY <1>7, <1>13, <2>4, <2>5 DEF Less, Record
<1> HIDE DEF Pool, PoolPlaced, NoTwice, Counted
<1>15. NoTwice' /\ Counted' /\ Held(n) \in Pool /\ Pool' = Pool \ {Held(n)}
  BY <1>0, <1>11, <1>12, Delivered
<1>16. Least(Held(n), Pool)
  BY <1>14, <1>15 DEF Least
<1> QED
  BY <1>1, <1>10, <1>15, <1>16

(* A file that has one block left holds, before its end, a rising list of  *)
(* records.                                                                *)
LEMMA LastBlock ==
  ASSUME Engine, Reading, NEW k \in Four, NEW j \in Nat, InFile(k, j)
  PROVE  ~First(k).eob /\ Less(First(k), file[k].data[j]) /\ k \in {source, source + 1}
<1>0. /\ FilesOut /\ setup \in Setups /\ Four = {source, source + 1, Target, Target + 1}
      /\ source \in {0, 2} /\ Left(k) \in Nat
      /\ file[k].data \in Seq(Item) /\ file[k].at \in Nat \ {0} /\ Len(file[k].data) \in Nat
      /\ RisingFrom(file[k].data, file[k].at) /\ First(k) \in Item
  BY MergeFacts, Lists DEF Engine, Files
<1> PICK s : s = file[k].data
  OBVIOUS
<1> PICK e \in Nat \ {0} : e = file[k].at
  BY <1>0
<1> PICK l \in Nat : l = Len(s)
  BY <1>0
<1>1. s = file[k].data /\ e = file[k].at /\ l = Len(s) /\ s \in Seq(Item)
  BY <1>0
<1>2. j \in e..l /\ ~s[j].eob /\ e \in 1..l
  BY <1>1 DEF InFile
<1>3. k \in {source, source + 1}
  <2>1. ASSUME k \in {Target, Target + 1} PROVE FALSE
    <3>1. s = <<>>
      BY <1>0, <1>1, <2>1 DEF FilesOut
    <3>2. l = 0
      BY <1>1, <3>1
    <3> QED
      BY <1>2, <3>2
  <2> QED
    BY <1>0, <2>1
<1>4. /\ Left(k) = IF First(k).eob THEN 0 ELSE 1
      /\ Closed(s) /\ FirstRises(k)
  <2>1. PICK m \in 0..1 : k = source + m
    <3>1. source + 0 = source
      BY <1>0
    <3> QED
      BY <1>3, <3>1
  <2> QED
    BY <1>0, <1>1, <2>1 DEF FilesOut
<1>5. Left(k) = 1 /\ s[l].eob /\ \A i \in e..l - 1 : ~s[i].eob
  <2>1. Blocks(s, e) = Left(k)
    BY <1>1 DEF Left
  <2>2. /\ Blocks(s, e) >= 1
        /\ Blocks(s, e) = 1 => s[l].eob /\ \A i \in e..l - 1 : ~s[i].eob
    BY <1>1, <1>2, <1>4, ClosedBlocks
  <2>3. Left(k) = 1
    BY <1>0, <1>4, <2>1, <2>2
  <2> QED
    BY <2>1, <2>2, <2>3
<1>6. ~First(k).eob
  BY <1>4, <1>5
<1>7. j \in e..l - 1
  <2>1. j # l
    BY <1>2, <1>5
  <2> QED
    BY <1>2, <2>1
<1>8. Less(First(k), s[e])
  <2>1. ~s[e].eob /\ e <= l
    BY <1>2, <1>5, <1>7
  <2> QED
    BY <1>1, <1>4, <1>6, <2>1 DEF FirstRises
<1>9. \A i \in e..l : s[i] \in Item /\ s[i].key \in Nat /\ s[i].unique \in Nat
  BY <1>0, <1>1, Items
<1>10. \A i \in e + 1..l - 1 : Less(s[e], s[i])
  <2>1. \A i \in e..l - 1 : s[i].key \in Nat /\ s[i].unique \in Nat
    BY <1>9
  <2>2. \A i \in e..(l - 1) - 1 : Less(s[i], s[i + 1])
    <3> SUFFICES ASSUME NEW i \in e..(l - 1) - 1 PROVE Less(s[i], s[i + 1])
      OBVIOUS
    <3>1. i \in e..l - 1 /\ i + 1 \in e..l - 1
      BY <1>1
    <3>2. ~s[i].eob /\ ~s[i + 1].eob
      BY <1>5, <3>1
    <3> QED
      BY <1>0, <1>1, <3>1, <3>2 DEF RisingFrom
  <2>3. l - 1 \in Nat
    BY <1>2
  <2> QED
    BY <2>1, <2>2, <2>3, FirstIsLeast
<1>11. CASE j = e
  BY <1>1, <1>3, <1>6, <1>8, <1>11
<1>12. CASE j # e
  <2>1. Less(s[e], s[j])
    BY <1>7, <1>10, <1>12
  <2>2. First(k).key \in Nat /\ First(k).unique \in Nat
    BY <1>0, Items
  <2>3. e \in e..l /\ j \in e..l
    BY <1>2
  <2>4. Less(First(k), s[j])
    BY <1>8, <1>9, <2>1, <2>2, <2>3, LessTransitive
  <2> QED
    BY <1>1, <1>3, <1>6, <2>4
<1> QED
  BY <1>11, <1>12

(* RETURN takes the first of the two heads; the next of its file takes its *)
(* place.                                                                  *)
LEMMA RetrieveFromFilesPool ==
  ASSUME IInv, Engine', RetrieveFromFiles, ~(Head1(0).eob /\ Head1(1).eob), UNCHANGED <<setup, using>>
  PROVE  /\ NoTwice' /\ Counted' /\ retrieving
         /\ \E x : Least(x, Pool) /\ out' = Append(out, x) /\ Pool' = Pool \ {x}
<1>0. /\ Engine /\ Reading /\ pc = "retrieve" /\ retrieving /\ files_used
      /\ UNCHANGED <<retrieving, files_used, unique>>
      /\ out \in Seq([key : Keys, unique : 0..Len(setup.choices)])
      /\ queue \in [Four -> Seq(Item)] /\ setup \in Setups /\ FilesOut
      /\ source \in {0, 2} /\ Four = {source, source + 1, Target, Target + 1}
  <2>1. Engine /\ Stages /\ pc = "retrieve" /\ files_used
    BY DEF IInv, Engine, RetrieveFromFiles
  <2>2. Reading /\ retrieving
    BY <2>1 DEF Stages, Reading
  <2>3. UNCHANGED <<retrieving, files_used, unique>>
    BY DEF RetrieveFromFiles, engine
  <2> QED
    BY <2>1, <2>2, <2>3, MergeFacts, Lists DEF Engine, Files
<1>i. PICK i \in Four : i = source + HeadChosen
  BY TakenFromFiles
<1>x. PICK x : x = ReadItem(file, i)
  OBVIOUS
<1>1. /\ i = source + HeadChosen /\ ~First(i).eob /\ pc' = "idle" /\ HasRead(file, file', x, i)
      /\ queue' = [queue EXCEPT ![i] = <<x>>] /\ Deliver(First(i))
      /\ \A k \in Four \ {i} : file'[k] = file[k]
  BY <1>i, <1>x, TakenFromFiles
<1>2. Reading'
  BY <1>0, <1>1 DEF Reading
<1>3. /\ \A m \in Four, j \in Nat : InQueue(m, j) <=> j = 1 /\ ~queue[m][1].eob
      /\ \A m \in Four, j \in Nat : InQueue(m, j)' <=> j = 1 /\ ~queue'[m][1].eob
  BY <1>0, <1>2, HeadPlaces, HeadPlacesNext
<1>e. PICK e \in Nat : e = file[i].at
  BY <1>1 DEF HasRead
<1>h. PICK h : h = First(i)
  OBVIOUS
<1>4. e = file[i].at /\ h = First(i)
  BY <1>e, <1>h
<1>5. /\ file'[i].data = file[i].data /\ file'[i].at = e + 1 /\ e \in 1..Len(file[i].data)
      /\ Len(file[i].data) \in Nat /\ x = file[i].data[e] /\ queue'[i][1] = x
      /\ queue[i][1] = h /\ ~h.eob /\ \A m \in Four \ {i} : queue'[m] = queue[m]
  <2>1. queue'[i][1] = x /\ queue[i][1] = h /\ ~h.eob /\ \A m \in Four \ {i} : queue'[m] = queue[m]
    BY <1>0, <1>1, <1>4 DEF First
  <2>2. /\ file'[i].data = file[i].data /\ file'[i].at = e + 1 /\ e \in 1..Len(file[i].data)
        /\ Len(file[i].data) \in Nat /\ x = file[i].data[e]
    BY <1>1, <1>4 DEF HasRead
  <2> QED
    BY <2>1, <2>2
<1>6. \A m \in Four, j \in Nat :
        /\ InFile(m, j) <=> j \in file[m].at..Len(file[m].data) /\ ~file[m].data[j].eob
        /\ InFile(m, j)' <=> j \in file'[m].at..Len(file'[m].data) /\ ~file'[m].data[j].eob
  BY DEF InFile
<1> DEFINE n == <<"queue", i, 1>>
           c == <<"file", i, e>>
           phi == [p \in All |-> IF p = n THEN c ELSE p]
           psi == [p \in All |-> IF p = c THEN n ELSE p]
<1>7. /\ n \in All /\ n[1] = "queue" /\ n[2] = i /\ n[3] = 1
      /\ c \in All /\ c[1] = "file" /\ c[2] = i /\ c[3] = e
  BY DEF All
<1>8. /\ phi[n] = c /\ \A p \in All : p # n => phi[p] = p
      /\ psi[c] = n /\ \A p \in All : p # c => psi[p] = p
  BY <1>7
<1>9. n \in Places /\ Held(n) = Record(h)
  <2>1. InQueue(i, 1)
    BY <1>3, <1>5
  <2> QED
    BY <1>5, <2>1, PlaceIs
<1>10. /\ c \in Places <=> ~x.eob
       /\ Held(c) = Record(x)
       /\ n \in Places' <=> ~x.eob
       /\ Held(n)' = Record(x)
       /\ c \notin Places'
  <2>1. e \in file[i].at..Len(file[i].data) /\ e \notin e + 1..Len(file[i].data)
    BY <1>4, <1>5
  <2>2. InFile(i, e) <=> ~x.eob
    BY <1>5, <1>6, <2>1
  <2>3. ~InFile(i, e)'
    BY <1>5, <1>6, <2>1
  <2>4. InQueue(i, 1)' <=> ~x.eob
    BY <1>3, <1>5
  <2>5. c \in Places <=> InFile(i, e)
    BY PlaceIs
  <2>6. c \in Places' <=> InFile(i, e)'
    BY PlaceIsNext
  <2>7. n \in Places' <=> InQueue(i, 1)'
    BY PlaceIsNext
  <2>8. Held(c) = Record(file[i].data[e]) /\ Held(n)' = Record(queue'[i][1])
    BY DEF Held
  <2> HIDE DEF n, c
  <2> QED
    BY <1>5, <2>2, <2>3, <2>4, <2>5, <2>6, <2>7, <2>8
<1>11. ASSUME NEW p \in All, p # n, p # c
       PROVE  (p \in Places <=> p \in Places') /\ (p \in Places => Held(p)' = Held(p))
  <2>1. PICK m \in Four, j \in Nat : p = <<"queue", m, j>> \/ p = <<"file", m, j>>
    BY PlaceCases
  <2>2. CASE p = <<"queue", m, j>>
    <3>1. /\ p \in Places <=> InQueue(m, j)
          /\ p \in Places' <=> InQueue(m, j)'
          /\ Held(p) = Record(queue[m][j]) /\ Held(p)' = Record(queue'[m][j])
      BY <2>2, PlaceIs, PlaceIsNext DEF Held
    <3>2. CASE m = i
      <4>1. j # 1
        BY <1>11, <2>2, <3>2
      <4> QED
        BY <1>3, <3>1, <4>1
    <3>3. CASE m # i
      <4>1. queue'[m] = queue[m]
        BY <1>5, <3>3
      <4>2. InQueue(m, j)' <=> InQueue(m, j)
        BY <1>3, <4>1
      <4> QED
        BY <3>1, <4>1, <4>2
    <3> QED
      BY <3>2, <3>3
  <2>3. CASE p = <<"file", m, j>>
    <3>1. /\ p \in Places <=> InFile(m, j)
          /\ p \in Places' <=> InFile(m, j)'
          /\ Held(p) = Record(file[m].data[j]) /\ Held(p)' = Record(file'[m].data[j])
      BY <2>3, PlaceIs, PlaceIsNext DEF Held
    <3>2. CASE m = i
      <4>1. j # e
        BY <1>11, <2>3, <3>2
      <4>2. InFile(m, j) <=> InFile(m, j)'
        <5>1. PICK l \in Nat : l = Len(file[i].data)
          BY <1>5
        <5>2. j \in e..l <=> j \in e + 1..l
          BY <4>1
        <5>3. /\ InFile(m, j) <=> j \in e..l /\ ~file[i].data[j].eob
              /\ InFile(m, j)' <=> j \in e + 1..l /\ ~file[i].data[j].eob
          BY <1>4, <1>5, <1>6, <3>2, <5>1
        <5> QED
          BY <5>2, <5>3
      <4> QED
        BY <1>5, <3>1, <3>2, <4>2
    <3>3. CASE m # i
      <4>1. file'[m] = file[m]
        BY <1>1, <3>3
      <4>2. InFile(m, j)' <=> InFile(m, j)
        BY <1>6, <4>1
      <4> QED
        BY <3>1, <4>1, <4>2
    <3> QED
      BY <3>2, <3>3
  <2> QED
    BY <2>1, <2>2, <2>3
<1>12. n # c /\ Places \subseteq All /\ Places' \subseteq All
  <2>1. n # c
    BY <1>7
  <2> QED
    BY <2>1, PlaceIs, PlaceIsNext
<1>13. PICK v : v = n
  OBVIOUS
<1> HIDE DEF n, c, phi, psi
<1>14. ASSUME NEW p \in Places'
       PROVE  phi[p] \in Places \ {v} /\ psi[phi[p]] = p /\ Held(p)' = Held(phi[p])
  <2>1. CASE p = n
    <3>1. phi[p] = c /\ psi[c] = n /\ c \in Places
      BY <1>8, <1>10, <2>1
    <3>2. Held(p)' = Held(c)
      BY <1>10, <2>1 DEF n, Held
    <3> QED
      BY <1>12, <1>13, <2>1, <3>1, <3>2
  <2>2. CASE p # n
    <3>1. p \in All /\ p # c
      BY <1>10, <1>12
    <3> QED
      BY <1>8, <1>11, <1>13, <2>2, <3>1
  <2> QED
    BY <2>1, <2>2
<1>15. ASSUME NEW p \in Places \ {v} PROVE psi[p] \in Places' /\ phi[psi[p]] = p
  <2>1. p \in All /\ p # n /\ p \in Places
    BY <1>12, <1>13
  <2>2. CASE p = c
    BY <1>8, <1>10, <2>1, <2>2
  <2>3. CASE p # c
    BY <1>8, <1>11, <2>1, <2>3
  <2> QED
    BY <2>2, <2>3
<1>16. v \in Places /\ out' = Append(out, Held(v)) /\ Held(v) = Record(h)
  <2>1. out' = Append(out, Record(h))
    BY <1>1, <1>4 DEF Deliver, Record
  <2> QED
    BY <1>9, <1>13, <2>1
<1>17. Takes(phi, psi, v)
  BY <1>14, <1>15, <1>16 DEF Takes
<1>18. PoolPlaced /\ PoolPlaced' /\ NoTwice /\ Counted
  BY <1>0, PoolFacts
<1>19. HeadChosen \in {0, 1} /\ i \in {source, source + 1}
       /\ \A k \in {source, source + 1} : k # i /\ ~First(k).eob => Less(First(i), First(k))
  <2>1. /\ HeadChosen \in {0, 1} /\ source + HeadChosen \in {source, source + 1}
        /\ \A m \in {0, 1} : m # HeadChosen /\ ~First(source + m).eob
             => Less(First(source + HeadChosen), First(source + m))
    BY <1>0, HeadIs
  <2>2. ASSUME NEW k \in {source, source + 1}, k # i, ~First(k).eob PROVE Less(First(i), First(k))
    <3>1. PICK m \in {0, 1} : k = source + m
      <4>1. source + 0 = source
        BY <1>0
      <4> QED
        BY <4>1
    <3>2. m # HeadChosen
      BY <1>1, <2>2, <3>1
    <3> QED
      BY <1>1, <2>1, <2>2, <3>1, <3>2
  <2> QED
    BY <1>1, <2>1, <2>2
<1>20. \A k \in Four : First(k) \in Item /\ First(k).key \in Nat /\ First(k).unique \in Nat
  BY <1>0, MergeFacts, Items
<1>21. ASSUME NEW p \in Places, p # v PROVE \E z : Held(p) = Record(z) /\ Less(h, z)
  <2>1. PICK m \in Four, j \in Nat : p = <<"queue", m, j>> \/ p = <<"file", m, j>>
    BY PlaceCases, PlaceIs
  <2>2. CASE p = <<"queue", m, j>>
    <3>1. j = 1 /\ ~First(m).eob /\ Held(p) = Record(First(m))
      <4>1. InQueue(m, j) /\ Held(p) = Record(queue[m][j])
        BY <2>2, PlaceIs
      <4> QED
        BY <1>3, <4>1 DEF First
    <3>2. m # i
      BY <1>13, <1>21, <2>2, <3>1 DEF n
    <3>3. m \in {source, source + 1}
      BY <1>0, <3>1 DEF FilesOut
    <3> QED
      BY <1>4, <1>19, <3>1, <3>2, <3>3
  <2>3. CASE p = <<"file", m, j>>
    <3>1. InFile(m, j) /\ Held(p) = Record(file[m].data[j])
      BY <2>3, PlaceIs
    <3>2. ~First(m).eob /\ Less(First(m), file[m].data[j]) /\ m \in {source, source + 1}
      BY <1>0, <3>1, LastBlock
    <3>3. Less(h, file[m].data[j])
      <4>1. CASE m = i
        BY <1>4, <3>2, <4>1
      <4>2. CASE m # i
        <5>1. Less(First(i), First(m))
          BY <1>19, <3>2, <4>2
        <5>2. file[m].data[j].key \in Nat /\ file[m].data[j].unique \in Nat
          <6>1. Held(p).key \in Keys /\ Held(p).unique \in Nat /\ Keys \subseteq Nat
            BY <1>0, Stamps, Program
          <6> PICK y : y = file[m].data[j]
            OBVIOUS
          <6>2. Record(y).key = y.key /\ Record(y).unique = y.unique
            BY DEF Record
          <6>3. Held(p) = Record(y)
            BY <3>1
          <6>4. y.key \in Nat /\ y.unique \in Nat
            BY <6>1, <6>2, <6>3
          <6> QED
            BY <6>4
        <5> QED
          BY <1>4, <1>20, <3>2, <5>1, <5>2, LessTransitive
      <4> QED
        BY <4>1, <4>2
    <3> QED
      BY <3>1, <3>3
  <2> QED
    BY <2>1, <2>2, <2>3
<1>22. ASSUME NEW y \in Pool \ {Held(v)} PROVE Less(Held(v), y)
  <2>1. PICK p \in Places : y = Held(p)
    BY <1>18 DEF PoolPlaced
  <2>2. p # v
    BY <1>22, <2>1
  <2>3. PICK z : y = Record(z) /\ Less(h, z)
    BY <1>21, <2>1, <2>2
  <2> QED
    BY <1>16, <2>3 DEF Less, Record
<1>23. unique' = unique /\ out \in Seq([key : Keys, unique : 0..Len(setup.choices)]) /\ retrieving
  BY <1>0
<1> HIDE DEF Pool, PoolPlaced, NoTwice, Counted
<1>24. NoTwice' /\ Counted' /\ Held(v) \in Pool /\ Pool' = Pool \ {Held(v)}
  BY <1>17, <1>18, <1>23, Delivered
<1>25. Least(Held(v), Pool)
  BY <1>22, <1>24 DEF Least
<1> QED
  BY <1>16, <1>23, <1>24, <1>25

-----------------------------------------------------------------------------
(* The whole: every step keeps the invariant.                              *)

(* Every action keeps what the engine holds. *)
LEMMA EngineKeeps ==
  ASSUME IInv, Next
  PROVE  Engine'
<1>1. UNCHANGED <<setup, using>>
  BY DEF Next
<1>2. ASSUME NEW k \in Keys, Release(k) PROVE Engine'
  BY <1>1, <1>2, ReleaseKeeps
<1>3. CASE Return \/ ReturnAgain
  BY <1>1, <1>3, ReturnKeeps, ReturnAgainKeeps
<1>4. CASE QueuePass \/ QueuePair \/ QueueMove \/ QueueBlock
  BY <1>1, <1>4, QueuePassKeeps, QueuePairKeeps, QueueMoveKeeps, QueueBlockKeeps
<1>5. CASE SubmitSorted \/ SubmitFails \/ SortedInMemory \/ SortedOnFiles \/ ProcessFails
  BY <1>1, <1>5, SubmitSortedKeeps, FailsKeeps, SortedInMemoryKeeps, SortedOnFilesKeeps
<1>6. CASE FilePass \/ FilePair \/ FileMove \/ FileBlock
  BY <1>1, <1>6, FilePassKeeps, FilePairKeeps, FileMoveKeeps, FileBlockKeeps
<1>7. CASE RetrieveFromQueue \/ RetrieveFromFiles
  BY <1>1, <1>7, RetrieveFromQueueKeeps, RetrieveFromFilesKeeps
<1> QED
  BY <1>2, <1>3, <1>4, <1>5, <1>6, <1>7 DEF Next, Loops

(* What a step does with the records: nothing, or it brings one, or RETURN *)
(* takes the least.                                                        *)
Stays   == Pool' = Pool /\ UNCHANGED out
Grows   == /\ ~retrieving /\ UNCHANGED out
           /\ \E x : /\ x \notin Pool /\ Pool' = Pool \cup {x} /\ x.key \in Keys
                     /\ \A y \in Pool : y.unique < x.unique
Shrinks == /\ retrieving
           /\ \E x : Least(x, Pool) /\ out' = Append(out, x) /\ Pool' = Pool \ {x}

Outcome == /\ UNCHANGED failed
           /\ \/ Stays /\ (UNCHANGED retrieving \/ retrieving' = TRUE)
              \/ Grows /\ UNCHANGED retrieving
              \/ Shrinks /\ UNCHANGED retrieving

(* The steps that neither fail nor find too few items for the merge. *)
Sound == \/ (\E k \in Keys : Release(k)) \/ Return \/ ReturnAgain
         \/ QueuePass \/ QueuePair \/ QueueMove \/ QueueBlock
         \/ SubmitSorted \/ SortedInMemory
         \/ SortedOnFiles /\ Freed(source) >= 4
         \/ FilePass \/ FilePair \/ FileMove \/ FileBlock
         \/ RetrieveFromQueue \/ RetrieveFromFiles

(* They do one of these things, and no record is lost or doubled. *)
LEMMA SoundSteps ==
  ASSUME IInv, Engine', Sound, UNCHANGED <<setup, using>>
  PROVE  NoTwice' /\ Counted' /\ Outcome
<1> USE DEF engine, reply
<1>1. ASSUME Quiet, UNCHANGED failed, UNCHANGED retrieving \/ retrieving' = TRUE
      PROVE  NoTwice' /\ Counted' /\ Outcome
  BY <1>1, QuietStays DEF Outcome, Stays
<1>2. CASE \E k \in Keys : Release(k)
  <2>1. PICK k \in Keys : Release(k)
    BY <1>2
  <2>2. UNCHANGED <<failed, retrieving>>
    BY <2>1 DEF Release
  <2>3. CASE retrieving \/ Full
    BY <1>1, <1>2, <2>2, <2>3 DEF Quiet
  <2>4. CASE ~retrieving /\ ~Full
    BY <2>1, <2>2, <2>4, ReleasePool DEF Outcome, Grows
  <2> QED
    BY <2>3, <2>4
<1>3. CASE Return
  <2>1. UNCHANGED failed /\ retrieving' = TRUE
    BY <1>3 DEF Return
  <2> QED
    BY <1>1, <1>3, <2>1 DEF Quiet
<1>4. CASE ReturnAgain \/ QueuePass \/ QueuePair \/ QueueBlock \/ SortedInMemory \/ FileBlock
  <2>1. UNCHANGED <<failed, retrieving>>
    BY <1>4 DEF ReturnAgain, QueuePass, QueuePair, QueueBlock, SortedInMemory, FileBlock
  <2> QED
    BY <1>1, <1>4, <2>1 DEF Quiet
<1>5. CASE QueueMove
  <2>1. UNCHANGED <<failed, retrieving>>
    BY <1>5 DEF QueueMove
  <2> QED
    BY <1>5, <2>1, QueueMovePool DEF Outcome, Stays
<1>6. CASE SubmitSorted
  <2>1. UNCHANGED <<failed, retrieving>>
    BY <1>6 DEF SubmitSorted
  <2> QED
    BY <1>6, <2>1, SubmitSortedPool DEF Outcome, Grows
<1>7. CASE SortedOnFiles /\ Freed(source) >= 4
  <2>1. UNCHANGED <<failed, retrieving>>
    BY <1>7 DEF SortedOnFiles
  <2> QED
    BY <1>7, <2>1, SortedOnFilesPool DEF Outcome, Stays
<1>8. CASE FilePass
  <2>1. UNCHANGED <<failed, retrieving>>
    BY <1>8 DEF FilePass
  <2>2. CASE MoreBlocks
    BY <1>1, <1>8, <2>1, <2>2 DEF Quiet
  <2>3. CASE ~MoreBlocks
    BY <1>8, <2>1, <2>3, FilePassPool DEF Outcome, Stays
  <2> QED
    BY <2>2, <2>3
<1>9. CASE FilePair
  <2>1. UNCHANGED <<failed, retrieving>>
    BY <1>9 DEF FilePair
  <2>2. CASE file[source].count = 0
    BY <1>1, <1>9, <2>1, <2>2 DEF Quiet
  <2>3. CASE file[source].count # 0
    BY <1>9, <2>1, <2>3, FilePairPool DEF Outcome, Stays
  <2> QED
    BY <2>2, <2>3
<1>10. CASE FileMove
  <2>1. UNCHANGED <<failed, retrieving>>
    BY <1>10 DEF FileMove
  <2> QED
    BY <1>10, <2>1, FileMovePool DEF Outcome, Stays
<1>11. CASE RetrieveFromQueue
  <2>1. UNCHANGED <<failed, retrieving>>
    BY <1>11 DEF RetrieveFromQueue
  <2>2. CASE queue[retrieval_queue] = <<>>
    BY <1>1, <1>11, <2>1, <2>2 DEF Quiet
  <2>3. CASE queue[retrieval_queue] # <<>>
    BY <1>11, <2>1, <2>3, RetrieveFromQueuePool DEF Outcome, Shrinks
  <2> QED
    BY <2>2, <2>3
<1>12. CASE RetrieveFromFiles
  <2>1. UNCHANGED <<failed, retrieving>>
    BY <1>12 DEF RetrieveFromFiles
  <2>2. CASE Head1(0).eob /\ Head1(1).eob
    BY <1>1, <1>12, <2>1, <2>2 DEF Quiet
  <2>3. CASE ~(Head1(0).eob /\ Head1(1).eob)
    BY <1>12, <2>1, <2>3, RetrieveFromFilesPool DEF Outcome, Shrinks
  <2> QED
    BY <2>2, <2>3
<1> QED
  BY <1>2, <1>3, <1>4, <1>5, <1>6, <1>7, <1>8, <1>9, <1>10, <1>11, <1>12 DEF Sound

(* Any other step stops the program. *)
LEMMA Steps ==
  ASSUME IInv, Next
  PROVE  \/ Sound
         \/ SubmitFails \/ ProcessFails
         \/ SortedOnFiles /\ ~(Freed(source) >= 4)
BY DEF Next, Loops, Sound

(* A file that fails, or a merge without its items. *)
LEMMA Stopped ==
  ASSUME IInv, SubmitFails \/ ProcessFails \/ (SortedOnFiles /\ ~(Freed(source) >= 4))
  PROVE  pc' \in {"broken", "crashed"} /\ ret' # 10
<1>1. CASE SubmitFails \/ ProcessFails
  BY <1>1 DEF SubmitFails, ProcessFails, Refuse
<1>2. CASE SortedOnFiles /\ ~(Freed(source) >= 4)
  <2>1. pc = "sorted" /\ pc' = "crashed" /\ ret' = ret
    BY <1>2 DEF SortedOnFiles, reply
  <2>2. ret # 10
    BY <2>1 DEF IInv, Engine, Stages
  <2> QED
    BY <2>1, <2>2
<1> QED
  BY <1>1, <1>2

(* RETURN says AT END when the last sorted queue is empty, or when both    *)
(* heads are at the end of their only block: nothing is left anywhere.     *)
LEMMA NothingLeft ==
  ASSUME Engine, \A k \in Four, j \in Nat : ~InQueue(k, j) /\ ~InFile(k, j)
  PROVE  Pool = {}
<1>1. Pool = {Held(p) : p \in Places}
  BY PoolIs DEF Engine, PoolPlaced
<1>2. ASSUME NEW p \in Places PROVE FALSE
  <2>1. PICK k \in Four, j \in Nat : p = <<"queue", k, j>> \/ p = <<"file", k, j>>
    BY PlaceIs, PlaceCases
  <2> QED
    BY <2>1, PlaceIs
<1> QED
  BY <1>1, <1>2

(* The last sorted queue is empty: the others are, and the files. *)
LEMMA QueueIsEmpty ==
  ASSUME Engine, RetrieveFromQueue, queue[retrieval_queue] = <<>>
  PROVE  Pool = {}
<1>1. /\ pc = "retrieve" /\ ~files_used /\ retrieving /\ InQueues
      /\ QueuesOut /\ FilesWait
  BY DEF Engine, Stages, Queues, RetrieveFromQueue, InQueues
<1>2. \A k \in Four : queue[k] = <<>>
  BY <1>1 DEF QueuesOut
<1>3. \A k \in Four : file[k].data = <<>>
  BY <1>1 DEF FilesWait, NoFile, Four
<1>4. \A k \in Four : Len(queue[k]) = 0 /\ Len(file[k].data) = 0
  BY <1>2, <1>3
<1>5. \A k \in Four : file[k].at \in Nat \ {0}
  BY DEF Engine, Shapes, File
<1>6. \A k \in Four, j \in Nat : ~InQueue(k, j)
  BY <1>4 DEF InQueue
<1>7. \A k \in Four, j \in Nat : ~InFile(k, j)
  <2> SUFFICES ASSUME NEW k \in Four, NEW j \in Nat, j \in file[k].at..Len(file[k].data)
               PROVE  FALSE
    BY DEF InFile
  <2>1. j \in file[k].at..0
    BY <1>4
  <2> QED
    BY <1>5, <2>1
<1> QED
  BY <1>6, <1>7, NothingLeft

(* Both heads are at the end of their block: the files are read. *)
LEMMA FilesAreEmpty ==
  ASSUME Engine, RetrieveFromFiles, Head1(0).eob, Head1(1).eob
  PROVE  Pool = {}
<1>1. Reading /\ FilesOut /\ source \in {0, 2} /\ Four = {source, source + 1, Target, Target + 1}
  <2>1. Reading
    BY DEF Engine, Stages, RetrieveFromFiles, Reading
  <2> QED
    BY <2>1, Lists DEF Engine, Shapes, Files
<1>2. \A k \in Four : First(k).eob
  <2>1. First(source).eob /\ First(source + 1).eob
    <3>1. source + 0 = source
      BY <1>1
    <3> QED
      BY <3>1 DEF Head1, First
  <2> QED
    BY <1>1, <2>1 DEF FilesOut
<1>3. \A k \in Four, j \in Nat : ~InQueue(k, j)
  BY <1>1, <1>2, HeadPlaces DEF First
<1>4. \A k \in Four, j \in Nat : ~InFile(k, j)
  BY <1>1, <1>2, LastBlock
<1> QED
  BY <1>3, <1>4, NothingLeft

(* When RETURN says AT END, everything has been returned. *)
LEMMA AllReturnedKeeps ==
  ASSUME IInv, Engine', Next
  PROVE  AllReturned'
<1> USE DEF engine, reply
<1> SUFFICES ASSUME ret' = 10 PROVE Pool' = {}
  BY DEF AllReturned
<1>0. UNCHANGED <<setup, using>> /\ Stages /\ Engine
  BY DEF Next, IInv, Engine
<1>1. Sound
  BY Steps, Stopped
<1>2. ASSUME Quiet, Pool = {} PROVE Pool' = {}
  BY <1>0, <1>2, QuietStays
<1>3. CASE \E k \in Keys : Release(k)
  <2>1. PICK k \in Keys : Release(k)
    BY <1>3
  <2>2. ~retrieving /\ Full /\ ret' = ret
    BY <2>1 DEF Release, Refuse
  <2>3. ret # 10
    BY <1>0, <2>2 DEF Stages
  <2> QED
    BY <2>2, <2>3
<1>4. CASE Return
  <2>1. ~retrieving /\ ret' = ret
    BY <1>4 DEF Return
  <2> QED
    BY <1>0, <2>1 DEF Stages
<1>5. CASE ReturnAgain
  <2>1. ret' = ret
    BY <1>5 DEF ReturnAgain
  <2> QED
    BY <1>2, <1>5, <2>1 DEF IInv, AllReturned, Quiet
<1>6. CASE QueuePass \/ QueuePair \/ QueueMove \/ QueueBlock \/ SortedInMemory \/ SortedOnFiles
  <2>1. ret' = ret /\ pc \in {"pass", "pair", "move", "sorted"}
    BY <1>6 DEF QueuePass, QueuePair, QueueMove, QueueBlock, SortedInMemory, SortedOnFiles
  <2> QED
    BY <1>0, <2>1 DEF Stages
<1>7. CASE FilePass \/ FilePair \/ FileMove \/ FileBlock
  <2>1. ret' = ret /\ pc \in {"filepass", "filepair", "filemove"}
    BY <1>7 DEF FilePass, FilePair, FileMove, FileBlock
  <2> QED
    BY <1>0, <2>1 DEF Stages
<1>8. CASE SubmitSorted
  BY <1>8 DEF SubmitSorted
<1>9. CASE RetrieveFromQueue
  <2>1. queue[retrieval_queue] = <<>>
    BY <1>9 DEF RetrieveFromQueue, Deliver
  <2> QED
    BY <1>0, <1>2, <1>9, <2>1, QueueIsEmpty DEF Quiet
<1>10. CASE RetrieveFromFiles
  <2>1. Head1(0).eob /\ Head1(1).eob
    BY <1>10 DEF RetrieveFromFiles, Deliver
  <2> QED
    BY <1>0, <1>2, <1>10, <2>1, FilesAreEmpty DEF Quiet
<1> QED
  BY <1>1, <1>3, <1>4, <1>5, <1>6, <1>7, <1>8, <1>9, <1>10 DEF Sound

(* Every step of the specification keeps the invariant. *)
LEMMA NextKeeps == IInv /\ [Next]_vars => IInv'
<1> SUFFICES ASSUME IInv, [Next]_vars PROVE IInv'
  OBVIOUS
<1>1. CASE Next
  <2>1. Engine' /\ AllReturned'
    BY <1>1, EngineKeeps, AllReturnedKeeps
  <2>2. UNCHANGED <<setup, using>>
    BY <1>1 DEF Next
  <2>3. PoolKept'
    BY <1>1, <2>1, <2>2, Steps, SoundSteps, Stopped DEF PoolKept
  <2> QED
    BY <2>1, <2>3 DEF IInv
<1>2. CASE UNCHANGED vars
  <2>1. UNCHANGED <<setup, memory, unique, retrieving, files_used, destination_file, retrieval_queue,
                    queue, empty, file, using, pc, cont, source, destination, ended, pending, out,
                    ret, sort_return, failed>>
    BY <1>2 DEF vars, engine, local, reply
  <2>2. Shapes' /\ Stages'
    BY <2>1, SameTypes DEF IInv, Engine, Shapes, Stages, Merging
  <2>3. InMemory' /\ GoodItems'
    BY <2>1 DEF IInv, Engine, InMemory, Live, Sum4, GoodItems, IsRecord, InQueues, Merging, Reading
  <2>4. Queues'
    <3>1. FilesWait'
      BY <2>1 DEF IInv, Engine, Queues, FilesWait, InQueues, Submitting
    <3>2. QueuesRise' /\ QueuesIdle' /\ QueuesSorted' /\ QueuesOut'
      BY <2>1 DEF IInv, Engine, Queues, QueuesRise, QueuesIdle, QueuesSorted, QueuesOut, InQueues
    <3>3. QueuesPass' /\ QueuesPair' /\ QueuesMove'
      BY <2>1 DEF IInv, Engine, Queues, QueuesPass, QueuesPair, QueuesMove, QueuesInTurn, InTurn,
                  After, Count, Target
    <3> QED
      BY <3>1, <3>2, <3>3 DEF Queues
  <2>5. Files'
    <3>1. FilesRise' /\ FilesPass' /\ FilesOut'
      BY <2>1 DEF IInv, Engine, Files, FilesRise, FilesPass, FilesOut, Merging, Reading, First, Left,
                  FirstRises, Target
    <3>2. FilesPair' /\ FilesMove'
      BY <2>1 DEF IInv, Engine, Files, FilesPair, FilesMove, FilesInTurn, InTurn, First, Left,
                  FirstRises, Opened, Target
    <3> QED
      BY <3>1, <3>2 DEF Files
  <2>6. Engine'
    BY <2>2, <2>3, <2>4, <2>5 DEF Engine
  <2>7. Pool' = Pool
    BY <2>1 DEF Pool, Queued, Unread, OnFiles
  <2>8. AllReturned'
    BY <2>1, <2>7 DEF IInv, AllReturned
  <2>9. PoolKept'
    <3> SUFFICES ASSUME pc \notin {"broken", "crashed"} PROVE NoTwice' /\ Counted'
      BY <2>1 DEF PoolKept
    <3> QED
      BY <2>1, <2>6, Unmoved DEF OnFiles
  <2> QED
    BY <2>6, <2>8, <2>9 DEF IInv
<1> QED
  BY <1>1, <1>2

(* A program begins with nothing in the engine. *)
LEMMA InitHolds == Init => IInv
<1> SUFFICES ASSUME Init PROVE IInv
  OBVIOUS
<1> USE DEF Init
<1>0. /\ setup \in Setups /\ Len(setup.choices) \in Nat /\ setup.memory \in Nat /\ SizeMax \in Nat
      /\ \A i \in Four : queue[i] = <<>> /\ file[i] = NoFile
  BY Program
<1>1. /\ \A i \in Four : Len(queue[i]) = 0 /\ Len(file[i].data) = 0
      /\ Blocks(<<>>, 1) = 0
      /\ NoFile.data = <<>> /\ NoFile.at = 1 /\ NoFile.count = 0
      /\ NoFile \in File
  <2>1. NoFile.data = <<>> /\ NoFile.at = 1 /\ NoFile.count = 0
    BY DEF NoFile
  <2>2. Blocks(<<>>, 1) = 0
    BY NoBlocks
  <2>3. NoFile \in File
    BY <1>0 DEF NoFile, File
  <2> QED
    BY <1>0, <2>1, <2>2, <2>3
<1>2. Shapes
  <2>1. /\ setup \in Setups /\ memory = setup.memory /\ using = setup.using
        /\ unique \in 0..Len(setup.choices) /\ empty \in Nat
        /\ retrieving \in BOOLEAN /\ files_used \in BOOLEAN
        /\ destination_file \in 0..1 /\ retrieval_queue \in {0, 2}
    <3>1. setup \in Setups /\ memory = setup.memory /\ using = setup.using
      BY Zenon
    <3>2. unique \in 0..Len(setup.choices) /\ empty \in Nat
      BY <1>0
    <3>3. retrieving \in {FALSE, TRUE} /\ files_used \in {FALSE, TRUE}
      BY Zenon
    <3>4. destination_file = 0 /\ retrieval_queue = 0
      BY Zenon
    <3>5. destination_file \in 0..1 /\ retrieval_queue \in {0, 2}
      BY <3>4
    <3> QED
      BY <3>1, <3>2, <3>3, <3>5, Zenon
  <2>2. queue \in [Four -> Seq(Item)] /\ out \in Seq([key : Keys, unique : 0..Len(setup.choices)])
    BY EmptySeq
  <2>3. file \in [Four -> File]
    BY <1>1
  <2>4. \A i \in Four : file[i].at <= Len(file[i].data) + 1
    BY <1>0, <1>1
  <2>5. /\ pc \in {"idle"} /\ cont \in {"none"}
        /\ source \in {0, 2} /\ destination \in Four /\ ended \in [0..1 -> BOOLEAN]
        /\ pending \in Keys \cup {0} /\ ret \in {0, 10, 30} /\ sort_return \in {0, 16}
        /\ failed \in BOOLEAN
    BY DEF Four
  <2> QED
    BY <2>1, <2>2, <2>3, <2>4, <2>5 DEF Shapes
<1>3. Stages
  BY DEF Stages, Loop, Merging
<1>4. InMemory
  <2>1. Live = 0
    BY <1>1 DEF Live, Sum4, Four
  <2> QED
    BY <1>0, <2>1 DEF InMemory
<1>5. GoodItems
  BY <1>1 DEF GoodItems, Merging, Reading
<1>6. Queues
  <2>1. FilesWait
    BY <1>0, <1>1 DEF FilesWait, Closed, RisingFrom, Four
  <2>2. QueuesRise
    BY <1>1 DEF QueuesRise, Rising
  <2>3. QueuesIdle
    BY <1>0, <1>1 DEF QueuesIdle, Balanced, Four
  <2> QED
    BY <2>1, <2>2, <2>3 DEF Queues, QueuesPass, QueuesPair, QueuesMove, QueuesSorted, QueuesOut
<1>7. Files
  BY NoFiles DEF Merging, Reading
<1>8. Engine
  BY <1>2, <1>3, <1>4, <1>5, <1>6, <1>7 DEF Engine
<1>9. \A k \in Four, j \in Nat : ~InQueue(k, j) /\ ~InFile(k, j)
  BY <1>0, <1>1 DEF InQueue, InFile
<1>10. Pool = {}
  BY <1>8, <1>9, NothingLeft
<1>11. NoTwice
  <2> SUFFICES ASSUME NEW p \in Places PROVE FALSE
    BY DEF NoTwice
  <2>1. PICK k \in Four, j \in Nat : p = <<"queue", k, j>> \/ p = <<"file", k, j>>
    BY PlaceIs, PlaceCases
  <2> QED
    BY <1>9, <2>1, PlaceIs
<1>12. Counted
  BY <1>10, FS_EmptySet DEF Counted
<1> QED
  BY <1>8, <1>10, <1>11, <1>12 DEF IInv, PoolKept, AllReturned

(* The invariant of every state of the specification. *)
LEMMA Invariant == Spec => []IInv
<1>1. Init => IInv
  BY InitHolds
<1>2. IInv /\ [Next]_vars => IInv'
  BY NextKeeps
<1> QED
  BY <1>1, <1>2, PTL DEF Spec

-----------------------------------------------------------------------------
(* What the invariant means for a program.                                 *)

(* The types of the model follow from those of the invariant. *)
LEMMA Typed == IInv => TypeOK
<1> SUFFICES ASSUME IInv PROVE TypeOK
  OBVIOUS
<1>1. Shapes /\ InMemory /\ setup \in Setups /\ Len(setup.choices) \in Nat
  BY Program DEF IInv, Engine, Shapes
<1>2. empty \in 0..(Len(setup.choices) + 1)
  <2>1. Live \in Nat
    <3>1. \A i \in Four : Len(queue[i]) \in Nat
      BY <1>1, ItemsOf DEF Shapes
    <3>2. /\ Len(queue[0]) \in Nat /\ Len(queue[1]) \in Nat
          /\ Len(queue[2]) \in Nat /\ Len(queue[3]) \in Nat
      BY <3>1 DEF Four
    <3>3. Live = Len(queue[0]) + Len(queue[1]) + Len(queue[2]) + Len(queue[3])
      BY DEF Live, Sum4, Four
    <3>4. \A a, b, c, d \in Nat : a + b + c + d \in Nat
      OBVIOUS
    <3> QED
      BY <3>2, <3>3, <3>4
  <2>2. Live + empty <= unique /\ unique \in 0..Len(setup.choices) /\ empty \in Nat
    BY <1>1 DEF Shapes, InMemory
  <2> QED
    BY <1>1, <2>1, <2>2
<1>3. \A i \in Four : /\ file[i].data \in Seq(Item)
                      /\ file[i].at \in 1..(Len(file[i].data) + 1)
                      /\ file[i].count \in 0..SizeMax
                      /\ file[i].tail \in BOOLEAN
  <2> SUFFICES ASSUME NEW i \in Four
               PROVE  /\ file[i].data \in Seq(Item)
                      /\ file[i].at \in 1..(Len(file[i].data) + 1)
                      /\ file[i].count \in 0..SizeMax
                      /\ file[i].tail \in BOOLEAN
    OBVIOUS
  <2>1. file[i] \in File /\ file[i].at <= Len(file[i].data) + 1
    BY <1>1 DEF Shapes
  <2>2. /\ file[i].data \in Seq(Item) /\ file[i].at \in Nat \ {0}
        /\ file[i].count \in 0..SizeMax /\ file[i].tail \in BOOLEAN
    BY <2>1 DEF File
  <2>3. Len(file[i].data) \in Nat
    BY <2>2, ItemsOf
  <2> QED
    BY <2>1, <2>2, <2>3
<1>4. pc \in {"idle", "pass", "pair", "move", "sorted", "filepass", "filepair", "filemove",
             "retrieve", "crashed", "broken", "garbage"}
  BY <1>1 DEF Shapes, Loop
<1>5. retrieval_queue \in Four
  BY <1>1 DEF Shapes, Four
<1> QED
  BY <1>1, <1>2, <1>3, <1>4, <1>5 DEF Shapes, TypeOK

(* The blocks are those that the counts say, through any number of spills   *)
(* and merge passes and whatever the counts of the files wrap to: no block  *)
(* is read that an earlier pass left, none is forgotten when RETURN answers *)
(* AT END, the items never outgrow the sort memory, and the merge finds its *)
(* four items whenever four records fit it.                                 *)
THEOREM BlocksAreSound == Spec => []BlocksSound
<1>1. IInv => BlocksSound
  <2> SUFFICES ASSUME IInv PROVE BlocksSound
    OBVIOUS
  <2>1. TypeOK
    BY Typed
  <2>2. MemoryBound
    BY DEF IInv, Engine, InMemory, MemoryBound
  <2>3. CompleteAtEnd
    <3> SUFFICES ASSUME ret = 10 PROVE Pool = {} /\ Len(out) = unique
      BY DEF CompleteAtEnd
    <3>1. Pool = {}
      BY DEF IInv, AllReturned
    <3>2. pc \in {"idle", "retrieve"}
      BY DEF IInv, Engine, Stages
    <3>3. Cardinality(Pool) + Len(out) = unique
      BY <3>2 DEF IInv, PoolKept, Counted
    <3>4. Len(out) \in Nat /\ Cardinality(Pool) = 0
      BY <3>1, FS_EmptySet, LenProperties DEF IInv, Engine, Shapes
    <3> QED
      BY <3>1, <3>3, <3>4
  <2>4. MergeIsSafe
    BY DEF IInv, Engine, Shapes, Stages, Loop, MergeIsSafe
  <2> QED
    BY <2>1, <2>2, <2>3, <2>4 DEF BlocksSound
<1> QED
  BY <1>1, Invariant, PTL

(* A temporary file that fails is reported in SORT-RETURN, except while     *)
(* USING releases: whatever step it fails at, and to the end of the run.    *)
THEOREM LossIsReported == Spec => []LossReported
<1>1. IInv => LossReported
  BY DEF IInv, Engine, Stages, LossReported
<1> QED
  BY <1>1, Invariant, PTL

(* A merge that does not find its items leaves the records where they are. *)
LEMMA CrashStays ==
  ASSUME SortedOnFiles, ~(Freed(source) >= 4)
  PROVE  UNCHANGED <<Pool, out, retrieving, failed>>
<1> USE DEF engine, reply
<1>1. UNCHANGED <<queue, file, out, retrieving, failed>> /\ ~OnFiles /\ ~OnFiles'
  BY DEF SortedOnFiles, OnFiles
<1>2. Queued' = Queued
  BY <1>1 DEF Queued
<1>3. \A i : Unread(i)' = Unread(i)
  BY <1>1 DEF Unread
<1>4. Pool' = Pool
  BY <1>1, <1>2 DEF Pool, Unread
<1> QED
  BY <1>1, <1>4

(* Every step is one of the contract, or the program sees nothing of it. *)
LEMMA StepImplements ==
  ASSUME IInv, Next
  PROVE  [Contract!Next]_(Contract!vars)
<1>0. Engine' /\ UNCHANGED <<setup, using>>
  BY EngineKeeps DEF Next
<1>1. CASE SubmitFails \/ ProcessFails
  <2>1. Contract!Fail
    BY <1>1 DEF SubmitFails, ProcessFails, Contract!Fail
  <2> QED
    BY <2>1 DEF Contract!Next
<1>2. CASE SortedOnFiles /\ ~(Freed(source) >= 4)
  BY <1>2, CrashStays DEF Contract!vars
<1>3. CASE Sound
  <2>1. Outcome
    BY <1>0, <1>3, SoundSteps
  <2>2. CASE Stays /\ UNCHANGED retrieving
    BY <2>1, <2>2 DEF Outcome, Stays, Contract!vars
  <2>3. CASE Stays /\ retrieving' = TRUE
    <3>1. Contract!Seal
      BY <2>1, <2>3 DEF Outcome, Stays, Contract!Seal
    <3> QED
      BY <3>1 DEF Contract!Next
  <2>4. CASE Grows /\ UNCHANGED retrieving
    <3>1. Contract!Accept
      <4>1. PICK x : /\ x \notin Pool /\ Pool' = Pool \cup {x} /\ x.key \in Keys
                     /\ \A y \in Pool : y.unique < x.unique
        BY <2>4 DEF Grows
      <4>2. x \in Pool' \ Pool
        BY <4>1
      <4>3. ~retrieving /\ UNCHANGED <<out, retrieving, failed>>
        BY <2>1, <2>4 DEF Outcome, Grows
      <4> QED
        BY <4>1, <4>2, <4>3 DEF Contract!Accept
    <3> QED
      BY <3>1 DEF Contract!Next
  <2>5. CASE Shrinks /\ UNCHANGED retrieving
    <3>1. Contract!Deliver
      <4>1. PICK x : Least(x, Pool) /\ out' = Append(out, x) /\ Pool' = Pool \ {x}
        BY <2>5 DEF Shrinks
      <4>2. x \in Pool /\ \A y \in Pool \ {x} : Contract!Precedes(x, y)
        BY <4>1 DEF Least, Less, Contract!Precedes
      <4>3. retrieving /\ UNCHANGED <<retrieving, failed>>
        BY <2>1, <2>5 DEF Outcome, Shrinks
      <4> QED
        BY <4>1, <4>2, <4>3 DEF Contract!Deliver
    <3> QED
      BY <3>1 DEF Contract!Next
  <2> QED
    BY <2>1, <2>2, <2>3, <2>4, <2>5 DEF Outcome
<1> QED
  BY <1>1, <1>2, <1>3, Steps

(* The engine implements the contract of SORT for every program, every      *)
(* memory, any number of records, and temporary files that fail at any      *)
(* step: what is released is returned once and in order, records with equal *)
(* keys in the order they were released, through every spill, pass and      *)
(* merge.                                                                   *)
THEOREM EngineImplementsSort == Spec => ImplementsSort
<1>1. Init => Contract!Init
  <2> SUFFICES ASSUME Init PROVE Contract!Init
    OBVIOUS
  <2>1. Pool = {}
    <3>1. IInv
      BY InitHolds
    <3>2. Cardinality(Pool) + Len(out) = unique /\ IsFiniteSet(Pool)
      BY <3>1 DEF Init, IInv, PoolKept, Counted
    <3>3. Len(out) = 0 /\ unique = 0 /\ Cardinality(Pool) \in Nat
      BY <3>2, FS_CardinalityType DEF Init
    <3>4. Cardinality(Pool) = 0
      BY <3>2, <3>3
    <3> QED
      BY <3>2, <3>4, FS_EmptySet
  <2> QED
    BY <2>1 DEF Init, Contract!Init
<1>2. IInv /\ [Next]_vars => [Contract!Next]_(Contract!vars)
  <2> SUFFICES ASSUME IInv, [Next]_vars PROVE [Contract!Next]_(Contract!vars)
    OBVIOUS
  <2>1. CASE UNCHANGED vars
    <3>1. UNCHANGED <<queue, file, out, retrieving, failed, pc, files_used>>
      BY <2>1 DEF vars, engine, reply
    <3>2. Pool' = Pool
      BY <3>1 DEF Pool, Queued, Unread, OnFiles
    <3> QED
      BY <3>1, <3>2 DEF Contract!vars
  <2>2. CASE Next
    BY <2>2, StepImplements
  <2> QED
    BY <2>1, <2>2
<1> QED
  BY <1>1, <1>2, Invariant, PTL DEF Spec, ImplementsSort, Contract!Spec

=============================================================================
