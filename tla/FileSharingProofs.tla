-------------------------- MODULE FileSharingProofs --------------------------
(***************************************************************************)
(* Proofs about FileSharing, for every set of run units and connectors,    *)
(* every number of records and every setup: the locks of careful programs  *)
(* keep a writer alone with the file, and what is in the file stays there. *)
(*                                                                         *)
(* The first lemmas are about the buffer of stdio, whose entries are put   *)
(* into the file one after the other by a recursive function: that it      *)
(* exists, and what it keeps of the file and of the entries.               *)
(***************************************************************************)
EXTENDS FileSharing, FiniteSetTheorems, TLAPS

-----------------------------------------------------------------------------
(* Numbers, and functions defined by recursion over 0..n. *)

(* A nonempty set of numbers has a least one. *)
LEMMA LeastExists ==
  ASSUME NEW S \in SUBSET Nat, S # {}
  PROVE  \E n \in S : \A m \in S : n <= m
<1> DEFINE R == OpToRel(<, Nat)
<1>1. PICK n \in S : \A m \in S : ~ (<<m, n>> \in R)
  BY NatLessThanWellFounded, WFMin, Zenon
<1>2. ASSUME NEW m \in S PROVE n <= m
  <2>1. <<m, n>> \notin {p \in Nat \X Nat : p[1] < p[2]}
    BY <1>1 DEF OpToRel
  <2>2. <<m, n>> \in Nat \X Nat
    OBVIOUS
  <2>3. ~(m < n)
    BY <2>1, <2>2
  <2> QED
    BY <2>3
<1> QED
  BY <1>2

(* A set of the first numbers that has 0, and with each number the next. *)
LEMMA UpTo ==
  ASSUME NEW n \in Nat, NEW S, 0 \in S,
         \A i \in 1..n : i - 1 \in S => i \in S
  PROVE  \A i \in 0..n : i \in S
<1> DEFINE Bad == {i \in 0..n : i \notin S}
<1> SUFFICES ASSUME Bad # {} PROVE FALSE
  OBVIOUS
<1>1. Bad \in SUBSET Nat
  OBVIOUS
<1>2. PICK m \in Bad : \A k \in Bad : m <= k
  <2> HIDE DEF Bad
  <2> QED
    BY <1>1, LeastExists
<1>3. m \in 0..n /\ m \notin S
  OBVIOUS
<1>4. m # 0
  BY <1>3
<1>5. m - 1 \in 0..n /\ m \in 1..n
  BY <1>3, <1>4
<1>6. m - 1 \notin Bad
  <2>1. ~(m <= m - 1)
    BY <1>3
  <2> QED
    BY <1>2, <2>1
<1> QED
  BY <1>3, <1>5, <1>6

FoundInSteps(g, n, b, step) == g[0] = b /\ \A i \in 1..n : g[i] = step[i][g[i - 1]]

(* A value for each number, found from the value before it. *)
LEMMA RecursionExists ==
  ASSUME NEW n \in Nat, NEW S, NEW b \in S, NEW step \in [1..n -> [S -> S]]
  PROVE  \E g \in [0..n -> S] : FoundInSteps(g, n, b, step)
<1> DEFINE Done == {k \in 0..n :
                      \E g \in [0..k -> S] : /\ g[0] = b
                                             /\ \A i \in 1..k : g[i] = step[i][g[i - 1]]}
<1>1. 0 \in Done
  <2> DEFINE g == [i \in 0..0 |-> b]
  <2>1. g \in [0..0 -> S] /\ g[0] = b /\ 0 \in 0..n
    OBVIOUS
  <2>2. \A i \in 1..0 : g[i] = step[i][g[i - 1]]
    OBVIOUS
  <2> QED
    BY <2>1, <2>2
<1>2. ASSUME NEW k \in 1..n, k - 1 \in Done PROVE k \in Done
  <2>1. PICK g \in [0..(k - 1) -> S] : /\ g[0] = b
                                      /\ \A i \in 1..(k - 1) : g[i] = step[i][g[i - 1]]
    BY <1>2
  <2> DEFINE h == [i \in 0..k |-> IF i = k THEN step[k][g[k - 1]] ELSE g[i]]
  <2>2. k \in 1..n /\ k - 1 \in 0..(k - 1) /\ \A i \in 0..k : i # k => i \in 0..(k - 1)
    OBVIOUS
  <2>3. step[k] \in [S -> S] /\ g[k - 1] \in S
    BY <2>2
  <2>4. step[k][g[k - 1]] \in S
    BY <2>3
  <2>5. h \in [0..k -> S]
    BY <2>2, <2>4
  <2>6. h[0] = b
    BY <2>1, <2>2
  <2>7. ASSUME NEW i \in 1..k PROVE h[i] = step[i][h[i - 1]]
    <3>1. i \in 0..k /\ i - 1 \in 0..k /\ i - 1 # k
      OBVIOUS
    <3>2. h[i - 1] = g[i - 1]
      BY <3>1
    <3>3. CASE i = k
      BY <3>1, <3>2, <3>3
    <3>4. CASE i # k
      <4>1. i \in 1..(k - 1) /\ h[i] = g[i]
        BY <3>1, <3>4
      <4> QED
        BY <2>1, <4>1, <3>2
    <3> QED
      BY <3>3, <3>4
  <2>8. k \in 0..n
    OBVIOUS
  <2> QED
    BY <2>5, <2>6, <2>7, <2>8
<1>3. n \in Done
  <2> HIDE DEF Done
  <2>1. \A i \in 0..n : i \in Done
    BY <1>1, <1>2, UpTo
  <2> QED
    BY <2>1
<1> QED
  BY <1>3 DEF FoundInSteps

-----------------------------------------------------------------------------
(* The file and the buffer of stdio. *)

File == Seq(Records \cup {Hole})

(* Put puts the record at its place, moves nothing and fills with holes. *)
LEMMA PutResult ==
  ASSUME NEW s \in File, NEW e \in Entry
  PROVE  LET p == IF e.pos = 0 THEN Len(s) + 1 ELSE e.pos
         IN /\ Put(s, e) \in File
            /\ DOMAIN s \subseteq DOMAIN Put(s, e)
            /\ p \in DOMAIN Put(s, e) /\ Put(s, e)[p] = e.rec
            /\ \A i \in DOMAIN Put(s, e) :
                 i # p => \/ i \in DOMAIN s /\ Put(s, e)[i] = s[i]
                          \/ i \notin DOMAIN s /\ Put(s, e)[i] = Hole
<1> DEFINE l == Len(s)
           p == IF e.pos = 0 THEN l + 1 ELSE e.pos
           m == IF p > l THEN p ELSE l
           put == [i \in 1..m |-> IF i = p THEN e.rec ELSE IF i <= l THEN s[i] ELSE Hole]
<1>1. l \in Nat /\ DOMAIN s = 1..l /\ \A i \in 1..l : s[i] \in Records \cup {Hole}
  BY DEF File
<1>2. e.pos \in Nat /\ e.rec \in Records
  BY DEF Entry
<1>3. Put(s, e) = put
  BY DEF Put
<1> HIDE DEF l
<1>4. p \in Nat /\ p >= 1 /\ m \in Nat /\ l <= m /\ p <= m
  BY <1>1, <1>2
<1> HIDE DEF p, m
<1>5. \A i \in 1..m : put[i] \in Records \cup {Hole}
  BY <1>1, <1>2, <1>4
<1>6. put \in [1..m -> Records \cup {Hole}]
  BY <1>5
<1>7. put \in File
  BY <1>4, <1>6 DEF File
<1>8. DOMAIN put = 1..m /\ 1..l \subseteq 1..m /\ p \in 1..m
  BY <1>1, <1>4
<1>9. put[p] = e.rec
  BY <1>8
<1>10. \A i \in 1..m : i # p => \/ i \in 1..l /\ put[i] = s[i]
                                \/ i \notin 1..l /\ put[i] = Hole
  BY <1>1, <1>4
<1>11. p = IF e.pos = 0 THEN Len(s) + 1 ELSE e.pos
  BY DEF p, l
<1> HIDE DEF put
<1> QED
  BY <1>1, <1>3, <1>7, <1>8, <1>9, <1>10, <1>11, Zenon

(* The stages of a flush: the file before it, and after each entry. *)
LEMMA FlushedStages ==
  ASSUME NEW s \in File, NEW entries \in Seq(Entry)
  PROVE  \E g \in [0..Len(entries) -> File] :
           /\ g[0] = s
           /\ \A i \in 1..Len(entries) : g[i] = Put(g[i - 1], entries[i])
           /\ Flushed(s, entries) = g[Len(entries)]
<1> DEFINE n == Len(entries)
           step == [i \in 1..n |-> [x \in File |-> Put(x, entries[i])]]
           after == CHOOSE after : after = [i \in 0..n |-> IF i = 0 THEN s ELSE Put(after[i - 1], entries[i])]
<1>1. n \in Nat /\ \A i \in 1..n : entries[i] \in Entry
  OBVIOUS
<1>2. Flushed(s, entries) = after[n]
  BY DEF Flushed
<1> HIDE DEF n
<1>3. \A i \in 1..n, x \in File : Put(x, entries[i]) \in File
  BY <1>1, PutResult
<1>4. step \in [1..n -> [File -> File]]
  BY <1>3
<1> HIDE DEF step
<1>5. PICK g \in [0..n -> File] : FoundInSteps(g, n, s, step)
  BY <1>1, <1>4, RecursionExists
<1>6. ASSUME NEW i \in 1..n PROVE g[i - 1] \in File /\ step[i][g[i - 1]] = Put(g[i - 1], entries[i])
  <2>1. i - 1 \in 0..n
    BY <1>1
  <2>2. g[i - 1] \in File
    BY <2>1
  <2> QED
    BY <2>2 DEF step
<1>7. \A i \in 0..n : g[i] = IF i = 0 THEN s ELSE Put(g[i - 1], entries[i])
  <2> SUFFICES ASSUME NEW i \in 0..n PROVE g[i] = IF i = 0 THEN s ELSE Put(g[i - 1], entries[i])
    OBVIOUS
  <2>1. i # 0 => i \in 1..n
    BY <1>1
  <2> QED
    BY <2>1, <1>5, <1>6 DEF FoundInSteps
<1>8. g = [i \in 0..n |-> IF i = 0 THEN s ELSE Put(g[i - 1], entries[i])]
  BY <1>7
<1>9. after = [i \in 0..n |-> IF i = 0 THEN s ELSE Put(after[i - 1], entries[i])]
  BY <1>8
<1> HIDE DEF after
<1>10. \A i \in 0..n : after[i] \in File
  <2> DEFINE S == {i \in 0..n : after[i] \in File}
  <2>1. 0 \in S
    BY <1>1, <1>9
  <2>2. ASSUME NEW i \in 1..n, i - 1 \in S PROVE i \in S
    <3>1. i \in 0..n /\ i # 0
      BY <1>1
    <3>2. after[i] = Put(after[i - 1], entries[i])
      BY <1>9, <3>1
    <3> QED
      BY <1>3, <2>2, <3>1, <3>2
  <2> HIDE DEF S
  <2>3. \A i \in 0..n : i \in S
    BY <1>1, <2>1, <2>2, UpTo
  <2> QED
    BY <2>3 DEF S
<1>11. after \in [0..n -> File]
  BY <1>9, <1>10
<1>12. after[0] = s /\ \A i \in 1..n : after[i] = Put(after[i - 1], entries[i])
  BY <1>1, <1>9
<1> QED
  BY <1>2, <1>11, <1>12 DEF n

(* After a flush each place has a record of the buffer, nothing, or what it *)
(* had; it has what it had when no entry goes there.                        *)
LEMMA FlushedFrom ==
  ASSUME NEW s \in File, NEW entries \in Seq(Entry)
  PROVE  /\ Flushed(s, entries) \in File
         /\ DOMAIN s \subseteq DOMAIN Flushed(s, entries)
         /\ \A j \in DOMAIN Flushed(s, entries) :
              \/ /\ Flushed(s, entries)[j] \in Made(entries)
                 /\ \E i \in DOMAIN entries : entries[i].pos \in {0, j}
              \/ j \notin DOMAIN s /\ Flushed(s, entries)[j] = Hole
              \/ j \in DOMAIN s /\ Flushed(s, entries)[j] = s[j]
         /\ \A j \in DOMAIN s : (\A i \in DOMAIN entries : entries[i].pos # j)
                                  => Flushed(s, entries)[j] = s[j]
<1>1. PICK g \in [0..Len(entries) -> File] :
           /\ g[0] = s
           /\ \A i \in 1..Len(entries) : g[i] = Put(g[i - 1], entries[i])
           /\ Flushed(s, entries) = g[Len(entries)]
  BY FlushedStages
<1> DEFINE n == Len(entries)
           From(t, j) == \/ /\ t[j] \in Made(entries)
                            /\ \E i \in DOMAIN entries : entries[i].pos \in {0, j}
                         \/ j \notin DOMAIN s /\ t[j] = Hole
                         \/ j \in DOMAIN s /\ t[j] = s[j]
           Kept(t, j) == (\A i \in DOMAIN entries : entries[i].pos # j) => t[j] = s[j]
           Sound == {i \in 0..n : /\ DOMAIN s \subseteq DOMAIN g[i]
                                  /\ \A j \in DOMAIN g[i] : From(g[i], j)
                                  /\ \A j \in DOMAIN s : Kept(g[i], j)}
<1>2. n \in Nat /\ DOMAIN entries = 1..n /\ \A i \in 1..n : entries[i] \in Entry
  OBVIOUS
<1> HIDE DEF n
<1>3. 0 \in Sound
  BY <1>1, <1>2
<1>4. ASSUME NEW k \in 1..n, k - 1 \in Sound PROVE k \in Sound
  <2> DEFINE t == g[k - 1]
             e == entries[k]
             u == Put(t, e)
             p == IF e.pos = 0 THEN Len(t) + 1 ELSE e.pos
  <2>1. k \in 0..n /\ k - 1 \in 0..n
    BY <1>2
  <2>2. t \in File /\ e \in Entry /\ e.pos \in Nat
    BY <1>1, <1>2, <2>1 DEF n, Entry
  <2>3. g[k] = u
    BY <1>1 DEF n
  <2>4. /\ DOMAIN s \subseteq DOMAIN t
        /\ \A j \in DOMAIN t : From(t, j)
        /\ \A j \in DOMAIN s : Kept(t, j)
    BY <1>4
  <2> HIDE DEF t, e
  <2>5. /\ u \in File
        /\ DOMAIN t \subseteq DOMAIN u
        /\ p \in DOMAIN u /\ u[p] = e.rec
        /\ \A i \in DOMAIN u : i # p => \/ i \in DOMAIN t /\ u[i] = t[i]
                                        \/ i \notin DOMAIN t /\ u[i] = Hole
    BY <2>2, PutResult
  <2> HIDE DEF u
  <2>6. e.rec \in Made(entries)
    BY <1>2 DEF Made, e
  <2>7. ASSUME NEW j \in DOMAIN u PROVE From(u, j)
    <3>1. CASE j = p
      <4>1. k \in DOMAIN entries /\ entries[k].pos \in {0, j}
        BY <1>2, <3>1 DEF e, p
      <4> QED
        BY <4>1, <3>1, <2>5, <2>6
    <3>2. CASE j # p /\ j \in DOMAIN t /\ u[j] = t[j]
      BY <3>2, <2>4
    <3>3. CASE j # p /\ j \notin DOMAIN t /\ u[j] = Hole
      BY <3>3, <2>4
    <3> HIDE DEF p, From
    <3> QED
      BY <2>5, <3>1, <3>2, <3>3
  <2>8. ASSUME NEW j \in DOMAIN s PROVE Kept(u, j)
    <3>1. j \in DOMAIN t /\ j \in DOMAIN u
      BY <2>4, <2>5
    <3> SUFFICES ASSUME \A i \in DOMAIN entries : entries[i].pos # j PROVE u[j] = s[j]
      OBVIOUS
    <3>2. t[j] = s[j]
      BY <2>4
    <3>3. e.pos # j
      BY <1>2 DEF e
    <3>4. j \in 1..Len(t)
      BY <2>2, <3>1 DEF File
    <3>5. j # p
      BY <2>2, <3>3, <3>4
    <3> QED
      BY <2>5, <3>1, <3>2, <3>5
  <2>9. DOMAIN s \subseteq DOMAIN u
    BY <2>4, <2>5
  <2> HIDE DEF From, Kept
  <2>10. /\ DOMAIN s \subseteq DOMAIN g[k]
         /\ \A j \in DOMAIN g[k] : From(g[k], j)
         /\ \A j \in DOMAIN s : Kept(g[k], j)
    BY <2>3, <2>7, <2>8, <2>9
  <2> QED
    BY <2>1, <2>10
<1>5. n \in Sound
  <2> HIDE DEF Sound
  <2>1. \A i \in 0..n : i \in Sound
    BY <1>2, <1>3, <1>4, UpTo
  <2> QED
    BY <1>2, <2>1
<1>6. g[n] \in File
  BY <1>1, <1>2 DEF n
<1>7. Flushed(s, entries) = g[n]
  BY <1>1 DEF n
<1> QED
  BY <1>5, <1>6, <1>7

(* Entries that all go to the end of the file, or each to a place of its own *)
(* up to top: the first is what EXTEND makes, the second OUTPUT and I-O.     *)
Appending(entries) == \A i \in DOMAIN entries : entries[i].pos = 0

Ascending(entries, top) ==
  \A i \in DOMAIN entries :
    /\ 1 <= entries[i].pos /\ entries[i].pos <= top
    /\ \A k \in DOMAIN entries : i < k => entries[i].pos < entries[k].pos

(* No entry of such a buffer is put over another. *)
LEMMA FlushedHolds ==
  ASSUME NEW s \in File, NEW entries \in Seq(Entry), NEW top \in Int,
         Appending(entries) \/ Ascending(entries, top)
  PROVE  Made(entries) \subseteq ToSet(Flushed(s, entries))
<1>1. PICK g \in [0..Len(entries) -> File] :
           /\ g[0] = s
           /\ \A i \in 1..Len(entries) : g[i] = Put(g[i - 1], entries[i])
           /\ Flushed(s, entries) = g[Len(entries)]
  BY FlushedStages
<1> DEFINE n == Len(entries)
           Holds(t, k) == \E j \in DOMAIN t : t[j] = entries[k].rec /\ entries[k].pos \in {0, j}
           Sound == {i \in 0..n : \A k \in 1..i : Holds(g[i], k)}
<1>2. n \in Nat /\ DOMAIN entries = 1..n /\ \A i \in 1..n : entries[i] \in Entry
  OBVIOUS
<1> HIDE DEF n
<1>3. 0 \in Sound
  BY <1>2
<1>4. ASSUME NEW i \in 1..n, i - 1 \in Sound PROVE i \in Sound
  <2> DEFINE t == g[i - 1]
             e == entries[i]
             u == Put(t, e)
             p == IF e.pos = 0 THEN Len(t) + 1 ELSE e.pos
  <2>1. i \in 0..n /\ i - 1 \in 0..n
    BY <1>2
  <2>2. t \in File /\ e \in Entry /\ e.pos \in Nat
    BY <1>1, <1>2, <2>1 DEF n, Entry
  <2>3. g[i] = u
    BY <1>1 DEF n
  <2>4. \A k \in 1..(i - 1) : Holds(t, k)
    BY <1>4
  <2> HIDE DEF t
  <2>5. /\ DOMAIN t \subseteq DOMAIN u
        /\ p \in DOMAIN u /\ u[p] = e.rec
        /\ \A j \in DOMAIN u : j # p => \/ j \in DOMAIN t /\ u[j] = t[j]
                                        \/ j \notin DOMAIN t /\ u[j] = Hole
    <3> HIDE DEF e
    <3> QED
      BY <2>2, PutResult
  <2> HIDE DEF u
  <2>6. ASSUME NEW k \in 1..i PROVE Holds(u, k)
    <3>1. CASE k = i
      <4>1. e.pos \in {0, p}
        BY <2>2
      <4> QED
        BY <3>1, <4>1, <2>5
    <3>2. CASE k # i
      <4>1. k \in 1..(i - 1) /\ k \in 1..n /\ k < i
        BY <1>2, <3>2
      <4>2. PICK j \in DOMAIN t : t[j] = entries[k].rec /\ entries[k].pos \in {0, j}
        BY <4>1, <2>4
      <4>3. j \in 1..Len(t)
        BY <2>2, <4>2 DEF File
      <4>4. CASE Appending(entries)
        <5>1. e.pos = 0
          BY <1>2, <4>4 DEF Appending
        <5>2. j # p
          BY <2>2, <4>3, <5>1 DEF File
        <5> QED
          BY <2>5, <4>2, <5>2
      <4>5. CASE Ascending(entries, top)
        <5>1. 1 <= entries[k].pos /\ entries[k].pos < e.pos
          BY <1>2, <4>1, <4>5 DEF Ascending
        <5>2. entries[k].pos = j /\ j < e.pos
          BY <5>1, <4>2
        <5>3. j # p
          BY <2>2, <4>3, <5>2 DEF File
        <5> QED
          BY <2>5, <4>2, <5>3
      <4> QED
        BY <4>4, <4>5
    <3> QED
      BY <3>1, <3>2
  <2> HIDE DEF Holds
  <2> QED
    BY <2>1, <2>3, <2>6
<1>5. n \in Sound
  <2> HIDE DEF Sound
  <2>1. \A i \in 0..n : i \in Sound
    BY <1>2, <1>3, <1>4, UpTo
  <2> QED
    BY <1>2, <2>1
<1>6. ASSUME NEW x \in Made(entries) PROVE x \in ToSet(g[n])
  <2>1. PICK k \in 1..n : x = entries[k].rec
    BY <1>2 DEF Made
  <2>2. Holds(g[n], k)
    BY <1>5
  <2> QED
    BY <2>1, <2>2 DEF ToSet
<1> QED
  BY <1>1, <1>6 DEF n

(* A place that an entry is about to write over has no record of the kept    *)
(* ones, or the one that the entry is to replace.                            *)
Spared(entries, file, kept) ==
  \A i \in DOMAIN entries :
    LET p == entries[i].pos
    IN p \in DOMAIN file /\ file[p] \in kept => file[p] = entries[i].old

(* Such entries destroy nothing else. *)
LEMMA FlushedKeeps ==
  ASSUME NEW s \in File, NEW entries \in Seq(Entry), NEW top \in Int, NEW kept,
         Appending(entries) \/ Ascending(entries, top),
         kept \subseteq ToSet(s), Spared(entries, s, kept)
  PROVE  (kept \ Taken(entries)) \cup Made(entries) \subseteq ToSet(Flushed(s, entries))
<1>1. Made(entries) \subseteq ToSet(Flushed(s, entries))
  BY FlushedHolds
<1>2. ASSUME NEW x \in kept, x \notin Taken(entries) PROVE x \in ToSet(Flushed(s, entries))
  <2>1. PICK j \in DOMAIN s : x = s[j]
    BY <1>2 DEF ToSet
  <2>2. \A i \in DOMAIN entries : entries[i].pos # j
    BY <1>2, <2>1 DEF Spared, Taken
  <2>3. j \in DOMAIN Flushed(s, entries) /\ Flushed(s, entries)[j] = s[j]
    BY <2>2, FlushedFrom
  <2> QED
    BY <2>1, <2>3 DEF ToSet
<1> QED
  BY <1>1, <1>2

(* Entries up to top keep what is to stand up to top. *)
LEMMA FlushedBelow ==
  ASSUME NEW s \in File, NEW entries \in Seq(Entry), NEW top \in Int, Ascending(entries, top),
         NEW kept, \A j \in DOMAIN s : s[j] \in kept => j <= top,
         NEW after \in SUBSET Records, after \subseteq kept \cup Made(entries),
         \A x \in Made(entries) : x \notin ToSet(s)
  PROVE  \A j \in DOMAIN Flushed(s, entries) : Flushed(s, entries)[j] \in after => j <= top
<1> SUFFICES ASSUME NEW j \in DOMAIN Flushed(s, entries), Flushed(s, entries)[j] \in after
             PROVE  j <= top
  OBVIOUS
<1>1. CASE \E i \in DOMAIN entries : entries[i].pos \in {0, j}
  <2>1. PICK i \in DOMAIN entries : entries[i].pos \in {0, j}
    BY <1>1
  <2>2. 1 <= entries[i].pos /\ entries[i].pos <= top
    BY DEF Ascending
  <2> QED
    BY <2>1, <2>2
<1>2. CASE Flushed(s, entries)[j] = Hole
  <2>1. Hole \notin Records
    BY NamesAssumption DEF Hole, Records
  <2> QED
    BY <1>2, <2>1
<1>3. CASE j \in DOMAIN s /\ Flushed(s, entries)[j] = s[j]
  <2>1. s[j] \in ToSet(s)
    BY <1>3 DEF ToSet
  <2>2. s[j] \in kept
    BY <1>3, <2>1
  <2> QED
    BY <1>3, <2>2
<1> QED
  BY <1>1, <1>2, <1>3, FlushedFrom

(* What is in the file after a flush. *)
LEMMA FlushedSet ==
  ASSUME NEW s \in File, NEW entries \in Seq(Entry)
  PROVE  ToSet(Flushed(s, entries)) \subseteq ToSet(s) \cup Made(entries) \cup {Hole}
BY FlushedFrom DEF ToSet

(* An empty buffer changes nothing. *)
LEMMA FlushedNothing ==
  ASSUME NEW s \in File
  PROVE  Flushed(s, <<>>) = s /\ Made(<<>>) = {} /\ Taken(<<>>) = {}
<1> DEFINE none == <<>>
<1>1. none \in Seq(Entry) /\ Len(none) = 0 /\ DOMAIN none = {}
  OBVIOUS
<1> HIDE DEF none
<1>2. Flushed(s, none) = s
  <2>1. PICK g \in [0..Len(none) -> File] :
           /\ g[0] = s
           /\ \A i \in 1..Len(none) : g[i] = Put(g[i - 1], none[i])
           /\ Flushed(s, none) = g[Len(none)]
    BY <1>1, FlushedStages, Zenon
  <2> QED
    BY <1>1, <2>1
<1>3. Made(none) = {} /\ Taken(none) = {}
  BY <1>1 DEF Made, Taken
<1> QED
  BY <1>2, <1>3 DEF none

(* COMMIT, ROLLBACK and UNLOCK: what is in the file after them. *)
LEMMA FlushedAllResult ==
  ASSUME TypeOK, NEW order \in Seq(Connectors)
  PROVE  /\ FlushedAll(order) \in File
         /\ ToSet(FlushedAll(order)) \subseteq
              ToSet(contents) \cup {Hole} \cup UNION {Made(buffer[c]) : c \in ToSet(order)}
         /\ Len(order) = 1 => FlushedAll(order) = Flushed(contents, buffer[order[1]])
         /\ Len(order) = 0 => FlushedAll(order) = contents
<1> DEFINE n == Len(order)
           entries(i) == buffer[order[i]]
           step == [i \in 1..n |-> [x \in File |-> Flushed(x, entries(i))]]
           after == CHOOSE after : after = [i \in 0..n |-> IF i = 0 THEN contents ELSE Flushed(after[i - 1], entries(i))]
           all == ToSet(contents) \cup {Hole} \cup UNION {Made(buffer[c]) : c \in ToSet(order)}
<1>1. n \in Nat /\ \A i \in 1..n : order[i] \in Connectors /\ order[i] \in ToSet(order)
  BY DEF ToSet
<1>2. contents \in File /\ \A i \in 1..n : entries(i) \in Seq(Entry) /\ Made(entries(i)) \subseteq all
  BY <1>1 DEF TypeOK, File
<1>3. FlushedAll(order) = after[n]
  BY DEF FlushedAll
<1> HIDE DEF n, entries
<1>4. \A i \in 1..n, x \in File : /\ Flushed(x, entries(i)) \in File
                                  /\ ToSet(Flushed(x, entries(i))) \subseteq ToSet(x) \cup Made(entries(i)) \cup {Hole}
  BY <1>2, FlushedFrom, FlushedSet
<1>5. step \in [1..n -> [File -> File]]
  BY <1>4
<1> HIDE DEF step
<1>6. PICK g \in [0..n -> File] : FoundInSteps(g, n, contents, step)
  <2> HIDE DEF after
  <2> QED
    BY <1>1, <1>2, <1>5, RecursionExists
<1>7. ASSUME NEW i \in 1..n PROVE g[i - 1] \in File /\ step[i][g[i - 1]] = Flushed(g[i - 1], entries(i))
  <2>1. i - 1 \in 0..n
    BY <1>1
  <2>2. g[i - 1] \in File
    BY <2>1
  <2> QED
    BY <2>2 DEF step
<1>8. \A i \in 0..n : g[i] = IF i = 0 THEN contents ELSE Flushed(g[i - 1], entries(i))
  <2> SUFFICES ASSUME NEW i \in 0..n PROVE g[i] = IF i = 0 THEN contents ELSE Flushed(g[i - 1], entries(i))
    OBVIOUS
  <2>1. i # 0 => i \in 1..n
    BY <1>1
  <2> QED
    BY <2>1, <1>6, <1>7 DEF FoundInSteps
<1>9. g = [i \in 0..n |-> IF i = 0 THEN contents ELSE Flushed(g[i - 1], entries(i))]
  BY <1>8
<1>10. after = [i \in 0..n |-> IF i = 0 THEN contents ELSE Flushed(after[i - 1], entries(i))]
  BY <1>9
<1> HIDE DEF after, all
<1>11. \A i \in 0..n : after[i] \in File /\ ToSet(after[i]) \subseteq all
  <2> DEFINE S == {i \in 0..n : after[i] \in File /\ ToSet(after[i]) \subseteq all}
  <2>1. 0 \in S
    BY <1>1, <1>2, <1>10 DEF all
  <2>2. ASSUME NEW i \in 1..n, i - 1 \in S PROVE i \in S
    <3>1. i \in 0..n /\ i # 0
      BY <1>1
    <3>2. after[i] = Flushed(after[i - 1], entries(i))
      BY <1>10, <3>1
    <3>3. after[i - 1] \in File /\ ToSet(after[i - 1]) \subseteq all
      BY <2>2
    <3>4. Made(entries(i)) \subseteq all /\ Hole \in all
      BY <1>2 DEF all
    <3> QED
      BY <1>4, <3>1, <3>2, <3>3, <3>4
  <2> HIDE DEF S
  <2>3. \A i \in 0..n : i \in S
    BY <1>1, <2>1, <2>2, UpTo
  <2> QED
    BY <2>3 DEF S
<1>12. n = 1 => after[n] = Flushed(contents, entries(1))
  BY <1>10
<1>13. n = 0 => after[n] = contents
  BY <1>10
<1>14. after[n] \in File /\ ToSet(after[n]) \subseteq all
  BY <1>1, <1>11
<1> QED
  BY <1>3, <1>12, <1>13, <1>14 DEF n, entries, all

-----------------------------------------------------------------------------
(* The inductive invariant. *)

(* What an OPEN or CLOSE that is half done says of its connector. *)
Opening(r) ==
  /\ doing[r].op = "OPEN"
  /\ doing[r].conn \in Of(r)
  /\ doing[r].mode \in Modes
  /\ doing[r].mode # "INPUT" => doing[r].sharing
  /\ mode[doing[r].conn] = "CLOSED"
  /\ setup.apart => \A d \in Of(r) : mode[d] = "CLOSED"

Closing(r) ==
  /\ doing[r].op = "CLOSE"
  /\ doing[r].conn \in Of(r)
  /\ mode[doing[r].conn] # "CLOSED"

UnderWay ==
  /\ \A c \in Connectors : mode[c] # "CLOSED" => c \in setup.used
  /\ \A r \in RunUnits : doing[r] = Idle \/ Opening(r) \/ Closing(r)
  /\ setup.apart => \A c, d \in Connectors :
       OwnerOf[c] = OwnerOf[d] /\ mode[c] # "CLOSED" /\ mode[d] # "CLOSED" => c = d

(* A careful program has a lock while it uses the file, and a write lock when *)
(* it may write; the kernel grants a write lock to one process only.          *)
LocksHeld ==
  Careful =>
    /\ \A c \in Connectors : Using(c) => /\ lock[OwnerOf[c]] # "none"
                                         /\ mode[c] # "INPUT" => lock[OwnerOf[c]] = "write"
    /\ \A q, r \in RunUnits : q # r /\ lock[q] = "write" => lock[r] = "none"

(* A record in a buffer is a new one: it is not in the file yet. *)
Named ==
  \A c \in Connectors :
    /\ \A x \in standing \cup ToSet(contents) : x[1] = c => x[2] <= written[c]
    /\ \A i \in DOMAIN buffer[c] :
         /\ buffer[c][i].rec[1] = c /\ buffer[c][i].rec[2] <= written[c]
         /\ buffer[c][i].rec \notin standing \cup ToSet(contents)

(* Where the records of a buffer are to go. *)
Placed ==
  \A c \in Connectors :
    /\ mode[c] = "EXTEND" => Appending(buffer[c])
    /\ mode[c] \in {"OUTPUT", "I-O"} => Ascending(buffer[c], at[c])
    /\ c \in read_done => mode[c] = "I-O" /\ 1 <= at[c] /\ Ascending(buffer[c], at[c] - 1)

(* What a careful program has in its buffer takes the place of nothing but    *)
(* what its REWRITEs are to replace; its OUTPUT is ahead of what is to stand. *)
Sheltered ==
  Careful => \A c \in Connectors : Using(c) =>
    /\ Spared(buffer[c], contents, standing)
    /\ mode[c] = "OUTPUT" => \A j \in DOMAIN contents : contents[j] \in standing => j <= at[c]

(* No REWRITE after the start of a CLOSE. *)
Unread == \A r \in RunUnits : doing[r].op = "CLOSE" => doing[r].conn \notin read_done

IInv == /\ TypeOK /\ UnderWay /\ LocksHeld /\ Unread
        /\ Named /\ Placed /\ Sheltered /\ RecordsStand

(* The parts of an entry of a buffer. *)
LEMMA EntryFacts ==
  ASSUME NEW entries \in Seq(Entry), NEW i \in DOMAIN entries
  PROVE  entries[i] \in Entry /\ entries[i].pos \in Nat /\ entries[i].rec \in Records
<1>1. entries[i] \in Entry
  OBVIOUS
<1> QED
  BY <1>1 DEF Entry

(* The connectors of a run unit, and the buffers. *)
LEMMA Basics ==
  ASSUME TypeOK
  PROVE  /\ \A c \in Connectors : OwnerOf[c] \in RunUnits
         /\ \A r \in RunUnits : Of(r) \subseteq Connectors /\ \A c \in Of(r) : OwnerOf[c] = r
         /\ setup.used \subseteq Connectors
         /\ setup.exclusive \in BOOLEAN /\ setup.apart \in BOOLEAN
         /\ contents \in File
         /\ \A c \in Connectors : /\ buffer[c] \in Seq(Entry)
                                  /\ Made(buffer[c]) \subseteq Records
                                  /\ mode[c] = "INPUT" => buffer[c] = <<>>
                                  /\ mode[c] = "CLOSED" => buffer[c] = <<>>
<1>1. /\ \A c \in Connectors : OwnerOf[c] \in RunUnits
      /\ setup.used \subseteq Connectors
      /\ setup.exclusive \in BOOLEAN /\ setup.apart \in BOOLEAN
  BY SharingAssumption DEF TypeOK, Setup
<1>2. \A r \in RunUnits : Of(r) \subseteq Connectors /\ \A c \in Of(r) : OwnerOf[c] = r
  BY <1>1 DEF Of
<1>3. contents \in File
  BY DEF TypeOK, File
<1>4. ASSUME NEW c \in Connectors
      PROVE  /\ buffer[c] \in Seq(Entry)
             /\ Made(buffer[c]) \subseteq Records
             /\ mode[c] = "INPUT" => buffer[c] = <<>>
             /\ mode[c] = "CLOSED" => buffer[c] = <<>>
  <2>1. buffer[c] \in Seq(Entry)
    BY DEF TypeOK
  <2>2. \A i \in DOMAIN buffer[c] : buffer[c][i] \in Entry
    BY <2>1
  <2>3. Made(buffer[c]) \subseteq Records
    BY <2>2 DEF Made, Entry
  <2>4. mode[c] \in {"INPUT", "CLOSED"} => buffer[c] = <<>>
    BY DEF TypeOK
  <2> QED
    BY <2>1, <2>3, <2>4
<1> QED
  BY <1>1, <1>2, <1>3, <1>4

(* Two connectors that are used at the same time are for INPUT, both. *)
LEMMA UsersShare ==
  ASSUME TypeOK, UnderWay, LocksHeld, Careful,
         NEW c \in Connectors, NEW d \in Connectors, c # d, Using(c), Using(d)
  PROVE  mode[c] = "INPUT"
<1>1. OwnerOf[c] # OwnerOf[d]
  BY DEF UnderWay, Careful, Using
<1>2. lock[OwnerOf[d]] # "none"
  BY DEF LocksHeld
<1>3. ~(lock[OwnerOf[c]] = "write")
  BY <1>1, <1>2, Basics DEF LocksHeld
<1> QED
  BY <1>3 DEF LocksHeld

(* A run unit that does not open or close has no Idle look-alike. *)
LEMMA IdleFacts ==
  /\ Idle.op = "none"
  /\ Idle.conn = "none"
  /\ Idle.sharing = FALSE
BY DEF Idle

(* An empty buffer is in order, whatever the file. *)
LEMMA EmptyBuffer ==
  ASSUME NEW top, NEW file, NEW kept
  PROVE  Appending(<<>>) /\ Ascending(<<>>, top) /\ Spared(<<>>, file, kept)
<1> DEFINE none == <<>>
<1>1. DOMAIN none = {}
  OBVIOUS
<1> HIDE DEF none
<1>2. Appending(none) /\ Ascending(none, top) /\ Spared(none, file, kept)
  BY <1>1 DEF Appending, Ascending, Spared
<1> QED
  BY <1>2 DEF none

(* The file with the record that was there before. *)
LEMMA InitHolds == Init => IInv
<1> SUFFICES ASSUME Init PROVE IInv
  OBVIOUS
<1> DEFINE first == <<"before", 1>>
<1>1. first \in Records /\ first[1] = "before" /\ first \in Records \cup {Hole}
  BY DEF Records
<1>2. contents = <<first>> /\ standing = {first} /\ ToSet(contents) = {first}
  BY DEF Init, ToSet
<1> HIDE DEF first
<1>3. TypeOK
  <2>1. contents \in Seq(Records \cup {Hole})
    BY <1>1, <1>2
  <2>2. Idle \in [op : {"none", "OPEN", "CLOSE"}, conn : Connectors \cup {"none"},
                  mode : Modes \cup {"CLOSED"}, sharing : BOOLEAN]
    BY DEF Idle
  <2>3. doing \in [RunUnits -> [op : {"none", "OPEN", "CLOSE"}, conn : Connectors \cup {"none"},
                                mode : Modes \cup {"CLOSED"}, sharing : BOOLEAN]]
    BY <2>2 DEF Init
  <2>4. \A r \in RunUnits : doing[r].op # "CLOSE"
    BY DEF Init, Idle
  <2>5. buffer \in [Connectors -> Seq(Entry)]
    BY DEF Init
  <2>6. /\ lock \in [RunUnits -> {"none", "read", "write"}]
        /\ mode \in [Connectors -> Modes \cup {"CLOSED"}]
        /\ at \in [Connectors -> Nat]
        /\ read_done \subseteq Connectors
        /\ written \in [Connectors -> Nat]
        /\ setup \in Setup
    BY SharingAssumption DEF Init, Modes
  <2>7. standing \subseteq Records
    BY <1>1, <1>2
  <2>8. \A c \in Connectors : buffer[c] = <<>>
    BY DEF Init
  <2> QED
    BY <2>1, <2>3, <2>4, <2>5, <2>6, <2>7, <2>8 DEF TypeOK
<1>4. UnderWay
  BY DEF Init, UnderWay
<1>5. LocksHeld
  BY DEF Init, LocksHeld, Using
<1>10. Unread
  BY DEF Init, Unread
<1>6. Named
  <2>1. \A c \in Connectors : DOMAIN buffer[c] = {}
    BY DEF Init
  <2>2. \A c \in Connectors : c # "before"
    BY NamesAssumption
  <2> QED
    BY <1>1, <1>2, <2>1, <2>2 DEF Named
<1>7. Placed
  BY DEF Init, Placed
<1>8. Sheltered
  BY DEF Init, Sheltered, Using
<1>9. RecordsStand
  BY <1>2 DEF RecordsStand
<1> QED
  BY <1>3, <1>4, <1>5, <1>6, <1>7, <1>8, <1>9, <1>10 DEF IInv

-----------------------------------------------------------------------------
(* The steps of OPEN. *)

(* The first step of OPEN keeps the invariant. *)
LEMMA OpenFileKeeps ==
  ASSUME IInv, NEW c \in Connectors, NEW m \in Modes, NEW noOther \in BOOLEAN, OpenFile(c, m, noOther)
  PROVE  IInv'
<1> DEFINE o == OwnerOf[c]
           d == [op |-> "OPEN", conn |-> c, mode |-> m, sharing |-> noOther]
<1> USE DEF IInv
<1>1. o \in RunUnits /\ c \in setup.used /\ c \in Of(o)
  BY Basics DEF OpenFile, Ready, Of
<1>2. /\ mode[c] = "CLOSED" /\ doing[o] = Idle /\ (m # "INPUT" => noOther)
      /\ setup.apart => \A e \in Of(o) : mode[e] = "CLOSED"
      /\ doing' = [doing EXCEPT ![o] = d]
      /\ lock' = lock /\ mode' = mode /\ read_done' = read_done /\ buffer' = buffer
      /\ written' = written /\ setup' = setup
  BY DEF OpenFile, Ready
<1>3. \/ contents' = contents /\ standing' = standing
      \/ contents' = <<>> /\ standing' = {}
  BY DEF OpenFile
<1>4. contents' \in Seq(Records \cup {Hole}) /\ standing' \subseteq Records
  <2>1. <<>> \in Seq(Records \cup {Hole})
    OBVIOUS
  <2> QED
    BY <2>1, <1>3 DEF TypeOK
<1>5. at' \in [Connectors -> Nat] /\ \A e \in Connectors : e # c => at'[e] = at[e]
  <2>1. Len(contents) \in Nat
    BY DEF TypeOK
  <2> QED
    BY <2>1 DEF OpenFile, TypeOK
<1>6. /\ doing' \in [RunUnits -> [op : {"none", "OPEN", "CLOSE"}, conn : Connectors \cup {"none"},
                                  mode : Modes \cup {"CLOSED"}, sharing : BOOLEAN]]
      /\ doing'[o] = d /\ \A r \in RunUnits : r # o => doing'[r] = doing[r]
  <2>1. d \in [op : {"none", "OPEN", "CLOSE"}, conn : Connectors \cup {"none"},
               mode : Modes \cup {"CLOSED"}, sharing : BOOLEAN]
    OBVIOUS
  <2> HIDE DEF d
  <2> QED
    BY <1>1, <1>2, <2>1 DEF TypeOK
<1>7. TypeOK'
  BY <1>2, <1>4, <1>5, <1>6 DEF TypeOK
<1>8. \A e \in Connectors : Using(e)' = Using(e)
  BY <1>1, <1>2, <1>6, IdleFacts, Basics DEF Using
<1>9. UnderWay'
  <2>1. Opening(o)'
    BY <1>1, <1>2, <1>6 DEF Opening, Of
  <2>2. ASSUME NEW r \in RunUnits PROVE (doing[r] = Idle \/ Opening(r) \/ Closing(r))'
    <3>1. CASE r # o
      BY <3>1, <1>2, <1>6 DEF UnderWay, Opening, Closing, Of
    <3> QED
      BY <2>1, <3>1
  <2> QED
    BY <2>2, <1>2 DEF UnderWay
<1>10. LocksHeld'
  BY <1>2, <1>8 DEF LocksHeld, Careful
<1>11. standing' \cup ToSet(contents') \subseteq standing \cup ToSet(contents)
  <2>1. ToSet(<<>>) = {}
    BY DEF ToSet
  <2> QED
    BY <1>3, <2>1
<1>12. Named'
  BY <1>2, <1>11 DEF Named
<1>13. buffer[c] = <<>> /\ c \notin read_done
  BY <1>2, Basics DEF Placed
<1>14. Placed'
  BY <1>2, <1>5, <1>13 DEF Placed, Appending, Ascending
<1>15. Sheltered'
  <2>1. ~Using(c)
    BY <1>2 DEF Using
  <2>2. ASSUME Careful, NEW e \in Connectors, Using(e)
        PROVE /\ Spared(buffer[e], contents', standing')
              /\ mode[e] = "OUTPUT" => \A j \in DOMAIN contents' : contents'[j] \in standing' => j <= at'[e]
    <3>1. e # c
      BY <2>1, <2>2
    <3>2. at'[e] = at[e]
      BY <1>5, <3>1
    <3>3. /\ Spared(buffer[e], contents, standing)
          /\ mode[e] = "OUTPUT" => \A j \in DOMAIN contents : contents[j] \in standing => j <= at[e]
      BY <2>2 DEF Sheltered
    <3>4. CASE contents' = <<>> /\ standing' = {}
      BY <3>4 DEF Spared
    <3> QED
      BY <1>3, <3>2, <3>3, <3>4
  <2> QED
    BY <1>2, <1>8, <2>2 DEF Sheltered, Careful, Spared
<1>16. RecordsStand'
  <2>1. CASE contents' = <<>> /\ standing' = {}
    BY <2>1 DEF RecordsStand
  <2>2. CASE contents' = contents /\ standing' = standing
    BY <1>2, <2>2 DEF RecordsStand, Careful
  <2> QED
    BY <1>3, <2>1, <2>2
<1>17. Unread'
  BY <1>1, <1>2, <1>6 DEF Unread
<1> QED
  BY <1>7, <1>9, <1>10, <1>12, <1>14, <1>15, <1>16, <1>17

(* The lock is refused, and the file closed again, or granted. *)
LEMMA LockFileKeeps ==
  ASSUME IInv, NEW r \in RunUnits, LockFile(r)
  PROVE  IInv'
<1> DEFINE c == doing[r].conn
           m == doing[r].mode
           t == LockType(doing[r])
<1> USE DEF IInv
<1>1. /\ Opening(r) /\ c \in setup.used /\ c \in Connectors /\ OwnerOf[c] = r /\ m \in Modes
      /\ m # "INPUT" => t = "write"
      /\ t \in {"read", "write"}
  <2>1. Opening(r)
    BY DEF LockFile, UnderWay, Closing, Idle
  <2>2. c \in setup.used /\ OwnerOf[c] = r
    BY <2>1 DEF Opening, Of
  <2> QED
    BY <2>1, <2>2, Basics DEF Opening, LockType
<1>2. /\ lock' = [lock EXCEPT ![r] = IF Granted(r) THEN t ELSE "none"]
      /\ mode' = IF Granted(r) THEN [mode EXCEPT ![c] = m] ELSE mode
      /\ standing' = IF Granted(r) /\ m = "OUTPUT" THEN {} ELSE standing
      /\ doing' = [doing EXCEPT ![r] = Idle]
      /\ contents' = contents /\ at' = at /\ read_done' = read_done /\ buffer' = buffer
      /\ written' = written /\ setup' = setup
  BY DEF LockFile
<1>3. mode[c] = "CLOSED" /\ buffer[c] = <<>> /\ c \notin read_done
  BY <1>1, Basics DEF Opening, Placed
<1> HIDE DEF c, m, t
<1>4. /\ Idle \in [op : {"none", "OPEN", "CLOSE"}, conn : Connectors \cup {"none"},
                   mode : Modes \cup {"CLOSED"}, sharing : BOOLEAN]
      /\ Idle.op = "none"
  BY DEF Idle
<1>5. /\ doing' \in [RunUnits -> [op : {"none", "OPEN", "CLOSE"}, conn : Connectors \cup {"none"},
                                  mode : Modes \cup {"CLOSED"}, sharing : BOOLEAN]]
      /\ doing'[r] = Idle /\ \A q \in RunUnits : q # r => doing'[q] = doing[q]
  BY <1>2, <1>4 DEF TypeOK
<1>6. /\ mode' \in [Connectors -> Modes \cup {"CLOSED"}]
      /\ mode'[c] = IF Granted(r) THEN m ELSE "CLOSED"
      /\ \A d \in Connectors : d # c => mode'[d] = mode[d]
  BY <1>1, <1>2, <1>3 DEF TypeOK
<1>7. /\ lock' \in [RunUnits -> {"none", "read", "write"}]
      /\ lock'[r] = IF Granted(r) THEN t ELSE "none"
      /\ \A q \in RunUnits : q # r => lock'[q] = lock[q]
  BY <1>1, <1>2 DEF TypeOK
<1>8. standing' \subseteq standing
  BY <1>2
<1>9. TypeOK'
  <2>1. \A d \in Connectors : mode'[d] \in {"CLOSED", "INPUT"} => buffer'[d] = <<>>
    BY <1>2, <1>3, <1>6, Basics
  <2>2. ASSUME NEW q \in RunUnits, doing'[q].op = "CLOSE" PROVE lock'[q] = "none"
    <3>1. q # r
      BY <1>4, <1>5, <2>2
    <3>2. doing[q].op = "CLOSE" /\ lock'[q] = lock[q]
      BY <1>5, <1>7, <2>2, <3>1
    <3> QED
      BY <3>2 DEF TypeOK
  <2> QED
    BY <1>2, <1>5, <1>6, <1>7, <1>8, <2>1, <2>2 DEF TypeOK
<1>10. UnderWay'
  <2>1. \A d \in Connectors : mode'[d] # "CLOSED" => d \in setup.used
    BY <1>1, <1>6 DEF UnderWay
  <2>2. ASSUME NEW q \in RunUnits PROVE (doing[q] = Idle \/ Opening(q) \/ Closing(q))'
    <3>1. CASE q = r
      BY <3>1, <1>5
    <3>2. CASE q # r
      <4>1. \A d \in Of(q) : mode'[d] = mode[d]
        BY <1>1, <1>6, <3>2, Basics
      <4>2. doing'[q] = doing[q] /\ Of(q)' = Of(q)
        BY <1>2, <1>5, <3>2 DEF Of
      <4>3. doing[q] = Idle \/ Opening(q) \/ Closing(q)
        BY DEF UnderWay
      <4>4. Opening(q) => Opening(q)'
        BY <1>2, <4>1, <4>2 DEF Opening
      <4>5. Closing(q) => Closing(q)'
        BY <4>1, <4>2 DEF Closing
      <4> QED
        BY <4>2, <4>3, <4>4, <4>5
    <3> QED
      BY <3>1, <3>2
  <2>3. ASSUME setup.apart, NEW d \in Connectors, NEW e \in Connectors,
               OwnerOf[d] = OwnerOf[e], mode'[d] # "CLOSED", mode'[e] # "CLOSED"
        PROVE  d = e
    <3>1. \A x \in Of(r) : mode[x] = "CLOSED"
      BY <1>1, <2>3 DEF Opening
    <3>2. d \in setup.used /\ e \in setup.used
      BY <2>1, <2>3
    <3>3. CASE OwnerOf[d] = r
      <4>1. d \in Of(r) /\ e \in Of(r)
        BY <2>3, <3>2, <3>3 DEF Of
      <4> QED
        BY <1>6, <2>3, <3>1, <4>1
    <3>4. CASE OwnerOf[d] # r
      BY <1>1, <1>6, <2>3, <3>4 DEF UnderWay
    <3> QED
      BY <3>3, <3>4
  <2> QED
    BY <1>2, <2>1, <2>2, <2>3 DEF UnderWay
<1>11. ASSUME Careful, NEW d \in Connectors, Using(d)'
       PROVE  IF d = c THEN Granted(r) /\ mode'[c] = m
              ELSE OwnerOf[d] # r /\ Using(d) /\ mode'[d] = mode[d]
  <2>1. mode'[d] # "CLOSED"
    BY <1>11 DEF Using
  <2>2. CASE d = c
    BY <1>6, <2>1, <2>2
  <2>3. CASE d # c
    <3>1. mode'[d] = mode[d]
      BY <1>6, <2>3
    <3>2. d \in setup.used
      BY <2>1, <3>1 DEF UnderWay
    <3>3. OwnerOf[d] # r
      <4>1. SUFFICES ASSUME OwnerOf[d] = r PROVE FALSE
        OBVIOUS
      <4>2. d \in Of(r)
        BY <3>2, <4>1 DEF Of
      <4> QED
        BY <1>1, <1>11, <2>1, <3>1, <4>2 DEF Opening, Careful
    <3>4. Using(d)
      BY <1>5, <1>11, <3>1, <3>3, Basics DEF Using
    <3> QED
      BY <2>3, <3>1, <3>3, <3>4
  <2> QED
    BY <2>2, <2>3
<1>12. LocksHeld'
  <2> SUFFICES ASSUME Careful PROVE
         /\ \A d \in Connectors : Using(d)' => /\ lock'[OwnerOf[d]] # "none"
                                               /\ mode'[d] # "INPUT" => lock'[OwnerOf[d]] = "write"
         /\ \A q, p \in RunUnits : q # p /\ lock'[q] = "write" => lock'[p] = "none"
    BY <1>2 DEF LocksHeld, Careful
  <2>1. ASSUME NEW d \in Connectors, Using(d)'
        PROVE lock'[OwnerOf[d]] # "none" /\ (mode'[d] # "INPUT" => lock'[OwnerOf[d]] = "write")
    <3>1. CASE d = c
      <4>1. Granted(r) /\ mode'[c] = m
        BY <1>11, <2>1, <3>1
      <4> QED
        BY <1>1, <1>7, <3>1, <4>1
    <3>2. CASE d # c
      <4>1. OwnerOf[d] # r /\ Using(d) /\ mode'[d] = mode[d]
        BY <1>11, <2>1, <3>2
      <4> QED
        BY <1>7, <4>1, Basics DEF LocksHeld
    <3> QED
      BY <3>1, <3>2
  <2>2. ASSUME NEW q \in RunUnits, NEW p \in RunUnits, q # p, lock'[q] = "write"
        PROVE lock'[p] = "none"
    <3>1. Granted(r) => \A x \in RunUnits : x # r =>
             lock[x] = "none" \/ (lock[x] = "read" /\ t = "read")
      BY DEF Granted, t
    <3>2. CASE q = r
      BY <1>7, <2>2, <3>1, <3>2
    <3>3. CASE q # r /\ p = r
      BY <1>7, <2>2, <3>1, <3>3
    <3>4. CASE q # r /\ p # r
      BY <1>7, <2>2, <3>4 DEF LocksHeld
    <3> QED
      BY <3>2, <3>3, <3>4
  <2> QED
    BY <2>1, <2>2
<1>13. Named'
  BY <1>2, <1>8 DEF Named
<1>14. Placed'
  <2>1. ASSUME NEW d \in Connectors
        PROVE  /\ mode'[d] = "EXTEND" => Appending(buffer[d])
               /\ mode'[d] \in {"OUTPUT", "I-O"} => Ascending(buffer[d], at[d])
               /\ d \in read_done => mode'[d] = "I-O" /\ 1 <= at[d] /\ Ascending(buffer[d], at[d] - 1)
    <3>1. CASE d = c
      BY <1>3, <3>1, EmptyBuffer
    <3>2. CASE d # c
      BY <1>6, <3>2 DEF Placed
    <3> QED
      BY <3>1, <3>2
  <2> QED
    BY <1>2, <2>1 DEF Placed, Appending, Ascending
<1>15. Sheltered'
  <2>1. ASSUME Careful, NEW d \in Connectors, Using(d)'
        PROVE /\ Spared(buffer[d], contents, standing')
              /\ mode'[d] = "OUTPUT" => \A j \in DOMAIN contents : contents[j] \in standing' => j <= at[d]
    <3>1. CASE d = c
      <4>1. Granted(r) /\ mode'[c] = m
        BY <1>11, <2>1, <3>1
      <4> QED
        BY <1>2, <1>3, <3>1, <4>1, EmptyBuffer
    <3>2. CASE d # c
      <4>1. Using(d) /\ mode'[d] = mode[d]
        BY <1>11, <2>1, <3>2
      <4> QED
        BY <1>8, <2>1, <4>1 DEF Sheltered, Spared
    <3> QED
      BY <3>1, <3>2
  <2> QED
    BY <1>2, <2>1 DEF Sheltered, Careful, Spared
<1>16. RecordsStand'
  BY <1>2, <1>8 DEF RecordsStand, Careful
<1>17. Unread'
  BY <1>2, <1>4, <1>5 DEF Unread
<1> QED
  BY <1>9, <1>10, <1>12, <1>13, <1>14, <1>15, <1>16, <1>17

-----------------------------------------------------------------------------
(* READ, WRITE and REWRITE. *)

(* Steps that leave locks, modes and what is under way alone. *)
LEMMA LocksUnmoved ==
  ASSUME UnderWay, LocksHeld, UNCHANGED <<lock, mode, doing, setup>>
  PROVE  /\ UnderWay' /\ LocksHeld' /\ Careful' = Careful
         /\ \A c \in Connectors : Using(c)' = Using(c)
<1>1. \A r \in RunUnits : Of(r)' = Of(r)
  BY DEF Of
<1>2. \A r \in RunUnits : (doing[r] = Idle \/ Opening(r) \/ Closing(r))'
  BY <1>1 DEF UnderWay, Opening, Closing
<1>3. UnderWay'
  BY <1>2 DEF UnderWay
<1>4. Careful' = Careful /\ \A c \in Connectors : Using(c)' = Using(c)
  BY DEF Careful, Using
<1>5. LocksHeld'
  BY <1>4 DEF LocksHeld
<1> QED
  BY <1>3, <1>4, <1>5

(* READ moves one record on. *)
LEMMA ReadKeeps ==
  ASSUME IInv, NEW c \in Connectors, Read(c)
  PROVE  IInv'
<1> USE DEF IInv
<1>1. /\ mode[c] = "I-O"
      /\ at' = [at EXCEPT ![c] = @ + 1] /\ read_done' = read_done \cup {c}
      /\ contents' = contents /\ lock' = lock /\ mode' = mode /\ buffer' = buffer
      /\ doing' = doing /\ written' = written /\ standing' = standing /\ setup' = setup
  BY DEF Read
<1>2. at[c] \in Nat /\ at' \in [Connectors -> Nat] /\ at'[c] = at[c] + 1
      /\ \A d \in Connectors : d # c => at'[d] = at[d]
  BY <1>1 DEF TypeOK
<1>3. TypeOK'
  BY <1>1, <1>2 DEF TypeOK
<1>4. /\ UnderWay' /\ LocksHeld' /\ Careful' = Careful
      /\ \A d \in Connectors : Using(d)' = Using(d)
  BY <1>1, LocksUnmoved
<1>5. Named'
  BY <1>1 DEF Named
<1>6. Placed'
  <2>1. ASSUME NEW d \in Connectors
        PROVE  /\ mode[d] = "EXTEND" => Appending(buffer[d])
               /\ mode[d] \in {"OUTPUT", "I-O"} => Ascending(buffer[d], at'[d])
               /\ d \in read_done' => mode[d] = "I-O" /\ 1 <= at'[d] /\ Ascending(buffer[d], at'[d] - 1)
    <3>1. CASE d = c
      <4>1. Ascending(buffer[c], at[c])
        BY <1>1 DEF Placed
      <4>2. Ascending(buffer[c], at[c] + 1)
        <5>1. \A i \in DOMAIN buffer[c] : buffer[c][i].pos \in Nat
          BY Basics, EntryFacts
        <5> QED
          BY <1>2, <4>1, <5>1 DEF Ascending
      <4>3. at'[c] - 1 = at[c] /\ 1 <= at'[c]
        BY <1>2
      <4>4. mode[c] # "EXTEND"
        BY <1>1
      <4> QED
        BY <1>1, <1>2, <3>1, <4>1, <4>2, <4>3, <4>4
    <3>2. CASE d # c
      BY <1>1, <1>2, <3>2 DEF Placed
    <3> QED
      BY <3>1, <3>2
  <2> QED
    BY <1>1, <2>1 DEF Placed, Appending, Ascending
<1>7. Sheltered'
  <2>1. ASSUME NEW d \in Connectors, mode[d] = "OUTPUT" PROVE at'[d] = at[d]
    <3>1. d # c
      BY <1>1, <2>1
    <3> QED
      BY <1>2, <3>1
  <2> QED
    BY <1>1, <1>4, <2>1 DEF Sheltered, Spared
<1>8. RecordsStand'
  BY <1>1, <1>4 DEF RecordsStand
<1>9. Unread'
  <2>1. \A r \in RunUnits : doing[r].op = "CLOSE" => OwnerOf[doing[r].conn] = r
    BY Basics, IdleFacts DEF UnderWay, Opening, Closing
  <2>2. doing[OwnerOf[c]].op # "CLOSE"
    BY IdleFacts DEF Read, Ready
  <2> QED
    BY <1>1, <2>1, <2>2 DEF Unread
<1> QED
  BY <1>3, <1>4, <1>5, <1>6, <1>7, <1>8, <1>9

(* A new record at place pos, after which the connector is at top. *)
LEMMA StoreKeeps ==
  ASSUME IInv, NEW c \in Connectors, Ready(c), mode[c] \in {"OUTPUT", "EXTEND", "I-O"},
         NEW pos \in Nat, NEW old \in Records \cup {Hole}, NEW top \in Nat,
         Store(c, pos, old),
         at' = [at EXCEPT ![c] = top], at[c] <= top,
         read_done' = read_done \ {c},
         IF mode[c] = "EXTEND" THEN pos = 0
         ELSE /\ 1 <= pos /\ pos <= top
              /\ \A i \in DOMAIN buffer[c] : buffer[c][i].pos < pos,
         Careful /\ pos \in DOMAIN contents /\ contents[pos] \in standing => contents[pos] = old,
         mode[c] = "OUTPUT" => at[c] < top
  PROVE  IInv'
<1> DEFINE new == [pos |-> pos, rec |-> <<c, written[c] + 1>>, old |-> old]
           entries == Append(buffer[c], new)
           l == Len(buffer[c])
<1> USE DEF IInv
<1>1. /\ written[c] \in Nat /\ written[c] < MaxRecords[c] /\ MaxRecords[c] \in Nat
      /\ written' = [written EXCEPT ![c] = @ + 1]
      /\ lock' = lock /\ mode' = mode /\ doing' = doing /\ setup' = setup
      /\ \/ /\ buffer' = [buffer EXCEPT ![c] = entries]
            /\ contents' = contents /\ standing' = standing
         \/ /\ buffer' = [buffer EXCEPT ![c] = <<>>]
            /\ contents' = Flushed(contents, entries)
            /\ standing' = Stands(entries)
  BY SharingAssumption DEF Store, TypeOK
<1>2. new \in Entry /\ new.rec \in Records
  <2>1. <<c, written[c] + 1>> \in Records
    BY <1>1 DEF Records
  <2> QED
    BY <2>1 DEF Entry
<1>3. /\ entries \in Seq(Entry) /\ l \in Nat
      /\ DOMAIN entries = 1..(l + 1) /\ DOMAIN buffer[c] = 1..l
      /\ \A i \in 1..l : entries[i] = buffer[c][i] /\ entries[i] \in Entry
      /\ entries[l + 1] = new
      /\ buffer[c] \in Seq(Entry)
  <2>1. buffer[c] \in Seq(Entry)
    BY Basics
  <2> HIDE DEF new
  <2> QED
    BY <1>2, <2>1
<1>4. /\ new.pos = pos /\ new.old = old /\ new.rec = <<c, written[c] + 1>>
      /\ new.rec[1] = c /\ new.rec[2] = written[c] + 1
  OBVIOUS
<1> HIDE DEF new, entries, l
<1>5. \A i \in DOMAIN entries : (i \in 1..l /\ entries[i] = buffer[c][i]) \/ (i = l + 1 /\ entries[i] = new)
  BY <1>3
<1>6. /\ mode[c] = "EXTEND" => Appending(entries)
      /\ mode[c] # "EXTEND" => Ascending(entries, top)
  <2>1. ASSUME mode[c] = "EXTEND" PROVE Appending(entries)
    <3>1. Appending(buffer[c])
      BY <2>1 DEF Placed
    <3> QED
      BY <1>3, <1>4, <1>5, <2>1, <3>1 DEF Appending
  <2>2. ASSUME mode[c] # "EXTEND" PROVE Ascending(entries, top)
    <3>1. Ascending(buffer[c], at[c])
      BY <2>2 DEF Placed
    <3>2. \A i \in 1..l : entries[i].pos \in Nat /\ 1 <= entries[i].pos /\ entries[i].pos <= top /\ entries[i].pos < pos
      <4>1. at[c] \in Nat
        BY DEF TypeOK
      <4>2. ASSUME NEW i \in 1..l
            PROVE entries[i].pos \in Nat /\ 1 <= entries[i].pos /\ entries[i].pos <= top /\ entries[i].pos < pos
        <5>1. entries[i].pos \in Nat /\ entries[i] = buffer[c][i] /\ i \in DOMAIN buffer[c]
          BY <1>3, EntryFacts
        <5>2. 1 <= entries[i].pos /\ entries[i].pos <= at[c]
          BY <3>1, <5>1 DEF Ascending
        <5>3. entries[i].pos < pos
          BY <2>2, <5>1
        <5> QED
          BY <4>1, <5>1, <5>2, <5>3
      <4> QED
        BY <4>2
    <3>3. \A i, k \in 1..l : i < k => entries[i].pos < entries[k].pos
      BY <1>3, <3>1 DEF Ascending
    <3>4. entries[l + 1].pos = pos /\ 1 <= pos /\ pos <= top
      BY <1>3, <1>4, <2>2
    <3>5. ASSUME NEW i \in 1..(l + 1) PROVE 1 <= entries[i].pos /\ entries[i].pos <= top
      <4>1. i \in 1..l \/ i = l + 1
        BY <1>3
      <4> QED
        BY <3>2, <3>4, <4>1
    <3>6. ASSUME NEW i \in 1..(l + 1), NEW k \in 1..(l + 1), i < k
          PROVE  entries[i].pos < entries[k].pos
      <4>1. i \in 1..l /\ (k \in 1..l \/ k = l + 1)
        BY <1>3, <3>6
      <4> QED
        BY <3>2, <3>3, <3>4, <3>6, <4>1
    <3> QED
      BY <1>3, <3>5, <3>6 DEF Ascending
  <2> QED
    BY <2>1, <2>2, Zenon
<1>7. /\ UnderWay' /\ LocksHeld' /\ Careful' = Careful
      /\ \A d \in Connectors : Using(d)' = Using(d)
  BY <1>1, LocksUnmoved
<1>8. Using(c)
  BY IdleFacts DEF Using, Ready
<1>9. Careful => Spared(entries, contents, standing)
  <2> SUFFICES ASSUME Careful, NEW i \in DOMAIN entries,
                      entries[i].pos \in DOMAIN contents, contents[entries[i].pos] \in standing
               PROVE  contents[entries[i].pos] = entries[i].old
    BY DEF Spared
  <2>1. CASE i \in 1..l /\ entries[i] = buffer[c][i]
    BY <1>3, <1>8, <2>1 DEF Sheltered, Spared
  <2>2. CASE i = l + 1 /\ entries[i] = new
    BY <1>4, <2>2
  <2> QED
    BY <1>5, <2>1, <2>2
<1>10. contents \in File /\ Made(entries) \subseteq Records
  <2>1. \A i \in DOMAIN entries : entries[i].rec \in Records
    BY <1>3, <1>2, <1>5 DEF Entry
  <2> QED
    BY <2>1, Basics DEF Made
<1>11. Flushed(contents, entries) \in File
  BY <1>3, <1>10, FlushedFrom
<1>12. \A x \in Made(entries) : /\ x[1] = c /\ x[2] <= written[c] + 1
                                /\ x \notin standing \cup ToSet(contents)
  <2>1. ASSUME NEW i \in DOMAIN entries
        PROVE /\ entries[i].rec[1] = c /\ entries[i].rec[2] <= written[c] + 1
              /\ entries[i].rec \notin standing \cup ToSet(contents)
    <3>1. CASE i \in 1..l /\ entries[i] = buffer[c][i]
      <4>1. /\ buffer[c][i].rec[1] = c /\ buffer[c][i].rec[2] <= written[c]
            /\ buffer[c][i].rec \notin standing \cup ToSet(contents)
        BY <1>3, <3>1 DEF Named
      <4>2. buffer[c][i].rec \in Records
        BY <1>3, <3>1 DEF Entry
      <4>3. buffer[c][i].rec[2] \in Int
        BY <4>2 DEF Records
      <4> QED
        BY <1>1, <3>1, <4>1, <4>3
    <3>2. CASE i = l + 1 /\ entries[i] = new
      <4>1. \A x \in standing \cup ToSet(contents) : x[1] = c => x[2] <= written[c]
        BY DEF Named
      <4>2. ~(written[c] + 1 <= written[c])
        BY <1>1
      <4>3. written[c] + 1 <= written[c] + 1
        BY <1>1
      <4> QED
        BY <1>4, <3>2, <4>1, <4>2, <4>3
    <3> QED
      BY <1>5, <3>1, <3>2
  <2> QED
    BY <2>1 DEF Made
<1>13. /\ written' \in [Connectors -> Nat] /\ written'[c] = written[c] + 1
       /\ \A d \in Connectors : d # c => written'[d] = written[d]
       /\ at' \in [Connectors -> Nat] /\ at'[c] = top
       /\ \A d \in Connectors : d # c => at'[d] = at[d]
  BY <1>1 DEF TypeOK
<1>14. /\ buffer' \in [Connectors -> Seq(Entry)]
       /\ buffer'[c] \in {entries, <<>>}
       /\ \A d \in Connectors : d # c => buffer'[d] = buffer[d]
  <2>1. buffer \in [Connectors -> Seq(Entry)] /\ <<>> \in Seq(Entry)
    BY DEF TypeOK
  <2>2. PICK b \in {entries, <<>>} : buffer' = [buffer EXCEPT ![c] = b]
    BY <1>1
  <2>3. b \in Seq(Entry)
    BY <1>3, <2>1
  <2> QED
    BY <2>1, <2>2, <2>3
<1>15. /\ contents' \in File
       /\ standing' \subseteq standing \cup Made(entries)
       /\ ToSet(contents') \subseteq ToSet(contents) \cup Made(entries) \cup {Hole}
       /\ buffer'[c] # <<>> => standing' = standing /\ contents' = contents
  <2>1. CASE contents' = contents /\ standing' = standing
    BY <1>10, <2>1
  <2>2. CASE /\ buffer' = [buffer EXCEPT ![c] = <<>>]
             /\ contents' = Flushed(contents, entries) /\ standing' = Stands(entries)
    <3>1. buffer'[c] = <<>>
      BY <2>2 DEF TypeOK
    <3> QED
      BY <1>3, <1>10, <1>11, <2>2, <3>1, FlushedSet DEF Stands
  <2> QED
    BY <1>1, <2>1, <2>2
<1>16. TypeOK'
  <2>1. contents' \in Seq(Records \cup {Hole}) /\ standing' \subseteq Records
    BY <1>10, <1>15 DEF File, TypeOK
  <2>2. \A d \in Connectors : mode'[d] \in {"CLOSED", "INPUT"} => buffer'[d] = <<>>
    BY <1>1, <1>14 DEF TypeOK
  <2> QED
    BY <1>1, <1>13, <1>14, <2>1, <2>2 DEF TypeOK
<1>17. Named'
  <2>1. \A x \in standing' \cup ToSet(contents') : x \in standing \cup ToSet(contents) \/ x \in Made(entries) \/ x = Hole
    BY <1>15
  <2>2. ASSUME NEW d \in Connectors, NEW x \in standing' \cup ToSet(contents'), x[1] = d
        PROVE  x[2] <= written'[d]
    <3>1. CASE x \in standing \cup ToSet(contents)
      <4>1. x[2] <= written[d]
        BY <2>2, <3>1 DEF Named
      <4>2. x \in Records \cup {Hole}
        BY <3>1 DEF TypeOK, ToSet
      <4>3. x[2] \in Int
        BY <4>2 DEF Records, Hole
      <4>4. written[d] \in Nat
        BY DEF TypeOK
      <4>5. CASE d = c
        BY <1>13, <4>1, <4>3, <4>4, <4>5
      <4>6. CASE d # c
        BY <1>13, <4>1, <4>6
      <4> QED
        BY <4>5, <4>6
    <3>2. CASE x \in Made(entries)
      BY <1>12, <1>13, <2>2, <3>2
    <3>3. CASE x = Hole
      BY <2>2, <3>3, NamesAssumption DEF Hole
    <3> QED
      BY <2>1, <3>1, <3>2, <3>3
  <2>3. ASSUME NEW d \in Connectors, NEW i \in DOMAIN buffer'[d]
        PROVE  /\ buffer'[d][i].rec[1] = d /\ buffer'[d][i].rec[2] <= written'[d]
               /\ buffer'[d][i].rec \notin standing' \cup ToSet(contents')
    <3>1. CASE d = c
      <4>1. buffer'[c] = entries /\ standing' = standing /\ contents' = contents
        BY <1>14, <1>15, <2>3, <3>1
      <4>2. entries[i].rec \in Made(entries)
        BY <2>3, <3>1, <4>1 DEF Made
      <4> QED
        BY <1>12, <1>13, <3>1, <4>1, <4>2
    <3>2. CASE d # c
      <4>1. i \in DOMAIN buffer[d]
        BY <1>14, <2>3, <3>2
      <4>2. /\ buffer[d][i].rec[1] = d /\ buffer[d][i].rec[2] <= written[d]
            /\ buffer[d][i].rec \notin standing \cup ToSet(contents)
        BY <4>1 DEF Named
      <4>3. buffer[d][i].rec \notin Made(entries)
        BY <1>12, <3>2, <4>2
      <4>4. buffer[d][i].rec # Hole
        BY <4>2, NamesAssumption DEF Hole
      <4> QED
        BY <1>13, <1>14, <2>1, <3>2, <4>2, <4>3, <4>4
    <3> QED
      BY <3>1, <3>2
  <2> QED
    BY <2>2, <2>3 DEF Named
<1>18. Placed'
  <2>1. ASSUME NEW d \in Connectors
        PROVE  /\ mode[d] = "EXTEND" => Appending(buffer'[d])
               /\ mode[d] \in {"OUTPUT", "I-O"} => Ascending(buffer'[d], at'[d])
               /\ d \in read_done' => mode[d] = "I-O" /\ 1 <= at'[d] /\ Ascending(buffer'[d], at'[d] - 1)
    <3>1. CASE d = c
      <4>1. d \notin read_done'
        BY <3>1
      <4>2. CASE buffer'[c] = entries
        BY <1>6, <1>13, <3>1, <4>1, <4>2
      <4>3. CASE buffer'[c] = <<>>
        BY <3>1, <4>1, <4>3, EmptyBuffer
      <4> QED
        BY <1>14, <4>2, <4>3
    <3>2. CASE d # c
      BY <1>13, <1>14, <3>2 DEF Placed
    <3> QED
      BY <3>1, <3>2
  <2> QED
    BY <1>1, <2>1 DEF Placed, Appending, Ascending
<1>19. Sheltered'
  <2>1. ASSUME Careful, NEW d \in Connectors, Using(d)
        PROVE /\ Spared(buffer'[d], contents', standing')
              /\ mode[d] = "OUTPUT" => \A j \in DOMAIN contents' : contents'[j] \in standing' => j <= at'[d]
    <3>1. d = c
      BY <1>8, <2>1, UsersShare
    <3>2. Spared(buffer'[c], contents', standing')
      <4>1. CASE buffer'[c] = entries /\ entries # <<>>
        BY <1>9, <1>15, <2>1, <4>1
      <4>2. CASE buffer'[c] = <<>>
        BY <4>2, EmptyBuffer
      <4> QED
        BY <1>14, <4>1, <4>2
    <3>3. ASSUME mode[c] = "OUTPUT", NEW j \in DOMAIN contents', contents'[j] \in standing'
          PROVE  j <= top
      <4>1. \A k \in DOMAIN contents : contents[k] \in standing => k <= at[c]
        BY <1>8, <2>1, <3>3 DEF Sheltered
      <4>2. at[c] \in Nat /\ DOMAIN contents \subseteq Nat /\ DOMAIN contents' \subseteq Nat
        BY <1>10, <1>15 DEF TypeOK, File
      <4>3. CASE contents' = contents /\ standing' = standing
        BY <3>3, <4>1, <4>2, <4>3
      <4>4. CASE contents' = Flushed(contents, entries) /\ standing' = Stands(entries)
        <5>1. Ascending(entries, top) /\ top \in Int
          BY <1>6, <3>3
        <5>2. \A k \in DOMAIN contents : contents[k] \in standing => k <= top
          BY <4>1, <4>2
        <5>3. standing' \in SUBSET Records /\ standing' \subseteq standing \cup Made(entries)
          BY <1>15, <1>16 DEF TypeOK
        <5>4. \A x \in Made(entries) : x \notin ToSet(contents)
          BY <1>12
        <5> QED
          BY <1>3, <1>10, <3>3, <4>4, <5>1, <5>2, <5>3, <5>4, FlushedBelow
      <4> QED
        BY <1>1, <4>3, <4>4
    <3> QED
      BY <1>13, <3>1, <3>2, <3>3
  <2> QED
    BY <1>1, <1>7, <2>1 DEF Sheltered, Spared
<1>20. RecordsStand'
  <2> SUFFICES ASSUME Careful PROVE standing' \subseteq ToSet(contents')
    BY <1>7 DEF RecordsStand
  <2>1. standing \subseteq ToSet(contents)
    BY DEF RecordsStand
  <2>2. CASE contents' = contents /\ standing' = standing
    BY <2>1, <2>2
  <2>3. CASE contents' = Flushed(contents, entries) /\ standing' = Stands(entries)
    BY <1>3, <1>6, <1>9, <1>10, <2>1, <2>3, FlushedKeeps DEF Stands
  <2> QED
    BY <1>1, <2>2, <2>3
<1>21. Unread'
  BY <1>1 DEF Unread
<1> QED
  BY <1>7, <1>16, <1>17, <1>18, <1>19, <1>20, <1>21

(* WRITE to the end of the file, or to the next place of an OUTPUT. *)
LEMMA WriteKeeps ==
  ASSUME IInv, NEW c \in Connectors, Write(c)
  PROVE  IInv'
<1> DEFINE pos == IF mode[c] = "EXTEND" THEN 0 ELSE at[c] + 1
<1> USE DEF IInv
<1>1. /\ Ready(c) /\ mode[c] \in {"OUTPUT", "EXTEND"}
      /\ Store(c, pos, Hole)
      /\ at' = [at EXCEPT ![c] = at[c] + 1]
      /\ read_done' = read_done
  BY DEF Write
<1>2. at[c] \in Nat /\ at[c] + 1 \in Nat /\ at[c] <= at[c] + 1 /\ at[c] < at[c] + 1 /\ pos \in Nat
  BY DEF TypeOK
<1>3. read_done' = read_done \ {c}
  BY <1>1 DEF Placed
<1>4. IF mode[c] = "EXTEND" THEN pos = 0
      ELSE /\ 1 <= pos /\ pos <= at[c] + 1
           /\ \A i \in DOMAIN buffer[c] : buffer[c][i].pos < pos
  <2>1. CASE mode[c] = "EXTEND"
    BY <2>1
  <2>2. CASE mode[c] = "OUTPUT"
    <3>1. \A i \in DOMAIN buffer[c] : buffer[c][i].pos <= at[c] /\ buffer[c][i].pos \in Nat
      <4>1. buffer[c] \in Seq(Entry) /\ Ascending(buffer[c], at[c])
        BY <2>2, Basics DEF Placed
      <4> QED
        BY <4>1, EntryFacts DEF Ascending
    <3> QED
      BY <1>2, <2>2, <3>1
  <2> QED
    BY <1>1, <2>1, <2>2
<1>5. 0 \notin DOMAIN contents
  BY DEF TypeOK
<1>6. Using(c)
  BY <1>1, IdleFacts DEF Using, Ready
<1>7. Careful => ~(pos \in DOMAIN contents /\ contents[pos] \in standing)
  <2>1. CASE mode[c] = "EXTEND"
    BY <1>5, <2>1
  <2>2. CASE mode[c] = "OUTPUT"
    BY <1>2, <1>6, <2>2 DEF Sheltered
  <2> QED
    BY <1>1, <2>1, <2>2
<1> HIDE DEF pos, IInv
<1> QED
  BY <1>1, <1>2, <1>3, <1>4, <1>7, StoreKeeps

(* REWRITE goes to the place of the record that was read. *)
LEMMA RewriteKeeps ==
  ASSUME IInv, NEW c \in Connectors, Rewrite(c)
  PROVE  IInv'
<1> DEFINE old == IF at[c] <= Len(contents) THEN contents[at[c]] ELSE Hole
<1> USE DEF IInv
<1>1. /\ Ready(c) /\ mode[c] = "I-O" /\ c \in read_done
      /\ Store(c, at[c], old)
      /\ read_done' = read_done \ {c} /\ at' = at
  BY DEF Rewrite
<1>2. at[c] \in Nat /\ 1 <= at[c] /\ at \in [Connectors -> Nat] /\ Ascending(buffer[c], at[c] - 1)
  BY <1>1 DEF TypeOK, Placed
<1>3. at' = [at EXCEPT ![c] = at[c]]
  BY <1>1, <1>2
<1>4. contents \in File /\ DOMAIN contents = 1..Len(contents)
  BY Basics DEF File
<1>5. old \in Records \cup {Hole}
  <2>1. at[c] <= Len(contents) => at[c] \in 1..Len(contents)
    BY <1>2, <1>4 DEF File
  <2> QED
    BY <1>4, <2>1 DEF File
<1>6. IF mode[c] = "EXTEND" THEN at[c] = 0
      ELSE /\ 1 <= at[c] /\ at[c] <= at[c]
           /\ \A i \in DOMAIN buffer[c] : buffer[c][i].pos < at[c]
  <2>1. \A i \in DOMAIN buffer[c] : buffer[c][i].pos <= at[c] - 1 /\ buffer[c][i].pos \in Nat
    <3>1. buffer[c] \in Seq(Entry)
      BY Basics
    <3> QED
      BY <1>2, <3>1, EntryFacts DEF Ascending
  <2> QED
    BY <1>1, <1>2, <2>1
<1>7. at[c] \in DOMAIN contents => contents[at[c]] = old
  BY <1>2, <1>4
<1>8. mode[c] = "OUTPUT" => at[c] < at[c]
  BY <1>1
<1>9. at[c] <= at[c] /\ mode[c] \in {"OUTPUT", "EXTEND", "I-O"}
  BY <1>1, <1>2
<1> HIDE DEF old, IInv
<1> QED
  BY <1>1, <1>2, <1>3, <1>5, <1>6, <1>7, <1>8, <1>9, StoreKeeps

-----------------------------------------------------------------------------
(* CLOSE, the end of a process, and UNLOCK, COMMIT and ROLLBACK. *)

(* A run unit that gives its lock up no longer uses the file. *)
LEMMA LockReleased ==
  ASSUME TypeOK, LocksHeld, NEW r \in RunUnits,
         lock' = [lock EXCEPT ![r] = "none"], setup' = setup,
         Careful => \A d \in Connectors : Using(d)' => /\ OwnerOf[d] # r /\ Using(d)
                                                       /\ mode'[d] = mode[d]
  PROVE  LocksHeld'
<1> SUFFICES ASSUME Careful PROVE
       /\ \A d \in Connectors : Using(d)' => /\ lock'[OwnerOf[d]] # "none"
                                             /\ mode'[d] # "INPUT" => lock'[OwnerOf[d]] = "write"
       /\ \A q, p \in RunUnits : q # p /\ lock'[q] = "write" => lock'[p] = "none"
  BY DEF LocksHeld, Careful
<1>1. lock'[r] = "none" /\ \A q \in RunUnits : q # r => lock'[q] = lock[q]
  BY DEF TypeOK
<1>2. ASSUME NEW d \in Connectors, Using(d)'
      PROVE  lock'[OwnerOf[d]] # "none" /\ (mode'[d] # "INPUT" => lock'[OwnerOf[d]] = "write")
  <2>1. OwnerOf[d] # r /\ Using(d) /\ mode'[d] = mode[d] /\ OwnerOf[d] \in RunUnits
    BY <1>2, Basics
  <2> QED
    BY <1>1, <2>1 DEF LocksHeld
<1>3. ASSUME NEW q \in RunUnits, NEW p \in RunUnits, q # p, lock'[q] = "write"
      PROVE  lock'[p] = "none"
  BY <1>1, <1>3 DEF LocksHeld
<1> QED
  BY <1>2, <1>3

(* The start of a CLOSE gives up the lock with the buffer not yet written. *)
LEMMA BeginCloseKeeps ==
  ASSUME IInv, NEW c \in Connectors, BeginClose(c)
  PROVE  IInv'
<1> DEFINE r == OwnerOf[c]
           d == [op |-> "CLOSE", conn |-> c, mode |-> "CLOSED", sharing |-> FALSE]
<1> USE DEF IInv
<1>1. /\ r \in RunUnits /\ c \in setup.used /\ c \in Of(r)
      /\ doing[r] = Idle /\ mode[c] # "CLOSED"
      /\ lock' = [lock EXCEPT ![r] = "none"]
      /\ doing' = [doing EXCEPT ![r] = d]
      /\ read_done' = read_done \ {c}
      /\ contents' = contents /\ mode' = mode /\ at' = at /\ buffer' = buffer
      /\ written' = written /\ standing' = standing /\ setup' = setup
  BY Basics DEF BeginClose, Ready, Of
<1>2. /\ doing' \in [RunUnits -> [op : {"none", "OPEN", "CLOSE"}, conn : Connectors \cup {"none"},
                                  mode : Modes \cup {"CLOSED"}, sharing : BOOLEAN]]
      /\ doing'[r] = d /\ \A q \in RunUnits : q # r => doing'[q] = doing[q]
  <2>1. d \in [op : {"none", "OPEN", "CLOSE"}, conn : Connectors \cup {"none"},
               mode : Modes \cup {"CLOSED"}, sharing : BOOLEAN]
    OBVIOUS
  <2> HIDE DEF d
  <2> QED
    BY <1>1, <2>1 DEF TypeOK
<1>3. /\ lock' \in [RunUnits -> {"none", "read", "write"}]
      /\ lock'[r] = "none" /\ \A q \in RunUnits : q # r => lock'[q] = lock[q]
  BY <1>1 DEF TypeOK
<1>4. TypeOK'
  <2>1. \A q \in RunUnits : doing'[q].op = "CLOSE" => lock'[q] = "none"
    BY <1>2, <1>3 DEF TypeOK
  <2> QED
    BY <1>1, <1>2, <1>3, <2>1 DEF TypeOK
<1>5. \A e \in Connectors : Using(e)' => OwnerOf[e] # r /\ Using(e) /\ mode'[e] = mode[e]
  BY <1>1, <1>2, Basics DEF Using
<1>6. UnderWay'
  <2>1. Closing(r)'
    BY <1>1, <1>2 DEF Closing, Of
  <2>2. ASSUME NEW q \in RunUnits PROVE (doing[q] = Idle \/ Opening(q) \/ Closing(q))'
    <3>1. CASE q # r
      BY <3>1, <1>1, <1>2 DEF UnderWay, Opening, Closing, Of
    <3> QED
      BY <2>1, <3>1
  <2> QED
    BY <2>2, <1>1 DEF UnderWay
<1>7. LocksHeld'
  <2> HIDE DEF r
  <2> QED
    BY <1>1, <1>5, LockReleased
<1>8. Named' /\ RecordsStand'
  BY <1>1 DEF Named, RecordsStand, Careful
<1>9. Placed'
  BY <1>1 DEF Placed, Appending, Ascending
<1>10. Sheltered'
  BY <1>1, <1>5 DEF Sheltered, Careful, Spared
<1>11. Unread'
  BY <1>1, <1>2 DEF Unread
<1> QED
  BY <1>4, <1>6, <1>7, <1>8, <1>9, <1>10, <1>11

(* A process ends: its connectors, buffers and lock go, the file stays. *)
LEMMA CrashKeeps ==
  ASSUME IInv, NEW r \in RunUnits, Crash(r)
  PROVE  IInv'
<1> USE DEF IInv
<1>1. /\ lock' = [lock EXCEPT ![r] = "none"]
      /\ mode' = [c \in Connectors |-> IF OwnerOf[c] = r THEN "CLOSED" ELSE mode[c]]
      /\ at' = [c \in Connectors |-> IF OwnerOf[c] = r THEN 0 ELSE at[c]]
      /\ buffer' = [c \in Connectors |-> IF OwnerOf[c] = r THEN <<>> ELSE buffer[c]]
      /\ read_done' = {c \in read_done : OwnerOf[c] # r}
      /\ doing' = [doing EXCEPT ![r] = Idle]
      /\ contents' = contents /\ written' = written /\ standing' = standing /\ setup' = setup
  BY DEF Crash
<1>2. /\ doing' \in [RunUnits -> [op : {"none", "OPEN", "CLOSE"}, conn : Connectors \cup {"none"},
                                  mode : Modes \cup {"CLOSED"}, sharing : BOOLEAN]]
      /\ doing'[r] = Idle /\ \A q \in RunUnits : q # r => doing'[q] = doing[q]
  <2>1. Idle \in [op : {"none", "OPEN", "CLOSE"}, conn : Connectors \cup {"none"},
                  mode : Modes \cup {"CLOSED"}, sharing : BOOLEAN]
    BY DEF Idle
  <2> QED
    BY <1>1, <2>1 DEF TypeOK
<1>3. \A c \in Connectors :
        /\ OwnerOf[c] = r => mode'[c] = "CLOSED" /\ buffer'[c] = <<>> /\ c \notin read_done'
        /\ OwnerOf[c] # r => /\ mode'[c] = mode[c] /\ buffer'[c] = buffer[c] /\ at'[c] = at[c]
                             /\ c \in read_done' <=> c \in read_done
  BY <1>1
<1>4. TypeOK'
  <2>1. mode' \in [Connectors -> Modes \cup {"CLOSED"}]
    BY <1>1 DEF TypeOK
  <2>2. at' \in [Connectors -> Nat] /\ read_done' \subseteq Connectors
    BY <1>1 DEF TypeOK
  <2>3. buffer' \in [Connectors -> Seq(Entry)]
    <3>1. <<>> \in Seq(Entry)
      OBVIOUS
    <3> QED
      BY <1>1, <3>1 DEF TypeOK
  <2>4. lock' \in [RunUnits -> {"none", "read", "write"}]
    BY <1>1 DEF TypeOK
  <2>5. \A c \in Connectors : mode'[c] \in {"CLOSED", "INPUT"} => buffer'[c] = <<>>
    BY <1>3 DEF TypeOK
  <2>6. \A q \in RunUnits : doing'[q].op = "CLOSE" => lock'[q] = "none"
    BY <1>1, <1>2, IdleFacts DEF TypeOK
  <2> QED
    BY <1>1, <1>2, <2>1, <2>2, <2>3, <2>4, <2>5, <2>6 DEF TypeOK
<1>5. \A c \in Connectors : Using(c)' => OwnerOf[c] # r /\ Using(c) /\ mode'[c] = mode[c]
  BY <1>2, <1>3, Basics DEF Using
<1>6. UnderWay'
  <2>1. ASSUME NEW q \in RunUnits PROVE (doing[q] = Idle \/ Opening(q) \/ Closing(q))'
    <3>1. CASE q = r
      BY <1>2, <3>1
    <3>2. CASE q # r
      <4>1. doing'[q] = doing[q] /\ Of(q)' = Of(q) /\ \A d \in Of(q) : mode'[d] = mode[d]
        BY <1>1, <1>2, <1>3, <3>2, Basics DEF Of
      <4>2. Opening(q) => Opening(q)'
        BY <1>1, <4>1 DEF Opening
      <4>3. Closing(q) => Closing(q)'
        BY <4>1 DEF Closing
      <4> QED
        BY <4>1, <4>2, <4>3 DEF UnderWay
    <3> QED
      BY <3>1, <3>2
  <2>2. \A c \in Connectors : mode'[c] # "CLOSED" => mode[c] # "CLOSED"
    BY <1>3
  <2> QED
    BY <1>1, <2>1, <2>2 DEF UnderWay
<1>7. LocksHeld'
  BY <1>1, <1>5, LockReleased
<1>8. Named'
  <2>1. ASSUME NEW c \in Connectors, NEW i \in DOMAIN buffer'[c]
        PROVE  buffer'[c] = buffer[c]
    BY <1>3, <2>1
  <2> QED
    BY <1>1, <2>1 DEF Named
<1>9. RecordsStand'
  BY <1>1 DEF RecordsStand, Careful
<1>10. Placed'
  <2>1. ASSUME NEW d \in Connectors
        PROVE  /\ mode'[d] = "EXTEND" => Appending(buffer'[d])
               /\ mode'[d] \in {"OUTPUT", "I-O"} => Ascending(buffer'[d], at'[d])
               /\ d \in read_done' => mode'[d] = "I-O" /\ 1 <= at'[d] /\ Ascending(buffer'[d], at'[d] - 1)
    BY <1>3 DEF Placed
  <2> QED
    BY <2>1 DEF Placed, Appending, Ascending
<1>11. Sheltered'
  <2>1. ASSUME Careful, NEW d \in Connectors, Using(d)'
        PROVE /\ Spared(buffer'[d], contents, standing)
              /\ mode'[d] = "OUTPUT" => \A j \in DOMAIN contents : contents[j] \in standing => j <= at'[d]
    <3>1. Using(d) /\ mode'[d] = mode[d] /\ buffer'[d] = buffer[d] /\ at'[d] = at[d]
      BY <1>3, <1>5, <2>1
    <3> QED
      BY <2>1, <3>1 DEF Sheltered
  <2> QED
    BY <1>1, <2>1 DEF Sheltered, Careful, Spared
<1>12. Unread'
  BY <1>1, <1>2, IdleFacts DEF Unread
<1> QED
  BY <1>4, <1>6, <1>7, <1>8, <1>9, <1>10, <1>11, <1>12

(* The end of a CLOSE may write over what others have in the file. *)
LEMMA EndCloseKeeps ==
  ASSUME IInv, NEW r \in RunUnits, EndClose(r)
  PROVE  IInv'
<1> DEFINE c == doing[r].conn
           after == Flushed(contents, buffer[c])
<1> USE DEF IInv
<1>1. /\ c \in setup.used /\ c \in Connectors /\ OwnerOf[c] = r /\ mode[c] # "CLOSED"
  <2>1. Closing(r)
    BY DEF EndClose, UnderWay, Opening, Idle
  <2> QED
    BY <2>1, Basics DEF Closing, Of
<1>2. /\ contents' = after
      /\ standing' = (IF Intruded(r) THEN standing ELSE Stands(buffer[c])) \cap ToSet(after)
      /\ buffer' = [buffer EXCEPT ![c] = <<>>]
      /\ mode' = [mode EXCEPT ![c] = "CLOSED"]
      /\ at' = [at EXCEPT ![c] = 0]
      /\ lock' = [lock EXCEPT ![r] = "none"]
      /\ doing' = [doing EXCEPT ![r] = Idle]
      /\ read_done' = read_done /\ written' = written /\ setup' = setup
      /\ doing[r].op = "CLOSE"
  BY DEF EndClose
<1> HIDE DEF c
<1>3. buffer[c] \in Seq(Entry) /\ contents \in File /\ Made(buffer[c]) \subseteq Records
  BY <1>1, Basics
<1>4. /\ after \in File /\ ToSet(after) \subseteq ToSet(contents) \cup Made(buffer[c]) \cup {Hole}
  BY <1>3, FlushedFrom, FlushedSet
<1>5. \A x \in Made(buffer[c]) : x[1] = c /\ x[2] <= written[c] /\ x \notin standing \cup ToSet(contents)
  BY <1>1 DEF Named, Made
<1>6. /\ doing' \in [RunUnits -> [op : {"none", "OPEN", "CLOSE"}, conn : Connectors \cup {"none"},
                                  mode : Modes \cup {"CLOSED"}, sharing : BOOLEAN]]
      /\ doing'[r] = Idle /\ \A q \in RunUnits : q # r => doing'[q] = doing[q]
  <2>1. Idle \in [op : {"none", "OPEN", "CLOSE"}, conn : Connectors \cup {"none"},
                  mode : Modes \cup {"CLOSED"}, sharing : BOOLEAN]
    BY DEF Idle
  <2> QED
    BY <1>2, <2>1 DEF TypeOK
<1>7. /\ mode' \in [Connectors -> Modes \cup {"CLOSED"}] /\ mode'[c] = "CLOSED"
      /\ at' \in [Connectors -> Nat]
      /\ buffer' \in [Connectors -> Seq(Entry)] /\ buffer'[c] = <<>>
      /\ \A d \in Connectors : d # c => mode'[d] = mode[d] /\ at'[d] = at[d] /\ buffer'[d] = buffer[d]
  <2>1. <<>> \in Seq(Entry)
    OBVIOUS
  <2> QED
    BY <1>1, <1>2, <2>1 DEF TypeOK
<1>8. standing' \subseteq standing \cup Made(buffer[c]) /\ standing' \subseteq Records
  BY <1>2, <1>3 DEF Stands, TypeOK
<1>9. TypeOK'
  <2>1. \A q \in RunUnits : doing'[q].op = "CLOSE" => lock'[q] = "none"
    BY <1>2, <1>6, IdleFacts DEF TypeOK
  <2>2. \A d \in Connectors : mode'[d] \in {"CLOSED", "INPUT"} => buffer'[d] = <<>>
    BY <1>7 DEF TypeOK
  <2>3. lock' \in [RunUnits -> {"none", "read", "write"}]
    BY <1>2 DEF TypeOK
  <2>4. contents' \in Seq(Records \cup {Hole})
    BY <1>2, <1>4 DEF File
  <2> HIDE DEF after
  <2> QED
    BY <1>2, <1>6, <1>7, <1>8, <2>1, <2>2, <2>3, <2>4 DEF TypeOK
<1> HIDE DEF after
<1>10. ASSUME Careful, NEW d \in Connectors, Using(d)'
       PROVE  /\ OwnerOf[d] # r /\ Using(d) /\ mode'[d] = mode[d] /\ d # c
              /\ Intruded(r)
  <2>1. mode'[d] # "CLOSED" /\ d # c
    BY <1>7, <1>10 DEF Using
  <2>2. mode[d] # "CLOSED" /\ mode'[d] = mode[d]
    BY <1>7, <2>1
  <2>3. OwnerOf[d] # r
    BY <1>1, <1>10, <2>1, <2>2 DEF UnderWay, Careful
  <2>4. OwnerOf[d] \in RunUnits /\ d \in Of(OwnerOf[d])
    BY <2>2, Basics DEF UnderWay, Of
  <2>5. Intruded(r)
    BY <2>2, <2>3, <2>4 DEF Intruded
  <2>6. Using(d)
    BY <1>6, <1>10, <2>2, <2>3, <2>4 DEF Using
  <2> QED
    BY <2>1, <2>2, <2>3, <2>5, <2>6
<1>11. UnderWay'
  <2>1. ASSUME NEW q \in RunUnits PROVE (doing[q] = Idle \/ Opening(q) \/ Closing(q))'
    <3>1. CASE q = r
      BY <1>6, <3>1
    <3>2. CASE q # r
      <4>1. doing'[q] = doing[q] /\ Of(q)' = Of(q) /\ \A d \in Of(q) : mode'[d] = mode[d]
        BY <1>1, <1>2, <1>6, <1>7, <3>2, Basics DEF Of
      <4>2. Opening(q) => Opening(q)'
        BY <1>2, <4>1 DEF Opening
      <4>3. Closing(q) => Closing(q)'
        BY <4>1 DEF Closing
      <4> QED
        BY <4>1, <4>2, <4>3 DEF UnderWay
    <3> QED
      BY <3>1, <3>2
  <2>2. \A d \in Connectors : mode'[d] # "CLOSED" => mode[d] # "CLOSED"
    BY <1>7
  <2> QED
    BY <1>2, <2>1, <2>2 DEF UnderWay
<1>12. LocksHeld'
  BY <1>2, <1>10, LockReleased
<1>13. Named'
  <2>1. \A x \in standing' \cup ToSet(contents') : x \in standing \cup ToSet(contents) \/ x \in Made(buffer[c]) \/ x = Hole
    BY <1>2, <1>4, <1>8
  <2>2. ASSUME NEW d \in Connectors, NEW x \in standing' \cup ToSet(contents'), x[1] = d
        PROVE  x[2] <= written[d]
    <3>1. CASE x \in standing \cup ToSet(contents)
      BY <2>2, <3>1 DEF Named
    <3>2. CASE x \in Made(buffer[c])
      BY <1>5, <2>2, <3>2
    <3>3. CASE x = Hole
      BY <2>2, <3>3, NamesAssumption DEF Hole
    <3> QED
      BY <2>1, <3>1, <3>2, <3>3
  <2>3. ASSUME NEW d \in Connectors, NEW i \in DOMAIN buffer'[d]
        PROVE  /\ buffer'[d][i].rec[1] = d /\ buffer'[d][i].rec[2] <= written[d]
               /\ buffer'[d][i].rec \notin standing' \cup ToSet(contents')
    <3>1. d # c /\ buffer'[d] = buffer[d]
      BY <1>7, <2>3
    <3>2. /\ buffer[d][i].rec[1] = d /\ buffer[d][i].rec[2] <= written[d]
          /\ buffer[d][i].rec \notin standing \cup ToSet(contents)
      BY <2>3, <3>1 DEF Named
    <3>3. buffer[d][i].rec \notin Made(buffer[c])
      BY <1>5, <3>1, <3>2
    <3>4. buffer[d][i].rec # Hole
      BY <3>2, NamesAssumption DEF Hole
    <3> QED
      BY <2>1, <3>1, <3>2, <3>3, <3>4
  <2> QED
    BY <1>2, <2>2, <2>3 DEF Named
<1>14. Placed'
  <2>1. ASSUME NEW d \in Connectors
        PROVE  /\ mode'[d] = "EXTEND" => Appending(buffer'[d])
               /\ mode'[d] \in {"OUTPUT", "I-O"} => Ascending(buffer'[d], at'[d])
               /\ d \in read_done => mode'[d] = "I-O" /\ 1 <= at'[d] /\ Ascending(buffer'[d], at'[d] - 1)
    <3>1. CASE d = c
      <4>1. c \notin read_done
        BY <1>2 DEF Unread, c
      <4> QED
        BY <1>7, <3>1, <4>1
    <3>2. CASE d # c
      BY <1>7, <3>2 DEF Placed
    <3> QED
      BY <3>1, <3>2
  <2> QED
    BY <1>2, <2>1 DEF Placed, Appending, Ascending
<1>15. Sheltered'
  <2>1. ASSUME Careful, NEW d \in Connectors, Using(d)'
        PROVE /\ Spared(buffer'[d], contents', standing')
              /\ mode'[d] = "OUTPUT" => \A j \in DOMAIN contents' : contents'[j] \in standing' => j <= at'[d]
    <3>1. /\ Using(d) /\ mode'[d] = mode[d] /\ buffer'[d] = buffer[d] /\ at'[d] = at[d]
      BY <1>7, <1>10, <2>1
    <3>2. standing' \subseteq standing
      BY <1>2, <1>10, <2>1
    <3>3. ASSUME NEW j \in DOMAIN contents', contents'[j] \in standing'
          PROVE  j \in DOMAIN contents /\ contents'[j] = contents[j] /\ contents[j] \in standing
      <4>1. Hole \notin standing
        BY NamesAssumption DEF Hole, Records, TypeOK
      <4>2. \A x \in Made(buffer[c]) : x \notin standing
        BY <1>5
      <4> QED
        BY <1>2, <1>3, <3>2, <3>3, <4>1, <4>2, FlushedFrom DEF after
    <3> QED
      BY <2>1, <3>1, <3>3 DEF Sheltered, Spared
  <2> QED
    BY <1>2, <2>1 DEF Sheltered, Careful, Spared
<1>16. RecordsStand'
  BY <1>2 DEF RecordsStand
<1>17. Unread'
  BY <1>2, <1>6, IdleFacts DEF Unread
<1> QED
  BY <1>9, <1>11, <1>12, <1>13, <1>14, <1>15, <1>16, <1>17

(* A careful run unit has no more than one buffer to flush. *)
LEMMA UnlockFilesKeeps ==
  ASSUME IInv, NEW r \in RunUnits, doing[r] = Idle,
         NEW order \in Seq(Connectors),
         \A i \in DOMAIN order : order[i] \in Of(r) /\ mode[order[i]] # "CLOSED",
         \A i, j \in DOMAIN order : i # j => order[i] # order[j],
         UnlockFiles(r, order)
  PROVE  IInv'
<1> DEFINE made == UNION {Made(buffer[c]) : c \in ToSet(order)}
           taken == UNION {Taken(buffer[c]) : c \in ToSet(order)}
           after == FlushedAll(order)
<1> USE DEF IInv
<1>1. /\ contents' = after /\ standing' = (standing \ taken) \cup made
      /\ buffer' = [c \in Connectors |-> IF c \in ToSet(order) THEN <<>> ELSE buffer[c]]
      /\ lock' = [lock EXCEPT ![r] = IF setup.exclusive THEN @ ELSE "none"]
      /\ mode' = mode /\ at' = at /\ read_done' = read_done /\ doing' = doing
      /\ written' = written /\ setup' = setup
  BY DEF UnlockFiles
<1>2. /\ after \in File /\ ToSet(after) \subseteq ToSet(contents) \cup {Hole} \cup made
      /\ Len(order) = 1 => after = Flushed(contents, buffer[order[1]])
      /\ Len(order) = 0 => after = contents
  BY FlushedAllResult
<1>3. ToSet(order) \subseteq Connectors
  BY DEF ToSet
<1>4. \A x \in made : /\ x \in Records /\ x \notin standing \cup ToSet(contents)
                      /\ \E c \in ToSet(order) : x[1] = c /\ x[2] <= written[c]
  <2>1. ASSUME NEW c \in ToSet(order), NEW x \in Made(buffer[c])
        PROVE  x \in Records /\ x \notin standing \cup ToSet(contents) /\ x[1] = c /\ x[2] <= written[c]
    <3>1. x \in Records
      BY <1>3, Basics
    <3> QED
      BY <1>3, <3>1 DEF Named, Made
  <2> QED
    BY <2>1
<1> HIDE DEF made, taken, after
<1>5. /\ buffer' \in [Connectors -> Seq(Entry)]
      /\ \A c \in Connectors : c \notin ToSet(order) => buffer'[c] = buffer[c]
      /\ \A c \in Connectors : c \in ToSet(order) => buffer'[c] = <<>>
  <2>1. <<>> \in Seq(Entry)
    OBVIOUS
  <2> QED
    BY <1>1, <2>1 DEF TypeOK
<1>6. standing' \subseteq standing \cup made /\ standing' \in SUBSET Records
  BY <1>1, <1>4 DEF TypeOK
<1>7. TypeOK'
  <2>1. lock' \in [RunUnits -> {"none", "read", "write"}]
    BY <1>1 DEF TypeOK
  <2>2. \A q \in RunUnits : doing'[q].op = "CLOSE" => lock'[q] = "none"
    BY <1>1 DEF TypeOK
  <2>3. \A c \in Connectors : mode'[c] \in {"CLOSED", "INPUT"} => buffer'[c] = <<>>
    BY <1>1, <1>5 DEF TypeOK
  <2>4. contents' \in Seq(Records \cup {Hole})
    BY <1>1, <1>2 DEF File
  <2> QED
    BY <1>1, <1>5, <1>6, <2>1, <2>2, <2>3, <2>4 DEF TypeOK
<1>8. UnderWay'
  <2>1. \A q \in RunUnits : Of(q)' = Of(q)
    BY <1>1 DEF Of
  <2>2. \A q \in RunUnits : (doing[q] = Idle \/ Opening(q) \/ Closing(q))'
    BY <1>1, <2>1 DEF UnderWay, Opening, Closing
  <2> QED
    BY <1>1, <2>2 DEF UnderWay
<1>9. Careful' = Careful /\ \A c \in Connectors : Using(c)' = Using(c)
  BY <1>1 DEF Careful, Using
<1>10. LocksHeld'
  <2>1. Careful => lock' = lock
    BY <1>1 DEF Careful, TypeOK
  <2> QED
    BY <1>1, <1>9, <2>1 DEF LocksHeld
<1>11. Unread'
  BY <1>1 DEF Unread
<1>12. Named'
  <2>1. \A x \in standing' \cup ToSet(contents') : x \in standing \cup ToSet(contents) \/ x \in made \/ x = Hole
    BY <1>1, <1>2, <1>6
  <2>2. ASSUME NEW d \in Connectors, NEW x \in standing' \cup ToSet(contents'), x[1] = d
        PROVE  x[2] <= written[d]
    <3>1. CASE x \in standing \cup ToSet(contents)
      BY <2>2, <3>1 DEF Named
    <3>2. CASE x \in made
      BY <1>4, <2>2, <3>2
    <3>3. CASE x = Hole
      BY <2>2, <3>3, NamesAssumption DEF Hole
    <3> QED
      BY <2>1, <3>1, <3>2, <3>3
  <2>3. ASSUME NEW d \in Connectors, NEW i \in DOMAIN buffer'[d]
        PROVE  /\ buffer'[d][i].rec[1] = d /\ buffer'[d][i].rec[2] <= written[d]
               /\ buffer'[d][i].rec \notin standing' \cup ToSet(contents')
    <3>1. d \notin ToSet(order) /\ buffer'[d] = buffer[d]
      BY <1>5, <2>3
    <3>2. /\ buffer[d][i].rec[1] = d /\ buffer[d][i].rec[2] <= written[d]
          /\ buffer[d][i].rec \notin standing \cup ToSet(contents)
      BY <2>3, <3>1 DEF Named
    <3>3. buffer[d][i].rec \notin made
      BY <1>4, <3>1, <3>2
    <3>4. buffer[d][i].rec # Hole
      BY <3>2, NamesAssumption DEF Hole
    <3> QED
      BY <2>1, <3>1, <3>2, <3>3, <3>4
  <2> QED
    BY <1>1, <2>2, <2>3 DEF Named
<1>13. Placed'
  <2>1. ASSUME NEW d \in Connectors
        PROVE  /\ mode[d] = "EXTEND" => Appending(buffer'[d])
               /\ mode[d] \in {"OUTPUT", "I-O"} => Ascending(buffer'[d], at[d])
               /\ d \in read_done => mode[d] = "I-O" /\ 1 <= at[d] /\ Ascending(buffer'[d], at[d] - 1)
    <3>1. CASE d \in ToSet(order)
      BY <1>5, <3>1, EmptyBuffer DEF Placed
    <3>2. CASE d \notin ToSet(order)
      BY <1>5, <3>2 DEF Placed
    <3> QED
      BY <3>1, <3>2
  <2> QED
    BY <1>1, <2>1 DEF Placed, Appending, Ascending
<1>14. ASSUME Careful
       PROVE  \/ contents' = contents /\ standing' = standing
              \/ \E c \in Connectors :
                   /\ ToSet(order) = {c} /\ Using(c) /\ mode[c] # "INPUT"
                   /\ contents' = Flushed(contents, buffer[c])
                   /\ standing' = (standing \ Taken(buffer[c])) \cup Made(buffer[c])
  <2>1. \A i, j \in DOMAIN order : order[i] = order[j]
    <3> SUFFICES ASSUME NEW i \in DOMAIN order, NEW j \in DOMAIN order PROVE order[i] = order[j]
      OBVIOUS
    <3>1. /\ order[i] \in Connectors /\ order[j] \in Connectors
          /\ OwnerOf[order[i]] = r /\ OwnerOf[order[j]] = r
      BY Basics
    <3> QED
      BY <1>14, <3>1 DEF UnderWay, Careful
  <2>2. Len(order) \in Nat /\ DOMAIN order = 1..Len(order)
    OBVIOUS
  <2>3. Len(order) <= 1
    <3> SUFFICES ASSUME Len(order) >= 2 PROVE FALSE
      BY <2>2
    <3>1. 1 \in DOMAIN order /\ 2 \in DOMAIN order
      BY <2>2
    <3> QED
      BY <2>1, <3>1
  <2>4. CASE Len(order) = 0
    <3>1. ToSet(order) = {}
      BY <2>4 DEF ToSet
    <3>2. made = {} /\ taken = {}
      BY <3>1 DEF made, taken
    <3> QED
      BY <1>1, <1>2, <2>4, <3>2
  <2>5. CASE Len(order) = 1
    <3> DEFINE c == order[1]
    <3>1. /\ ToSet(order) = {c} /\ c \in Connectors /\ c \in Of(r) /\ mode[c] # "CLOSED"
      BY <2>2, <2>5 DEF ToSet
    <3>2. made = Made(buffer[c]) /\ taken = Taken(buffer[c])
      BY <3>1 DEF made, taken
    <3>3. contents' = Flushed(contents, buffer[c])
      BY <1>1, <1>2, <2>5
    <3>4. Using(c)
      BY <3>1, IdleFacts, Basics DEF Using
    <3> HIDE DEF c
    <3>5. CASE mode[c] = "INPUT"
      <4>1. buffer[c] = <<>> /\ contents \in File
        BY <3>1, <3>5, Basics
      <4> QED
        BY <1>1, <3>2, <3>3, <4>1, FlushedNothing
    <3> QED
      BY <1>1, <3>1, <3>2, <3>3, <3>4, <3>5
  <2> QED
    BY <2>2, <2>3, <2>4, <2>5
<1>15. Sheltered' /\ RecordsStand'
  <2> SUFFICES ASSUME Careful
               PROVE  /\ standing' \subseteq ToSet(contents')
                      /\ \A d \in Connectors : Using(d) =>
                           /\ Spared(buffer'[d], contents', standing')
                           /\ mode[d] = "OUTPUT" => \A j \in DOMAIN contents' : contents'[j] \in standing' => j <= at[d]
    BY <1>1, <1>9 DEF Sheltered, RecordsStand, Spared
  <2>1. standing \subseteq ToSet(contents)
    BY DEF RecordsStand
  <2>2. CASE contents' = contents /\ standing' = standing
    <3>1. ASSUME NEW d \in Connectors, Using(d)
          PROVE  /\ Spared(buffer'[d], contents, standing)
                 /\ mode[d] = "OUTPUT" => \A j \in DOMAIN contents : contents[j] \in standing => j <= at[d]
      <4>1. CASE d \in ToSet(order)
        BY <1>5, <3>1, <4>1, EmptyBuffer DEF Sheltered
      <4>2. CASE d \notin ToSet(order)
        BY <1>5, <3>1, <4>2 DEF Sheltered
      <4> QED
        BY <4>1, <4>2
    <3> QED
      BY <2>1, <2>2, <3>1
  <2>3. ASSUME NEW c \in Connectors, ToSet(order) = {c}, Using(c), mode[c] # "INPUT",
               contents' = Flushed(contents, buffer[c]),
               standing' = (standing \ Taken(buffer[c])) \cup Made(buffer[c])
        PROVE  /\ standing' \subseteq ToSet(contents')
               /\ \A d \in Connectors : Using(d) =>
                    /\ Spared(buffer'[d], contents', standing')
                    /\ mode[d] = "OUTPUT" => \A j \in DOMAIN contents' : contents'[j] \in standing' => j <= at[d]
    <3>1. /\ contents \in File /\ buffer[c] \in Seq(Entry) /\ at[c] \in Int
          /\ mode[c] \in {"OUTPUT", "EXTEND", "I-O"}
      BY <2>3, Basics DEF TypeOK, Modes, Using
    <3>2. Appending(buffer[c]) \/ Ascending(buffer[c], at[c])
      BY <3>1 DEF Placed
    <3>3. Spared(buffer[c], contents, standing)
      BY <2>3 DEF Sheltered
    <3>4. standing' \subseteq ToSet(contents')
      BY <2>1, <2>3, <3>1, <3>2, <3>3, FlushedKeeps
    <3>5. ASSUME NEW d \in Connectors, Using(d)
          PROVE  /\ Spared(buffer'[d], contents', standing')
                 /\ mode[d] = "OUTPUT" => \A j \in DOMAIN contents' : contents'[j] \in standing' => j <= at[d]
      <4>1. d = c
        BY <2>3, <3>5, UsersShare
      <4>2. buffer'[c] = <<>>
        BY <1>5, <2>3
      <4>3. Spared(<<>>, contents', standing')
        BY EmptyBuffer
      <4>4. ASSUME mode[c] = "OUTPUT"
            PROVE  \A j \in DOMAIN contents' : contents'[j] \in standing' => j <= at[c]
        <5>1. Ascending(buffer[c], at[c])
          BY <4>4 DEF Placed
        <5>2. \A j \in DOMAIN contents : contents[j] \in standing => j <= at[c]
          BY <2>3, <4>4 DEF Sheltered
        <5>3. standing' \in SUBSET Records /\ standing' \subseteq standing \cup Made(buffer[c])
          BY <1>6, <2>3
        <5>4. \A x \in Made(buffer[c]) : x \notin ToSet(contents)
          BY DEF Named, Made
        <5> QED
          BY <2>3, <3>1, <5>1, <5>2, <5>3, <5>4, FlushedBelow
      <4> QED
        BY <4>1, <4>2, <4>3, <4>4
    <3> QED
      BY <3>4, <3>5
  <2> QED
    BY <1>14, <2>2, <2>3
<1> QED
  BY <1>7, <1>8, <1>10, <1>11, <1>12, <1>13, <1>15

(* UNLOCK of one connector. *)
LEMMA UnlockKeeps ==
  ASSUME IInv, NEW c \in Connectors, Unlock(c)
  PROVE  IInv'
<1> DEFINE order == <<c>>
<1>1. /\ c \in setup.used /\ doing[OwnerOf[c]] = Idle /\ mode[c] # "CLOSED"
      /\ UnlockFiles(OwnerOf[c], order)
  BY DEF Unlock, Ready
<1>2. OwnerOf[c] \in RunUnits /\ c \in Of(OwnerOf[c])
  BY <1>1, Basics DEF Of, IInv
<1>3. order \in Seq(Connectors) /\ DOMAIN order = {1} /\ order[1] = c
  OBVIOUS
<1> HIDE DEF order
<1> QED
  BY <1>1, <1>2, <1>3, UnlockFilesKeeps

(* COMMIT and ROLLBACK of all open connectors, in any order. *)
LEMMA CommitOrRollbackKeeps ==
  ASSUME IInv, NEW r \in RunUnits, CommitOrRollback(r)
  PROVE  IInv'
<1> DEFINE open == {c \in Of(r) : mode[c] # "CLOSED"}
<1>1. PICK order \in SetToSeqs(open) : doing[r] = Idle /\ UnlockFiles(r, order)
  BY DEF CommitOrRollback
<1>2. open \subseteq Connectors
  BY Basics DEF IInv
<1>3. Cardinality(open) \in Nat
  BY <1>2, SharingAssumption, FS_Subset, FS_CardinalityType
<1>4. /\ order \in [1..Cardinality(open) -> open]
      /\ \A i, j \in 1..Cardinality(open) : i # j => order[i] # order[j]
  BY <1>1 DEF SetToSeqs
<1>5. \A i \in DOMAIN order : order[i] \in open
  BY <1>4
<1>6. order \in Seq(Connectors)
  BY <1>2, <1>3, <1>4
<1> QED
  BY <1>1, <1>4, <1>5, <1>6, UnlockFilesKeeps

-----------------------------------------------------------------------------
(* The theorems. *)

(* Every step keeps the invariant. *)
LEMMA NextKeeps == IInv /\ [Next]_vars => IInv'
<1> SUFFICES ASSUME IInv, [Next]_vars PROVE IInv'
  OBVIOUS
<1>1. ASSUME NEW c \in Connectors, NEW m \in Modes, NEW noOther \in BOOLEAN, OpenFile(c, m, noOther)
      PROVE  IInv'
  BY <1>1, OpenFileKeeps
<1>2. ASSUME NEW c \in Connectors, Read(c) PROVE IInv'
  BY <1>2, ReadKeeps
<1>3. ASSUME NEW c \in Connectors, Write(c) PROVE IInv'
  BY <1>3, WriteKeeps
<1>4. ASSUME NEW c \in Connectors, Rewrite(c) PROVE IInv'
  BY <1>4, RewriteKeeps
<1>5. ASSUME NEW c \in Connectors, BeginClose(c) PROVE IInv'
  BY <1>5, BeginCloseKeeps
<1>6. ASSUME NEW c \in Connectors, Unlock(c) PROVE IInv'
  BY <1>6, UnlockKeeps
<1>7. ASSUME NEW r \in RunUnits, LockFile(r) PROVE IInv'
  BY <1>7, LockFileKeeps
<1>8. ASSUME NEW r \in RunUnits, EndClose(r) PROVE IInv'
  BY <1>8, EndCloseKeeps
<1>9. ASSUME NEW r \in RunUnits, CommitOrRollback(r) PROVE IInv'
  BY <1>9, CommitOrRollbackKeeps
<1>10. ASSUME NEW r \in RunUnits, Crash(r) PROVE IInv'
  BY <1>10, CrashKeeps
<1>11. CASE UNCHANGED vars
  <2>1. \A r \in RunUnits : Of(r)' = Of(r)
    BY <1>11 DEF vars, Of
  <2>2. \A c \in Connectors : Using(c)' = Using(c)
    BY <1>11 DEF vars, Using
  <2>3. Careful' = Careful
    BY <1>11 DEF vars, Careful
  <2>4. TypeOK'
    BY <1>11 DEF IInv, TypeOK, vars
  <2>5. UnderWay' /\ LocksHeld'
    BY <1>11, LocksUnmoved DEF IInv, vars
  <2>6. Unread' /\ Named' /\ RecordsStand'
    BY <1>11, <2>3 DEF IInv, Unread, Named, RecordsStand, vars
  <2>7. Placed'
    BY <1>11 DEF IInv, Placed, Appending, Ascending, vars
  <2>8. Sheltered'
    BY <1>11, <2>2, <2>3 DEF IInv, Sheltered, Spared, vars
  <2> QED
    BY <2>4, <2>5, <2>6, <2>7, <2>8 DEF IInv
<1> QED
  BY <1>1, <1>2, <1>3, <1>4, <1>5, <1>6, <1>7, <1>8, <1>9, <1>10, <1>11 DEF Next

(* The invariant of every state of the specification. *)
LEMMA Invariant == Spec => []IInv
<1>1. Init => IInv
  BY InitHolds
<1>2. IInv /\ [Next]_vars => IInv'
  BY NextKeeps
<1> QED
  BY <1>1, <1>2, PTL DEF Spec

(* Among careful programs, a connector that may write is alone with the file  *)
(* from the end of its OPEN to the start of its CLOSE, whatever OPENs are     *)
(* refused, processes end and files are closed around it.                     *)
THEOREM LocksAreSound == Spec => []LocksSound
<1>1. IInv => LocksSound
  <2> SUFFICES ASSUME IInv PROVE LocksSound
    OBVIOUS
  <2>1. \A c \in setup.used : c \in Connectors
    BY Basics DEF IInv
  <2>2. WriterAlone
    BY <2>1, UsersShare DEF WriterAlone, IInv
  <2> QED
    BY <2>2 DEF IInv, LocksSound
<1> QED
  BY <1>1, Invariant, PTL

(* Among careful programs no WRITE, REWRITE, COMMIT, ROLLBACK or UNLOCK        *)
(* destroys a record that stands in the file.                                  *)
THEOREM RecordsAreKept == Spec => []RecordsStand
<1>1. IInv => RecordsStand
  BY DEF IInv
<1> QED
  BY <1>1, Invariant, PTL

=============================================================================
