------------------------- MODULE PerformStackProofs -------------------------
(***************************************************************************)
(* The theorems of PerformStack, for every number of paragraphs, layout of *)
(* sections, size of the stack and set of programs.  The invariant IInv    *)
(* adds to the property of the run what the frames of a nested program and *)
(* the loop counters remember of the calls under way.                      *)
(***************************************************************************)
EXTENDS PerformStack, FiniteSetTheorems, TLAPS

-----------------------------------------------------------------------------
(* Least and greatest numbers of a set. *)

(* A nonempty set of numbers has a least one. *)
LEMMA LeastExists ==
  ASSUME NEW S \in SUBSET Nat, S # {}
  PROVE  \E n \in S : \A m \in S : n <= m
<1> DEFINE R == OpToRel(<, Nat)
<1>1. PICK n \in S : \A m \in S : ~ (<<m, n>> \in R)
  BY NatLessThanWellFounded, WFMin, Zenon
<1>2. ASSUME NEW m \in S PROVE n <= m
  <2>1. <<m, n>> \notin {p \in Nat \X Nat : p[1] < p[2]}
    BY <1>1 DEF OpToRel
  <2>2. <<m, n>> \in Nat \X Nat
    OBVIOUS
  <2>3. ~(m < n)
    BY <2>1, <2>2
  <2> QED
    BY <2>3
<1> QED
  BY <1>2

(* A nonempty set of numbers below a bound has a greatest one. *)
LEMMA GreatestExists ==
  ASSUME NEW k \in Nat, NEW S \in SUBSET (0..k), S # {}
  PROVE  \E n \in S : \A m \in S : m <= n
<1> DEFINE T == {k - n : n \in S}
<1> \A n \in S : n \in 0..k
  OBVIOUS
<1>1. T \in SUBSET Nat /\ T # {}
  <2>1. \A n \in S : k - n \in Nat
    OBVIOUS
  <2> QED
    BY <2>1
<1>2. PICK t \in T : \A u \in T : t <= u
  BY <1>1, LeastExists
<1>3. PICK n \in S : t = k - n
  BY <1>2
<1>4. ASSUME NEW m \in S PROVE m <= n
  <2>1. k - n <= k - m
    BY <1>2, <1>3
  <2> QED
    BY <2>1
<1> QED
  BY <1>4

-----------------------------------------------------------------------------
(* The spots, and what stands where in the generated code. *)

(* The bodies and labels, and their places in the code. *)
LEMMA SpotFacts ==
  /\ \A x \in Bodies : x[1] \in Paragraphs /\ x = <<x[1], 0>> /\ Place(x) = 3 * x[1]
  /\ \A x \in Labels : /\ x[1] \in Paragraphs /\ x[2] \in {1, 2} /\ x = <<x[1], x[2]>>
                       /\ x[2] = 2 => x[1] \in LastOf
                       /\ Place(x) = 3 * x[1] + x[2]
  /\ \A p \in Paragraphs : <<p, 0>> \in Bodies /\ <<p, 1>> \in Labels
  /\ \A p \in LastOf : <<p, 2>> \in Labels
  /\ End \notin Labels \cup Bodies /\ Fatal \notin Labels \cup Bodies /\ Overrun \notin Labels \cup Bodies
  /\ NoLabel \notin Labels /\ Labels \cap Bodies = {}
  /\ Fatal # Overrun /\ End # Fatal /\ End # Overrun
BY PerformAssumption DEF Bodies, Labels, Paragraphs, Place, End, Fatal, Overrun, NoLabel

(* A PERFORM statement of the program, and its range. *)
LEMMA SiteFacts ==
  ASSUME NEW s \in Statements
  PROVE  /\ s.at \in Paragraphs /\ s.first \in Paragraphs /\ s.through \in Labels
         /\ s.first <= s.through[1]
         /\ s.kind \in {"once", "times", "until"}
         /\ Within(<<s.first, 0>>, s)
BY SpotFacts, PerformAssumption DEF Statements, Within, Place, Paragraphs

(* The range of a PERFORM: <<first, 0>> up to the label through. *)
LEMMA WithinMeaning ==
  ASSUME NEW s \in Statements, NEW x \in Bodies \cup Labels
  PROVE  Within(x, s) <=> 3 * s.first <= Place(x) /\ Place(x) <= Place(s.through)
BY SpotFacts, SiteFacts DEF Within, Place, Paragraphs

(* From inside a range, and not at its end, code falls through to a spot inside. *)
LEMMA FollowingWithin ==
  ASSUME NEW s \in Statements, NEW x \in Labels, Within(x, s), x # s.through
  PROVE  Following(x) \in Bodies \cup Labels /\ Within(Following(x), s)
<1> DEFINE t == s.through
<1>1. /\ x[1] \in Paragraphs /\ x[2] \in {1, 2} /\ x = <<x[1], x[2]>> /\ (x[2] = 2 => x[1] \in LastOf)
      /\ t[1] \in Paragraphs /\ t[2] \in {1, 2} /\ t = <<t[1], t[2]>> /\ (t[2] = 2 => t[1] \in LastOf)
      /\ Place(x) = 3 * x[1] + x[2] /\ Place(t) = 3 * t[1] + t[2]
      /\ s.first \in Paragraphs
  BY SpotFacts, SiteFacts
<1>2. 3 * s.first <= Place(x) /\ Place(x) <= Place(t)
  BY WithinMeaning
<1>3. x[1] # t[1] \/ x[2] # t[2]
  BY <1>1
<1>4. Place(x) < Place(t)
  BY <1>1, <1>2, <1>3 DEF Paragraphs
<1>5. CASE x[2] = 1 /\ x[1] \in LastOf
  <2>1. Following(x) = <<x[1], 2>>
    BY <1>5 DEF Following
  <2>2. Following(x) \in Labels /\ Place(Following(x)) = 3 * x[1] + 2
    BY <1>5, <2>1, SpotFacts DEF Place
  <2> QED
    BY <1>1, <1>2, <1>4, <1>5, <2>2, WithinMeaning DEF Paragraphs
<1>6. CASE ~(x[2] = 1 /\ x[1] \in LastOf)
  <2>1. Following(x) = <<x[1] + 1, 0>>
    BY <1>6 DEF Following
  <2>2. x[1] < t[1]
    BY <1>1, <1>4, <1>6 DEF Paragraphs
  <2>3. x[1] + 1 \in Paragraphs
    BY <1>1, <2>2, PerformAssumption DEF Paragraphs
  <2>4. Following(x) \in Bodies /\ Place(Following(x)) = 3 * (x[1] + 1)
    BY <2>1, <2>3, SpotFacts DEF Place
  <2> QED
    BY <1>1, <1>2, <2>2, <2>4, WithinMeaning DEF Paragraphs
<1> QED
  BY <1>5, <1>6

(* The paragraph that closes the section of p. *)
LEMMA SectionEnd ==
  ASSUME NEW p \in Paragraphs
  PROVE  LET e == CHOOSE q \in LastOf : q >= p /\ \A r \in LastOf : r >= p => r >= q
         IN  e \in LastOf /\ e >= p
<1> DEFINE S == {q \in LastOf : q >= p}
<1>1. S \in SUBSET Nat /\ S # {}
  <2>1. N \in S
    BY PerformAssumption DEF Paragraphs
  <2>2. \A q \in LastOf : q \in Nat
    BY PerformAssumption DEF Paragraphs
  <2> QED
    BY <2>1, <2>2
<1>2. PICK q \in S : \A r \in S : q <= r
  BY <1>1, LeastExists
<1>3. q \in LastOf /\ q >= p /\ \A r \in LastOf : r >= p => r >= q
  BY <1>2, PerformAssumption DEF Paragraphs
<1> QED
  BY <1>3
-----------------------------------------------------------------------------
(* The counters: those of loops that are no PERFORM TIMES are not used, and *)
(* every turn that takes one below zero has taken its frame off the stack.  *)
CountsUsed ==
  /\ \A s \in prog.sites : s.kind # "times" => count[s] = 0
  /\ \A s \in prog.sites : count[s] >= 1 - StackSize
  /\ \A i \in 2..Len(frames) : count[frames[i].site] >= i - StackSize

(* The frames of a nested program: each of another PERFORM, standing inside *)
(* the range of the frame below, with turns left, and with perform-osvs not *)
(* around the end of a range below.                                         *)
FramesNest ==
  prog.nested =>
    \A i \in 2..Len(frames) :
      /\ frames[i].site.kind = "times" => count[frames[i].site] > 0
      /\ i > 2 => Within(<<frames[i].site.at, 0>>, frames[i - 1].site)
      /\ \A j \in 2..i - 1 :
           /\ frames[j].site # frames[i].site
           /\ prog.osvs => \/ ~Within(frames[j].through, frames[i].site)
                           \/ frames[j].through = frames[i].through

IInv == TypeOK /\ ControlInRange /\ NoOverrun /\ NoFalseAlarm /\ CountsUsed /\ FramesNest

(* What TypeOK says of the program and its frames. *)
LEMMA FrameFacts ==
  ASSUME TypeOK
  PROVE  /\ prog.sites \subseteq Statements
         /\ prog.nested \in BOOLEAN /\ prog.osvs \in BOOLEAN /\ prog.check \in BOOLEAN
         /\ Len(frames) \in Nat /\ 1 <= Len(frames) /\ Len(frames) <= StackSize
         /\ Len(frames) = 1 \/ Len(frames) > 1
         /\ \A i \in 2..Len(frames) :
              /\ frames[i].site \in prog.sites /\ frames[i].site \in Statements
              /\ frames[i].through = frames[i].site.through /\ frames[i].through \in Labels
         /\ \A s \in prog.sites : count[s] \in Int
<1>1. prog.sites \subseteq Statements /\ prog.nested \in BOOLEAN /\ prog.osvs \in BOOLEAN
      /\ prog.check \in BOOLEAN
  BY DEF TypeOK, Program
<1>2. /\ Len(frames) \in Nat /\ 1 <= Len(frames) /\ Len(frames) <= StackSize
      /\ Len(frames) = 1 \/ Len(frames) > 1
  <2> DEFINE m == Len(frames)
  <2>1. m \in 1..StackSize
    BY DEF TypeOK
  <2> HIDE DEF m
  <2>2. m \in Nat /\ 1 <= m /\ m <= StackSize /\ (m = 1 \/ m > 1)
    BY <2>1, PerformAssumption
  <2> QED
    BY <2>2 DEF m
<1>3. ASSUME NEW i \in 2..Len(frames)
      PROVE  /\ frames[i].site \in prog.sites /\ frames[i].site \in Statements
             /\ frames[i].through = frames[i].site.through /\ frames[i].through \in Labels
  <2>1. frames[i].site \in prog.sites /\ frames[i].through = frames[i].site.through
    BY <1>3 DEF TypeOK
  <2> QED
    BY <1>1, <2>1, SiteFacts
<1>4. \A s \in prog.sites : count[s] \in Int
  BY PerformAssumption DEF TypeOK
<1> QED
  BY <1>1, <1>2, <1>3, <1>4

(* There are finitely many PERFORM statements. *)
LEMMA StatementsFinite == IsFiniteSet(Statements)
<1> DEFINE Kinds == {"once", "times", "until"}
           Pairs == (Paragraphs \X Paragraphs) \X ((Paragraphs \X {1, 2}) \X Kinds)
           All   == [at : Paragraphs, first : Paragraphs, through : Paragraphs \X {1, 2}, kind : Kinds]
           pair  == [s \in All |-> <<<<s.at, s.first>>, <<s.through, s.kind>>>>]
<1>1. IsFiniteSet(Paragraphs)
  BY FS_Interval, PerformAssumption DEF Paragraphs
<1>2. IsFiniteSet({1, 2}) /\ IsFiniteSet(Kinds)
  <2>1. IsFiniteSet({1} \cup {2})
    BY FS_Singleton, FS_AddElement, Zenon
  <2>2. IsFiniteSet(({"once"} \cup {"times"}) \cup {"until"})
    BY FS_Singleton, FS_AddElement, Zenon
  <2>3. {1} \cup {2} = {1, 2} /\ ({"once"} \cup {"times"}) \cup {"until"} = Kinds
    OBVIOUS
  <2> QED
    BY <2>1, <2>2, <2>3, Zenon
<1>3. IsFiniteSet(Pairs)
  <2>1. IsFiniteSet(Paragraphs \X Paragraphs) /\ IsFiniteSet(Paragraphs \X {1, 2})
    BY <1>1, <1>2, FS_Product, Zenon
  <2>2. IsFiniteSet((Paragraphs \X {1, 2}) \X Kinds)
    BY <1>2, <2>1, FS_Product, Zenon
  <2> QED
    BY <2>1, <2>2, FS_Product, Zenon
<1>4. pair \in Injection(All, Pairs)
  <2>1. pair \in [All -> Pairs]
    OBVIOUS
  <2>2. ASSUME NEW s \in All, NEW t \in All, pair[s] = pair[t]
        PROVE  s = t
    <3>1. s.at = t.at /\ s.first = t.first /\ s.through = t.through /\ s.kind = t.kind
      BY <2>2
    <3> QED
      BY <3>1
  <2> QED
    BY <2>1, <2>2 DEF Injection, IsInjective
<1>5. IsFiniteSet(All)
  BY <1>3, <1>4, FS_Injection, Zenon
<1>6. Statements \subseteq All
  BY SpotFacts, PerformAssumption DEF Statements, Labels, Paragraphs
<1> QED
  BY <1>5, <1>6, FS_Subset, Zenon

(* A nested program has as many PERFORM statements as frames under way, and *)
(* one more for a statement that may be performed on top of k of them.       *)
LEMMA FreshSite ==
  ASSUME TypeOK, FramesNest, prog.nested,
         NEW k \in 1..Len(frames), NEW s \in prog.sites,
         \A i \in 2..k : frames[i].site # s
  PROVE  k <= Cardinality(prog.sites) /\ Cardinality(prog.sites) \in Nat
<1> DEFINE f == [i \in 1..k |-> IF i = 1 THEN s ELSE frames[i].site]
<1>1. IsFiniteSet(prog.sites)
  BY StatementsFinite, FrameFacts, FS_Subset, Zenon
<1>2. k \in Nat /\ k >= 1 /\ k <= Len(frames) /\ Len(frames) \in Nat
  BY FrameFacts
<1>3. ASSUME NEW i \in 1..k PROVE f[i] \in prog.sites
  <2>1. i # 1 => i \in 2..Len(frames)
    BY <1>2
  <2> QED
    BY <2>1, FrameFacts
<1>4. ASSUME NEW i \in 1..k, NEW j \in 1..k, j < i PROVE f[i] # f[j]
  <2>1. i \in 2..k /\ i \in 2..Len(frames) /\ f[i] = frames[i].site
    BY <1>2, <1>4
  <2>2. CASE j = 1
    BY <2>1, <2>2
  <2>3. CASE j # 1
    <3>1. j \in 2..i - 1 /\ f[j] = frames[j].site
      BY <1>2, <1>4, <2>3
    <3> QED
      BY <2>1, <3>1 DEF FramesNest
  <2> QED
    BY <2>2, <2>3
<1>5. f \in Injection(1..k, prog.sites)
  <2>1. f \in [1..k -> prog.sites]
    BY <1>3
  <2>2. ASSUME NEW i \in 1..k, NEW j \in 1..k, f[i] = f[j] PROVE i = j
    <3>1. ~(i < j) /\ ~(j < i)
      BY <1>4, <2>2
    <3> QED
      BY <1>2, <3>1
  <2> HIDE DEF f
  <2> QED
    BY <2>1, <2>2 DEF Injection, IsInjective
<1>6. Cardinality(1..k) <= Cardinality(prog.sites)
  BY <1>1, <1>5, FS_Injection, Zenon
<1>7. Cardinality(1..k) = k
  BY <1>2, FS_Interval
<1> QED
  BY <1>1, <1>6, <1>7, FS_CardinalityType

(* Nested ranges fit the stack. *)
LEMMA FitsWhenNested == TypeOK /\ FramesNest => NestedFits
<1> SUFFICES ASSUME TypeOK, FramesNest, prog.nested
             PROVE  Len(frames) <= Cardinality(prog.sites) + 1
  BY DEF NestedFits
<1>1. Len(frames) \in Nat /\ Cardinality(prog.sites) \in Nat
  BY StatementsFinite, FrameFacts, FS_Subset, FS_CardinalityType
<1>2. CASE Len(frames) <= 1
  BY <1>1, <1>2
<1>3. CASE Len(frames) > 1
  <2> DEFINE k == Len(frames) - 1
             s == frames[Len(frames)].site
  <2>1. k \in 1..Len(frames) /\ Len(frames) \in 2..Len(frames)
    BY <1>1, <1>3
  <2>2. s \in prog.sites
    BY <2>1, FrameFacts
  <2>3. \A i \in 2..k : frames[i].site # s
    BY <2>1 DEF FramesNest
  <2>4. k <= Cardinality(prog.sites)
    BY <2>1, <2>2, <2>3, FreshSite
  <2> QED
    BY <1>1, <2>4
<1> QED
  BY <1>1, <1>2, <1>3
-----------------------------------------------------------------------------
(* What a step does to the frames. *)

(* The first k frames, and another on top of them. *)
LEMMA FramesBelow ==
  ASSUME TypeOK, NEW k \in 1..Len(frames)
  PROVE  /\ SubSeq(frames, 1, k) \in Seq(Frame)
         /\ Len(SubSeq(frames, 1, k)) = k
         /\ \A i \in 1..k : SubSeq(frames, 1, k)[i] = frames[i]
BY FrameFacts DEF TypeOK

(* The frames after a PERFORM. *)
LEMMA FramesPushed ==
  ASSUME NEW b \in Seq(Frame), NEW s \in Statements
  PROVE  LET g == Append(b, [through |-> s.through, site |-> s])
         IN  /\ g \in Seq(Frame)
             /\ Len(g) = Len(b) + 1
             /\ \A i \in 1..Len(b) : g[i] = b[i]
             /\ g[Len(b) + 1] = [through |-> s.through, site |-> s]
<1>1. [through |-> s.through, site |-> s] \in Frame
  BY SiteFacts DEF Frame
<1> QED
  BY <1>1

(* k frames stay, and the counter of s takes a value that they allow. *)
Kept(k, s, n) ==
  /\ prog' = prog
  /\ frames' \in Seq(Frame) /\ Len(frames') = k
  /\ \A i \in 1..k : frames'[i] = frames[i]
  /\ count' = [count EXCEPT ![s] = n]
  /\ n >= 1 - StackSize
  /\ s.kind # "times" => n = 0
  /\ \A i \in 2..k : frames[i].site = s => n >= i - StackSize
  /\ prog.nested => \A i \in 2..k : frames[i].site # s

(* A step that leaves the frames alone keeps the invariant. *)
LEMMA KeptInv ==
  ASSUME IInv, NEW k \in 1..Len(frames), NEW s \in prog.sites, NEW n \in -StackSize..MaxTimes,
         Kept(k, s, n)
  PROVE  /\ spot' \in Spots => TypeOK'
         /\ CountsUsed' /\ FramesNest'
<1>1. TypeOK /\ CountsUsed /\ FramesNest
  BY DEF IInv
<1>2. /\ prog' = prog /\ frames' \in Seq(Frame) /\ Len(frames') = k
      /\ \A i \in 1..k : frames'[i] = frames[i]
      /\ k \in Nat /\ 1 <= k /\ k <= Len(frames) /\ Len(frames) <= StackSize
      /\ StackSize \in Nat /\ n \in Int
  BY <1>1, FrameFacts, PerformAssumption DEF Kept
<1>3. /\ count' \in [prog.sites -> -StackSize..MaxTimes]
      /\ count'[s] = n
      /\ \A t \in prog.sites : t # s => count'[t] = count[t]
  BY <1>1 DEF Kept, TypeOK
<1>4. \A i \in 2..k : i \in 2..Len(frames) /\ frames'[i] = frames[i] /\ frames[i].site \in prog.sites
  BY <1>1, <1>2, FrameFacts
<1>5. ASSUME spot' \in Spots PROVE TypeOK'
  <2>1. frames'[1] = Base
    BY <1>1, <1>2 DEF TypeOK
  <2>2. \A i \in 2..Len(frames') : frames'[i].site \in prog'.sites /\ frames'[i].through = frames'[i].site.through
    BY <1>1, <1>2, <1>4 DEF TypeOK
  <2>3. Len(frames') \in 1..StackSize
    BY <1>2
  <2> QED
    BY <1>1, <1>2, <1>3, <1>5, <2>1, <2>2, <2>3 DEF TypeOK
<1>6. CountsUsed'
  <2>1. ASSUME NEW t \in prog.sites PROVE (t.kind # "times" => count'[t] = 0) /\ count'[t] >= 1 - StackSize
    BY <1>1, <1>3 DEF CountsUsed, Kept
  <2>2. ASSUME NEW i \in 2..k PROVE count'[frames'[i].site] >= i - StackSize
    <3>1. CASE frames[i].site = s
      BY <1>3, <1>4, <3>1 DEF Kept
    <3>2. CASE frames[i].site # s
      BY <1>1, <1>3, <1>4, <3>2 DEF CountsUsed
    <3> QED
      BY <3>1, <3>2
  <2> QED
    BY <1>2, <2>1, <2>2 DEF CountsUsed
<1>7. FramesNest'
  <2> SUFFICES ASSUME prog.nested, NEW i \in 2..k
               PROVE  /\ frames'[i].site.kind = "times" => count'[frames'[i].site] > 0
                      /\ i > 2 => Within(<<frames'[i].site.at, 0>>, frames'[i - 1].site)
                      /\ \A j \in 2..i - 1 :
                           /\ frames'[j].site # frames'[i].site
                           /\ prog.osvs => \/ ~Within(frames'[j].through, frames'[i].site)
                                           \/ frames'[j].through = frames'[i].through
    BY <1>2 DEF FramesNest
  <2>1. \A j \in 2..i - 1 : frames'[j] = frames[j]
    BY <1>4, <1>2
  <2>2. i > 2 => frames'[i - 1] = frames[i - 1]
    BY <1>4, <1>2
  <2>3. frames[i].site # s /\ count'[frames[i].site] = count[frames[i].site]
    BY <1>3, <1>4 DEF Kept
  <2> QED
    BY <1>1, <1>4, <2>1, <2>2, <2>3 DEF FramesNest
<1> QED
  BY <1>5, <1>6, <1>7

(* A frame for s is pushed on the first k, with the counter n of s. *)
Pushed(k, s, n) ==
  /\ prog' = prog
  /\ frames' = Append(SubSeq(frames, 1, k), [through |-> s.through, site |-> s])
  /\ spot' = <<s.first, 0>>
  /\ k < StackSize
  /\ count' = [count EXCEPT ![s] = n]
  /\ n >= 0
  /\ IF s.kind = "times" THEN n > 0 ELSE n = 0
  /\ prog.nested =>
       /\ k > 1 => Within(<<s.at, 0>>, frames[k].site)
       /\ \A i \in 2..k :
            /\ frames[i].site # s
            /\ prog.osvs => ~Within(frames[i].through, s) \/ frames[i].through = s.through

(* A PERFORM that begins a range keeps the invariant. *)
LEMMA PushedInv ==
  ASSUME IInv, NEW k \in 1..Len(frames), NEW s \in prog.sites, NEW n \in -StackSize..MaxTimes,
         Pushed(k, s, n)
  PROVE  IInv'
<1>1. TypeOK /\ CountsUsed /\ FramesNest
  BY DEF IInv
<1>2. /\ prog' = prog /\ s \in Statements /\ k \in Nat /\ 1 <= k /\ k <= Len(frames)
      /\ Len(frames) \in Nat /\ Len(frames) <= StackSize /\ StackSize \in Nat /\ n \in Int /\ k < StackSize
  BY <1>1, FrameFacts, PerformAssumption DEF Pushed
<1>3. /\ frames' \in Seq(Frame) /\ Len(frames') = k + 1
      /\ \A i \in 1..k : frames'[i] = frames[i]
      /\ frames'[k + 1] = [through |-> s.through, site |-> s]
  <2> DEFINE b == SubSeq(frames, 1, k)
  <2>1. b \in Seq(Frame) /\ Len(b) = k /\ \A i \in 1..k : b[i] = frames[i]
    BY <1>1, FramesBelow
  <2>2. frames' = Append(b, [through |-> s.through, site |-> s])
    BY DEF Pushed
  <2> HIDE DEF b
  <2> QED
    BY <1>2, <2>1, <2>2, FramesPushed
<1>4. /\ count' \in [prog.sites -> -StackSize..MaxTimes]
      /\ count'[s] = n
      /\ \A t \in prog.sites : t # s => count'[t] = count[t]
  BY <1>1 DEF Pushed, TypeOK
<1>5. \A i \in 2..k : i \in 2..Len(frames) /\ frames'[i] = frames[i] /\ frames[i].site \in prog.sites
  BY <1>1, <1>2, <1>3, FrameFacts
<1>6. ASSUME NEW i \in 2..Len(frames')
      PROVE  i \in 2..k \/ i = k + 1
  BY <1>2, <1>3
<1>7. TypeOK'
  <2>1. frames'[1] = Base
    BY <1>1, <1>2, <1>3 DEF TypeOK
  <2>2. ASSUME NEW i \in 2..Len(frames')
        PROVE  frames'[i].site \in prog'.sites /\ frames'[i].through = frames'[i].site.through
    <3>1. CASE i \in 2..k
      BY <1>1, <1>2, <1>5, <3>1, FrameFacts
    <3>2. CASE i = k + 1
      BY <1>2, <1>3, <3>2
    <3> QED
      BY <1>6, <3>1, <3>2
  <2>3. Len(frames') \in 1..StackSize
    BY <1>2, <1>3
  <2>4. spot' \in Spots
    BY <1>2, SiteFacts, SpotFacts DEF Pushed, Spots
  <2> QED
    BY <1>1, <1>2, <1>3, <1>4, <2>1, <2>2, <2>3, <2>4 DEF TypeOK
<1>8. CountsUsed'
  <2>1. ASSUME NEW t \in prog.sites PROVE (t.kind # "times" => count'[t] = 0) /\ count'[t] >= 1 - StackSize
    BY <1>1, <1>2, <1>4, PerformAssumption DEF CountsUsed, Pushed
  <2>2. ASSUME NEW i \in 2..Len(frames') PROVE count'[frames'[i].site] >= i - StackSize
    <3>1. CASE frames'[i].site = s
      BY <1>2, <1>3, <1>4, <3>1 DEF Pushed
    <3>2. CASE frames'[i].site # s
      BY <1>1, <1>3, <1>4, <1>5, <1>6, <3>2 DEF CountsUsed
    <3> QED
      BY <3>1, <3>2
  <2> QED
    BY <1>2, <2>1, <2>2 DEF CountsUsed
<1>9. FramesNest'
  <2> SUFFICES ASSUME prog.nested, NEW i \in 2..Len(frames')
               PROVE  /\ frames'[i].site.kind = "times" => count'[frames'[i].site] > 0
                      /\ i > 2 => Within(<<frames'[i].site.at, 0>>, frames'[i - 1].site)
                      /\ \A j \in 2..i - 1 :
                           /\ frames'[j].site # frames'[i].site
                           /\ prog.osvs => \/ ~Within(frames'[j].through, frames'[i].site)
                                           \/ frames'[j].through = frames'[i].through
    BY <1>2 DEF FramesNest
  <2>1. CASE i \in 2..k
    <3>1. \A j \in 2..i - 1 : frames'[j] = frames[j]
      BY <1>2, <1>5, <2>1
    <3>2. i > 2 => frames'[i - 1] = frames[i - 1]
      BY <1>2, <1>5, <2>1
    <3>3. frames[i].site # s /\ count'[frames[i].site] = count[frames[i].site]
      BY <1>4, <1>5, <2>1 DEF Pushed
    <3>4. /\ frames[i].site.kind = "times" => count[frames[i].site] > 0
          /\ i > 2 => Within(<<frames[i].site.at, 0>>, frames[i - 1].site)
          /\ \A j \in 2..i - 1 :
               /\ frames[j].site # frames[i].site
               /\ prog.osvs => \/ ~Within(frames[j].through, frames[i].site)
                               \/ frames[j].through = frames[i].through
      BY <1>1, <1>5, <2>1, Zenon DEF FramesNest
    <3>5. frames'[i] = frames[i]
      BY <1>5, <2>1
    <3> QED
      BY <3>1, <3>2, <3>3, <3>4, <3>5, Zenon
  <2>2. CASE i = k + 1
    <3>1. frames'[i].site = s /\ frames'[i].through = s.through
      BY <1>3, <2>2
    <3>2. \A j \in 2..i - 1 : j \in 2..k /\ frames'[j] = frames[j]
      BY <1>2, <1>5, <2>2
    <3>3. i > 2 => k > 1 /\ frames'[i - 1] = frames[k]
      BY <1>2, <1>3, <2>2
    <3>4. s.kind = "times" => count'[s] > 0
      BY <1>4 DEF Pushed
    <3>5. i > 2 => Within(<<s.at, 0>>, frames'[i - 1].site)
      BY <3>3 DEF Pushed
    <3>6. ASSUME NEW j \in 2..i - 1
          PROVE  /\ frames'[j].site # s
                 /\ prog.osvs => ~Within(frames'[j].through, s) \/ frames'[j].through = s.through
      BY <3>2 DEF Pushed
    <3> QED
      BY <3>1, <3>4, <3>5, <3>6
  <2> QED
    BY <1>6, <2>1, <2>2
<1>10. ControlInRange' /\ NoOverrun' /\ NoFalseAlarm'
  <2>1. spot' \in Bodies /\ spot' \notin {Fatal, Overrun}
    <3>1. spot' = <<s.first, 0>> /\ s.first \in Paragraphs
      BY <1>2, SiteFacts DEF Pushed
    <3> QED
      BY <3>1, SpotFacts
  <2>2. frames'[Len(frames')].site = s
    BY <1>2, <1>3
  <2>3. Within(spot', s)
    BY <1>2, SiteFacts DEF Pushed
  <2> QED
    BY <2>1, <2>2, <2>3 DEF ControlInRange, NoOverrun, NoFalseAlarm, Top
<1> QED
  BY <1>7, <1>8, <1>9, <1>10 DEF IInv
(* A call, with room for its frame or without (output_perform_call). *)
LEMMA PushInv ==
  ASSUME IInv, NEW k \in 1..Len(frames), NEW s \in prog.sites, NEW n \in -StackSize..MaxTimes,
         prog' = prog, count' = [count EXCEPT ![s] = n],
         n >= 0, IF s.kind = "times" THEN n > 0 ELSE n = 0,
         prog.nested =>
           /\ k > 1 => Within(<<s.at, 0>>, frames[k].site)
           /\ \A i \in 2..k :
                /\ frames[i].site # s
                /\ prog.osvs => ~Within(frames[i].through, s) \/ frames[i].through = s.through,
         Push(s, SubSeq(frames, 1, k))
  PROVE  IInv'
<1> DEFINE b == SubSeq(frames, 1, k)
<1>1. /\ TypeOK /\ CountsUsed /\ FramesNest
      /\ b \in Seq(Frame) /\ Len(b) = k /\ (\A i \in 1..k : b[i] = frames[i])
      /\ k \in Nat /\ StackSize \in Nat /\ Len(frames) <= StackSize /\ Len(frames) \in Nat
      /\ prog.check \in BOOLEAN /\ n \in Int /\ k <= Len(frames)
  BY FramesBelow, FrameFacts, PerformAssumption DEF IInv
<1>2. CASE Len(b) < Limit
  <2>1. k < StackSize
    BY <1>1, <1>2 DEF Limit
  <2>2. frames' = Append(b, [through |-> s.through, site |-> s]) /\ spot' = <<s.first, 0>>
    BY <1>2 DEF Push
  <2>3. Pushed(k, s, n)
    BY <2>1, <2>2, Zenon DEF Pushed
  <2> QED
    BY <2>3, PushedInv
<1>3. CASE ~(Len(b) < Limit)
  <2>1. frames' = b /\ spot' = IF prog.check THEN Fatal ELSE Overrun
    BY <1>3 DEF Push
  <2>2. Kept(k, s, n)
    <3>1. n >= 1 - StackSize /\ \A i \in 2..k : n >= i - StackSize
      BY <1>1
    <3> QED
      BY <1>1, <2>1, <3>1 DEF Kept
  <2>3. TypeOK' /\ CountsUsed' /\ FramesNest'
    BY <2>1, <2>2, KeptInv DEF Spots
  <2>4. k >= StackSize - 1 /\ (~prog.check => k >= StackSize)
    BY <1>1, <1>3 DEF Limit
  <2>5. prog.nested => Cardinality(prog.sites) >= k /\ Cardinality(prog.sites) \in Nat
    BY <1>1, FreshSite
  <2>6. ControlInRange'
    BY <2>1 DEF ControlInRange
  <2>7. NoOverrun' /\ NoFalseAlarm'
    BY <1>1, <2>1, <2>4, <2>5, SpotFacts DEF NoOverrun, NoFalseAlarm
  <2> QED
    BY <2>3, <2>6, <2>7 DEF IInv
<1> QED
  BY <1>2, <1>3

(* Frames are taken off, or none, and control goes on inside the range. *)
LEMMA PopInv ==
  ASSUME IInv, NEW k \in 1..Len(frames), NEW s \in prog.sites, NEW n \in -StackSize..MaxTimes,
         Kept(k, s, n), spot' \in Bodies \cup Labels,
         prog.nested /\ k > 1 => Within(spot', frames[k].site)
  PROVE  IInv'
<1>1. TypeOK' /\ CountsUsed' /\ FramesNest'
  BY KeptInv DEF Spots
<1>2. frames'[Len(frames')] = frames[k] /\ Len(frames') = k /\ prog' = prog
  BY DEF Kept
<1>3. ControlInRange'
  BY <1>2 DEF ControlInRange, Top
<1>4. NoOverrun' /\ NoFalseAlarm'
  BY SpotFacts DEF NoOverrun, NoFalseAlarm
<1> QED
  BY <1>1, <1>3, <1>4 DEF IInv

(* Only control moves. *)
LEMMA MoveInv ==
  ASSUME IInv, UNCHANGED <<prog, frames, count>>, spot' \in Bodies \cup Labels \cup {End},
         prog.nested /\ Len(frames) > 1 => Within(spot', Top.site)
  PROVE  IInv'
<1>1. TypeOK' /\ CountsUsed' /\ FramesNest'
  BY DEF IInv, TypeOK, CountsUsed, FramesNest, Spots
<1>2. ControlInRange'
  BY DEF ControlInRange, Top
<1>3. NoOverrun' /\ NoFalseAlarm'
  BY SpotFacts DEF NoOverrun, NoFalseAlarm
<1> QED
  BY <1>1, <1>2, <1>3 DEF IInv

-----------------------------------------------------------------------------
(* The tests of the generated code. *)

(* What the next turn of a PERFORM does. *)
LEMMA TurnMeaning ==
  ASSUME NEW s \in Statements, NEW n \in Int
  PROVE  /\ TRUE \in Turn(s, n) <=> s.kind = "until" \/ (s.kind = "times" /\ n > 0)
         /\ FALSE \in Turn(s, n) <=> s.kind \in {"once", "until"} \/ (s.kind = "times" /\ n <= 0)
<1>1. s.kind \in {"once", "times", "until"}
  BY SiteFacts
<1>2. CASE s.kind = "once"
  <2>1. Turn(s, n) = {FALSE}
    BY <1>2, Zenon DEF Turn
  <2>2. TRUE \notin Turn(s, n) /\ FALSE \in Turn(s, n)
    BY <2>1, Zenon
  <2> QED
    BY <1>2, <2>2
<1>3. CASE s.kind = "until"
  <2>1. Turn(s, n) = BOOLEAN
    BY <1>3 DEF Turn
  <2>2. TRUE \in Turn(s, n) /\ FALSE \in Turn(s, n)
    BY <2>1, Zenon
  <2> QED
    BY <1>3, <2>2
<1>4. CASE s.kind = "times"
  <2>1. Turn(s, n) = {n > 0}
    BY <1>4 DEF Turn
  <2>2. CASE n > 0
    <3>1. TRUE \in Turn(s, n) /\ FALSE \notin Turn(s, n)
      BY <2>1, <2>2, Zenon
    <3>2. ~(n <= 0)
      BY <2>2
    <3> QED
      BY <1>4, <2>2, <3>1, <3>2, Zenon
  <2>3. CASE ~(n > 0)
    <3>1. (n > 0) = FALSE
      BY <2>3
    <3>2. FALSE \in Turn(s, n) /\ TRUE \notin Turn(s, n)
      BY <2>1, <3>1, Zenon
    <3>3. n <= 0
      BY <2>3
    <3> QED
      BY <1>4, <2>3, <3>2, <3>3, Zenon
  <2> QED
    BY <2>2, <2>3
<1> QED
  BY <1>1, <1>2, <1>3, <1>4

(* The search for the frame that a label ends (output_perform_exit). *)
LEMMA EndedMeaning ==
  ASSUME TypeOK, NEW x \in Labels
  PROVE  /\ Ended(x) = 0 => (Len(frames) > 1 => Top.through # x)
         /\ Ended(x) # 0 =>
              /\ Ended(x) \in 2..Len(frames) /\ frames[Ended(x)].through = x
              /\ prog.osvs \/ Ended(x) = Len(frames)
              /\ \A j \in 2..Len(frames) : j > Ended(x) => frames[j].through # x
<1> DEFINE found == {i \in 2..Len(frames) : frames[i].through = x /\ (prog.osvs \/ i = Len(frames))}
<1>1. Len(frames) \in Nat /\ prog.osvs \in BOOLEAN
  BY FrameFacts
<1>2. CASE found = {}
  <2>1. Ended(x) = 0
    BY <1>2 DEF Ended
  <2>2. Len(frames) > 1 => Len(frames) \in 2..Len(frames)
    BY <1>1
  <2> QED
    BY <1>2, <2>1, <2>2 DEF Top
<1>3. CASE found # {}
  <2>1. Ended(x) = CHOOSE i \in found : \A j \in found : j <= i
    BY <1>3 DEF Ended
  <2>2. \E i \in found : \A j \in found : j <= i
    <3>1. found \in SUBSET (0..Len(frames))
      BY <1>1
    <3> QED
      BY <1>1, <1>3, <3>1, GreatestExists, Zenon
  <2>3. Ended(x) \in found /\ \A j \in found : j <= Ended(x)
    BY <2>1, <2>2
  <2>4. ASSUME NEW j \in 2..Len(frames), j > Ended(x), frames[j].through = x PROVE FALSE
    <3>1. j \notin found
      BY <1>1, <2>3, <2>4
    <3>2. ~prog.osvs /\ Ended(x) = Len(frames)
      BY <2>3, <2>4, <3>1
    <3> QED
      BY <1>1, <2>4, <3>2
  <2> QED
    BY <1>1, <2>3, <2>4
<1> QED
  BY <1>2, <1>3

-----------------------------------------------------------------------------
(* One lemma for each action. *)

(* The first states satisfy the invariant. *)
LEMMA InitInv == Init => IInv
<1> SUFFICES ASSUME Init PROVE IInv
  OBVIOUS
<1>1. prog \in Program /\ StackSize \in Nat /\ StackSize > 2 /\ MaxTimes \in Nat
  BY PerformAssumption DEF Init
<1>2. frames = <<Base>> /\ Len(frames) = 1 /\ frames[1] = Base
  BY DEF Init
<1>3. spot \in Bodies
  <2>1. Declaratives + 1 \in Paragraphs
    BY PerformAssumption DEF Paragraphs
  <2> QED
    BY <2>1, SpotFacts DEF Init
<1>4. Base \in Frame
  BY DEF Base, Frame
<1>5. TypeOK
  <2>1. count \in [prog.sites -> -StackSize..MaxTimes]
    BY <1>1 DEF Init
  <2>2. frames \in Seq(Frame) /\ Len(frames) \in 1..StackSize
    BY <1>1, <1>2, <1>4
  <2> QED
    BY <1>1, <1>2, <1>3, <2>1, <2>2 DEF TypeOK, Spots
<1>6. ControlInRange /\ NoOverrun /\ NoFalseAlarm
  BY <1>2, <1>3, SpotFacts DEF ControlInRange, NoOverrun, NoFalseAlarm
<1>7. CountsUsed /\ FramesNest
  BY <1>1, <1>2 DEF CountsUsed, FramesNest, Init
<1> QED
  BY <1>5, <1>6, <1>7 DEF IInv

(* PERFORM keeps the invariant. *)
LEMMA PerformInv == ASSUME IInv, NEW s \in prog.sites, Perform(s) PROVE IInv'
<1> DEFINE k == Len(frames)
<1>1. TypeOK /\ CountsUsed /\ FramesNest /\ ControlInRange
  BY DEF IInv
<1>2. /\ k \in 1..k /\ k \in Nat /\ k <= StackSize /\ StackSize \in Nat /\ MaxTimes \in Nat
      /\ s \in Statements /\ s.kind \in {"once", "times", "until"}
      /\ s.at \in Paragraphs
  <2>1. s \in Statements /\ k \in Nat /\ 1 <= k /\ k <= StackSize
    BY <1>1, FrameFacts
  <2>2. s.kind \in {"once", "times", "until"} /\ s.at \in Paragraphs
    BY <2>1, SiteFacts
  <2> QED
    BY <2>1, <2>2, PerformAssumption
<1>3. spot = <<s.at, 0>> /\ spot \in Bodies /\ prog' = prog
  BY <1>2, SpotFacts DEF Perform
<1>4. SubSeq(frames, 1, k) = frames /\ frames \in Seq(Frame)
  BY <1>1 DEF TypeOK
<1>5. PICK n \in IF s.kind = "times" THEN 0..MaxTimes ELSE {count[s]} :
        /\ count' = [count EXCEPT ![s] = n]
        /\ \/ (s.kind = "once" \/ TRUE \in Turn(s, n)) /\ Push(s, frames)
           \/ s.kind # "once" /\ FALSE \in Turn(s, n) /\ UNCHANGED <<spot, frames>>
  BY DEF Perform
<1>6. n \in -StackSize..MaxTimes /\ n >= 0 /\ (s.kind # "times" => n = 0)
  BY <1>1, <1>2, <1>5 DEF CountsUsed
<1>7. prog.nested =>
        /\ k > 1 => Within(<<s.at, 0>>, frames[k].site)
        /\ \A i \in 2..k :
             /\ frames[i].site # s
             /\ prog.osvs => ~Within(frames[i].through, s) \/ frames[i].through = s.through
  <2>1. prog.nested /\ k > 1 => Within(<<s.at, 0>>, frames[k].site)
    BY <1>1, <1>3, SpotFacts DEF ControlInRange, Top
  <2>2. MayPerform(s)
    BY DEF Perform
  <2> QED
    BY <2>1, <2>2 DEF MayPerform
<1>8. CASE (s.kind = "once" \/ TRUE \in Turn(s, n)) /\ Push(s, frames)
  <2>1. IF s.kind = "times" THEN n > 0 ELSE n = 0
    <3>1. n \in Int
      BY <1>2, <1>6
    <3>2. TRUE \in Turn(s, n) => s.kind = "until" \/ (s.kind = "times" /\ n > 0)
      BY <1>2, <3>1, TurnMeaning
    <3> QED
      BY <1>2, <1>6, <1>8, <3>2
  <2> QED
    BY <1>2, <1>3, <1>4, <1>5, <1>6, <1>7, <1>8, <2>1, PushInv
<1>9. CASE UNCHANGED <<spot, frames>>
  <2>1. n >= 1 - StackSize /\ \A i \in 2..k : n >= i - StackSize
    BY <1>2, <1>6
  <2>2. Kept(k, s, n)
    BY <1>3, <1>4, <1>5, <1>6, <1>7, <1>9, <2>1 DEF Kept
  <2>3. spot' \in Bodies \cup Labels /\ (prog.nested /\ k > 1 => Within(spot', frames[k].site))
    BY <1>3, <1>7, <1>9
  <2> QED
    BY <1>2, <1>6, <2>2, <2>3, PopInv
<1> QED
  BY <1>5, <1>8, <1>9

(* GO TO keeps the invariant. *)
LEMMA GoToInv == IInv /\ GoTo => IInv'
<1> SUFFICES ASSUME IInv, GoTo PROVE IInv'
  OBVIOUS
<1>1. PICK x \in Bodies : MayGo(x) /\ spot' = x
  BY DEF GoTo
<1>2. prog.nested /\ Len(frames) > 1 => Within(spot', Top.site)
  BY <1>1 DEF MayGo
<1> QED
  BY <1>1, <1>2, MoveInv DEF GoTo

(* EXIT PARAGRAPH keeps the invariant. *)
LEMMA ExitParagraphInv == IInv /\ ExitParagraph => IInv'
<1> SUFFICES ASSUME IInv, ExitParagraph PROVE IInv'
  OBVIOUS
<1>1. /\ spot \in Bodies /\ spot' = <<spot[1], 1>>
      /\ spot[1] \in Paragraphs /\ spot' \in Labels /\ Place(spot) = 3 * spot[1]
  BY SpotFacts DEF ExitParagraph
<1>2. ASSUME prog.nested, Len(frames) > 1 PROVE Within(spot', Top.site)
  <2> DEFINE s == Top.site
  <2>1. s \in Statements
    BY <1>2, FrameFacts DEF IInv, Top
  <2>2. Within(spot, s)
    BY <1>1, <1>2, SpotFacts DEF IInv, ControlInRange
  <2>3. 3 * s.first <= 3 * spot[1] /\ 3 * spot[1] <= Place(s.through)
    BY <1>1, <2>1, <2>2, WithinMeaning
  <2>4. Place(spot') = 3 * spot[1] + 1
    BY <1>1 DEF Place
  <2>5. s.first \in Int /\ spot[1] \in Int
        /\ s.through[1] \in Int /\ s.through[2] \in {1, 2} /\ Place(s.through) = 3 * s.through[1] + s.through[2]
    <3>1. s.through \in Labels /\ s.first \in Paragraphs
      BY <2>1, SiteFacts
    <3> HIDE DEF s
    <3>2. s.through[1] \in Paragraphs /\ s.through[2] \in {1, 2} /\ Place(s.through) = 3 * s.through[1] + s.through[2]
      BY <3>1, SpotFacts
    <3> QED
      BY <1>1, <3>1, <3>2 DEF Paragraphs
  <2>6. 3 * s.first <= Place(spot') /\ Place(spot') <= Place(s.through)
    BY <2>3, <2>4, <2>5
  <2> HIDE DEF s
  <2> QED
    BY <1>1, <2>1, <2>6, WithinMeaning DEF s
<1> QED
  BY <1>1, <1>2, MoveInv DEF ExitParagraph

(* EXIT SECTION keeps the invariant. *)
LEMMA ExitSectionInv == IInv /\ ExitSection => IInv'
<1> SUFFICES ASSUME IInv, ExitSection PROVE IInv'
  OBVIOUS
<1> DEFINE p == CHOOSE p \in LastOf : p >= spot[1] /\ \A q \in LastOf : q >= spot[1] => q >= p
<1>1. MayGo(<<p, 2>>) /\ spot' = <<p, 2>> /\ spot[1] \in Paragraphs
  BY SpotFacts DEF ExitSection
<1>2. p \in LastOf
  BY <1>1, SectionEnd
<1> HIDE DEF p
<1>3. spot' \in Labels
  BY <1>1, <1>2, SpotFacts
<1>4. prog.nested /\ Len(frames) > 1 => Within(spot', Top.site)
  BY <1>1 DEF MayGo
<1> QED
  BY <1>3, <1>4, MoveInv DEF ExitSection

(* The return from a range keeps the invariant. *)
LEMMA ReturnInv == IInv /\ Return => IInv'
<1> SUFFICES ASSUME IInv, Return PROVE IInv'
  OBVIOUS
<1> DEFINE i == Ended(spot)
           s == frames[i].site
           n == IF s.kind = "times" THEN count[s] - 1 ELSE count[s]
           k == i - 1
           below == SubSeq(frames, 1, k)
<1>1. TypeOK /\ CountsUsed /\ FramesNest
  BY DEF IInv
<1>2. /\ i \in 2..Len(frames) /\ frames[i].through = spot
      /\ Len(frames) \in Nat /\ Len(frames) <= StackSize /\ StackSize \in Nat /\ MaxTimes \in Nat
  BY <1>1, EndedMeaning, FrameFacts, PerformAssumption DEF Return
<1>3. /\ count' = [count EXCEPT ![s] = n] /\ prog' = prog
      /\ \/ TRUE \in Turn(s, n) /\ Push(s, below)
         \/ FALSE \in Turn(s, n) /\ spot' = <<s.at, 0>> /\ frames' = below
  BY DEF Return
<1>4. s \in prog.sites /\ s \in Statements /\ s.kind \in {"once", "times", "until"}
      /\ frames[i].through = s.through /\ count[s] \in -StackSize..MaxTimes
  BY <1>1, <1>2, FrameFacts, SiteFacts DEF TypeOK
<1> HIDE DEF i
<1>5. count[s] >= i - StackSize /\ (s.kind # "times" => count[s] = 0)
  BY <1>1, <1>2, <1>4 DEF CountsUsed
<1>6. n \in -StackSize..MaxTimes /\ n >= (i - 1) - StackSize /\ (s.kind # "times" => n = 0)
  BY <1>2, <1>4, <1>5
<1>7. k \in 1..Len(frames) /\ k \in Nat
  BY <1>2
<1>8. \A j \in 2..k : j \in 2..Len(frames) /\ j \in 2..i - 1
  BY <1>2
<1>9. prog.nested =>
        /\ k > 1 => Within(<<s.at, 0>>, frames[k].site)
        /\ \A j \in 2..k :
             /\ frames[j].site # s
             /\ prog.osvs => ~Within(frames[j].through, s) \/ frames[j].through = s.through
  <2>1. prog.nested /\ k > 1 => Within(<<s.at, 0>>, frames[k].site)
    BY <1>1, <1>2 DEF FramesNest
  <2>2. ASSUME prog.nested, NEW j \in 2..k
        PROVE  /\ frames[j].site # s
               /\ prog.osvs => ~Within(frames[j].through, s) \/ frames[j].through = s.through
    BY <1>1, <1>2, <1>4, <1>8, <2>2 DEF FramesNest
  <2> QED
    BY <2>1, <2>2
<1>10. CASE TRUE \in Turn(s, n) /\ Push(s, below)
  <2>1. IF s.kind = "times" THEN n > 0 ELSE n = 0
    <3> HIDE DEF s, n
    <3>1. n \in Int
      BY <1>2, <1>6
    <3>2. TRUE \in Turn(s, n) => s.kind = "until" \/ (s.kind = "times" /\ n > 0)
      BY <1>4, <3>1, TurnMeaning
    <3> QED
      BY <1>6, <1>10, <3>2
  <2>2. n >= 0
    BY <1>6, <2>1
  <2> HIDE DEF s, n, k
  <2> QED
    BY <1>3, <1>4, <1>6, <1>7, <1>9, <1>10, <2>1, <2>2, PushInv
<1>11. CASE spot' = <<s.at, 0>> /\ frames' = below
  <2>1. below \in Seq(Frame) /\ Len(below) = k /\ \A j \in 1..k : below[j] = frames[j]
    BY <1>1, <1>7, FramesBelow
  <2>2. n >= 1 - StackSize /\ \A j \in 2..k : n >= j - StackSize
    BY <1>2, <1>6, <1>7
  <2>3. spot' \in Bodies
    BY <1>4, <1>11, SiteFacts, SpotFacts
  <2> HIDE DEF s, n, k, below
  <2>4. Kept(k, s, n)
    BY <1>3, <1>6, <1>9, <1>11, <2>1, <2>2 DEF Kept
  <2> QED
    BY <1>4, <1>6, <1>7, <1>9, <1>11, <2>3, <2>4, PopInv
<1> QED
  BY <1>3, <1>10, <1>11

(* Falling into the next paragraph keeps the invariant. *)
LEMMA FallThroughInv == IInv /\ FallThrough => IInv'
<1> SUFFICES ASSUME IInv, FallThrough PROVE IInv'
  OBVIOUS
<1>1. spot \in Labels /\ Ended(spot) = 0 /\ spot' = Following(spot) /\ TypeOK
  BY DEF FallThrough, IInv
<1>2. spot' \in Bodies \cup Labels \cup {End}
  <2>1. spot[1] \in Paragraphs
    BY <1>1, SpotFacts
  <2>2. spot[1] + 1 \in Paragraphs \/ spot[1] = N
    BY <2>1, PerformAssumption DEF Paragraphs
  <2> QED
    BY <1>1, <2>2, SpotFacts DEF Following, End
<1>3. ASSUME prog.nested, Len(frames) > 1 PROVE Within(spot', Top.site)
  <2>1. Top.site \in Statements /\ Top.through = Top.site.through
    BY <1>1, <1>3, FrameFacts DEF Top
  <2>2. Within(spot, Top.site)
    BY <1>1, <1>3, SpotFacts DEF IInv, ControlInRange
  <2>3. spot # Top.site.through
    BY <1>1, <1>3, <2>1, EndedMeaning
  <2> QED
    BY <1>1, <2>1, <2>2, <2>3, FollowingWithin
<1> QED
  BY <1>2, <1>3, MoveInv DEF FallThrough

(* The inductive invariant holds in every state of the program. *)
THEOREM Invariant == Spec => []IInv
<1>1. IInv /\ [Next]_vars => IInv'
  <2> SUFFICES ASSUME IInv, [Next]_vars PROVE IInv'
    OBVIOUS
  <2>1. ASSUME NEW s \in prog.sites, Perform(s) PROVE IInv'
    BY <2>1, PerformInv
  <2>2. CASE UNCHANGED vars
    BY <2>2 DEF vars, IInv, TypeOK, ControlInRange, NoOverrun, NoFalseAlarm, CountsUsed, FramesNest, Top
  <2> QED
    BY <2>1, <2>2, GoToInv, ExitParagraphInv, ExitSectionInv, ReturnInv, FallThroughInv DEF Next
<1> QED
  BY <1>1, InitInv, PTL DEF Spec

-----------------------------------------------------------------------------
(* Whatever a program does, its frames are typed and are those of the ranges *)
(* it performs; a nested program needs a frame for each of its PERFORM       *)
(* statements at most, and neither runs off the stack nor is stopped.        *)
THEOREM StackIsSound == Spec => []StackSound
<1>1. IInv => StackSound
  BY FitsWhenNested DEF IInv, StackSound
<1> QED
  BY <1>1, Invariant, PTL
-----------------------------------------------------------------------------
(* The frames of a nested program are the activations of PerformContract.   *)

LeftOf(s, c) == CASE s.kind = "once"  -> 1
                  [] s.kind = "until" -> 0
                  [] s.kind = "times" -> c[s]

ActiveOf(fr, c) ==
  [i \in 1..Len(fr) - 1 |-> [site |-> fr[i + 1].site, left |-> LeftOf(fr[i + 1].site, c)]]

(* The active statements now and after the step. *)
LEMMA ActiveIsOf == Active = ActiveOf(frames, count) /\ Active' = ActiveOf(frames', count')
BY DEF Active, ActiveOf, LeftOf

(* The active statements: one for each frame but the first. *)
LEMMA ActiveFacts ==
  ASSUME NEW fr \in Seq(Frame), NEW c, Len(fr) >= 1
  PROVE  LET a == ActiveOf(fr, c)
         IN  /\ a = [i \in 1..Len(fr) - 1 |-> a[i]]
             /\ Len(a) = Len(fr) - 1
             /\ \A i \in 1..Len(fr) - 1 :
                  a[i] = [site |-> fr[i + 1].site, left |-> LeftOf(fr[i + 1].site, c)]
<1> DEFINE S == {fr[i].site : i \in 2..Len(fr)}
           L == {LeftOf(fr[i].site, c) : i \in 2..Len(fr)}
           n == Len(fr) - 1
           a == [i \in 1..n |-> [site |-> fr[i + 1].site, left |-> LeftOf(fr[i + 1].site, c)]]
<1>1. n \in Nat /\ \A i \in 1..n : i + 1 \in 2..Len(fr)
  OBVIOUS
<1>2. ASSUME NEW i \in 1..n
      PROVE  [site |-> fr[i + 1].site, left |-> LeftOf(fr[i + 1].site, c)] \in [site : S, left : L]
  <2>1. i + 1 \in 2..Len(fr)
    BY <1>1
  <2>2. fr[i + 1].site \in S /\ LeftOf(fr[i + 1].site, c) \in L
    BY <2>1, Zenon
  <2> QED
    BY <2>2, Zenon
<1>3. a \in [1..n -> [site : S, left : L]]
  BY <1>2, Zenon
<1>4. a \in Seq([site : S, left : L]) /\ Len(a) = n
  <2> DEFINE T == [site : S, left : L]
  <2>1. n \in Nat /\ a \in [1..n -> T]
    BY <1>1, <1>3
  <2> HIDE DEF a, n, T
  <2>2. a \in Seq(T) /\ Len(a) = n
    BY <2>1
  <2> QED
    BY <2>2 DEF T
<1>5. ActiveOf(fr, c) = a
  BY Zenon DEF ActiveOf
<1>6. a = [i \in 1..n |-> a[i]]
  BY <1>3
<1> QED
  BY <1>4, <1>5, <1>6

(* The activations that a step keeps. *)
LEMMA ActivationsKept ==
  ASSUME TypeOK, NEW k \in 1..Len(frames), NEW s \in prog.sites, NEW n,
         frames' \in Seq(Frame), Len(frames') >= k,
         \A i \in 1..k : frames'[i] = frames[i],
         count' = [count EXCEPT ![s] = n],
         \A i \in 2..k : frames[i].site # s
  PROVE  \A i \in 1..k - 1 : Active'[i] = Active[i]
<1> SUFFICES ASSUME NEW i \in 1..k - 1 PROVE Active'[i] = Active[i]
  OBVIOUS
<1>1. Len(frames) \in Nat /\ frames \in Seq(Frame) /\ Len(frames) >= 1 /\ k \in Nat /\ k <= Len(frames)
      /\ Len(frames') \in Nat /\ Len(frames') >= 1
  BY FrameFacts DEF TypeOK
<1>2. i \in 1..Len(frames) - 1 /\ i \in 1..Len(frames') - 1 /\ i + 1 \in 2..k /\ i + 1 \in 2..Len(frames)
      /\ i + 1 \in 1..k
  BY <1>1
<1>3. Active[i] = [site |-> frames[i + 1].site, left |-> LeftOf(frames[i + 1].site, count)]
  BY <1>1, <1>2, ActiveIsOf, ActiveFacts
<1>4. Active'[i] = [site |-> frames'[i + 1].site, left |-> LeftOf(frames'[i + 1].site, count')]
  BY <1>1, <1>2, ActiveIsOf, ActiveFacts
<1>5. frames'[i + 1] = frames[i + 1] /\ frames[i + 1].site # s /\ frames[i + 1].site \in prog.sites
  BY <1>2, FrameFacts
<1>6. count'[frames[i + 1].site] = count[frames[i + 1].site]
  BY <1>5 DEF TypeOK
<1> QED
  BY <1>3, <1>4, <1>5, <1>6 DEF LeftOf

(* In a nested program a label ends the frame on top or none. *)
LEMMA EndedIsTop ==
  ASSUME IInv, prog.nested, spot \in Labels, Ended(spot) # 0
  PROVE  Ended(spot) = Len(frames)
<1> DEFINE i == Ended(spot)
           m == Len(frames)
<1>1. TypeOK /\ FramesNest /\ ControlInRange
  BY DEF IInv
<1>2. /\ i \in 2..m /\ m \in Nat /\ frames[i].through = spot
      /\ prog.osvs \/ i = m
      /\ \A j \in 2..m : j > i => frames[j].through # spot
  BY <1>1, EndedMeaning, FrameFacts
<1> HIDE DEF i
<1> SUFFICES ASSUME i # m PROVE FALSE
  BY DEF i
<1>3. m \in 2..m /\ i \in 2..m - 1 /\ m > 1 /\ i < m
  BY <1>2
<1>4. Within(spot, frames[m].site)
  BY <1>1, <1>3, SpotFacts DEF ControlInRange, Top
<1>5. ~Within(frames[i].through, frames[m].site) \/ frames[i].through = frames[m].through
  BY <1>1, <1>2, <1>3 DEF FramesNest
<1> QED
  BY <1>2, <1>3, <1>4, <1>5

(* The activation on top, and whether control has come to its end. *)
LEMMA TopActivation ==
  ASSUME TypeOK
  PROVE  /\ Active = [i \in 1..Len(frames) - 1 |-> Active[i]]
         /\ Len(Active) = Len(frames) - 1
         /\ Len(frames) > 1 =>
              /\ C!Top = [site |-> Top.site, left |-> LeftOf(Top.site, count)]
              /\ C!AtEnd <=> spot = Top.through
         /\ Len(frames) = 1 => ~C!AtEnd
<1> DEFINE m == Len(frames)
<1>1. frames \in Seq(Frame) /\ m \in Nat /\ m >= 1
  BY FrameFacts DEF TypeOK
<1>2. /\ Active = [i \in 1..m - 1 |-> Active[i]]
      /\ Len(Active) = m - 1
      /\ \A i \in 1..m - 1 : Active[i] = [site |-> frames[i + 1].site, left |-> LeftOf(frames[i + 1].site, count)]
  BY <1>1, ActiveIsOf, ActiveFacts
<1>3. ASSUME m > 1
      PROVE  /\ C!Top = [site |-> Top.site, left |-> LeftOf(Top.site, count)]
             /\ C!AtEnd <=> spot = Top.through
  <2>1. m - 1 \in 1..m - 1 /\ (m - 1) + 1 = m /\ m \in 2..m
    BY <1>1, <1>3
  <2>2. C!Top = [site |-> Top.site, left |-> LeftOf(Top.site, count)]
    BY <1>2, <2>1 DEF C!Top, Top
  <2>3. Active # <<>>
    BY <1>2, <1>1, <1>3
  <2>4. Top.through = Top.site.through
    BY <2>1, FrameFacts DEF Top
  <2>5. C!AtEnd <=> spot = Top.through
    BY <2>2, <2>3, <2>4 DEF C!AtEnd
  <2> QED
    BY <2>2, <2>5
<1>4. ASSUME m = 1 PROVE ~C!AtEnd
  <2>1. Active = <<>>
    BY <1>2, <1>4
  <2> QED
    BY <2>1 DEF C!AtEnd
<1> QED
  BY <1>2, <1>3, <1>4, Zenon

(* A push in a nested program begins a turn of an activation. *)
LEMMA NestedPerform ==
  ASSUME IInv, IInv', prog.nested, NEW s \in prog.sites, Perform(s), spot' \notin {Fatal, Overrun}
  PROVE  C!Next \/ UNCHANGED <<spot, Active>>
<1> DEFINE m == Len(frames)
<1>1. TypeOK /\ CountsUsed
  BY DEF IInv
<1>2. m \in Nat /\ m >= 1 /\ m \in 1..m /\ frames \in Seq(Frame) /\ s \in Statements /\ MaxTimes \in Nat
  BY <1>1, FrameFacts, PerformAssumption DEF TypeOK
<1>3. PICK n \in IF s.kind = "times" THEN 0..MaxTimes ELSE {count[s]} :
        /\ count' = [count EXCEPT ![s] = n]
        /\ \/ (s.kind = "once" \/ TRUE \in Turn(s, n)) /\ Push(s, frames)
           \/ s.kind # "once" /\ FALSE \in Turn(s, n) /\ UNCHANGED <<spot, frames>>
  BY DEF Perform
<1>4. spot = <<s.at, 0>> /\ prog' = prog
  BY DEF Perform
<1>5. \A i \in 2..m : frames[i].site # s
  BY DEF Perform, MayPerform
<1>6. n \in Int /\ n >= 0 /\ (s.kind # "times" => n = 0)
  BY <1>1, <1>2, <1>3 DEF CountsUsed
<1>7. CASE (s.kind = "once" \/ TRUE \in Turn(s, n)) /\ Push(s, frames)
  <2>1. frames' = Append(frames, [through |-> s.through, site |-> s]) /\ spot' = <<s.first, 0>>
    BY <1>7 DEF Push
  <2>2. /\ frames' \in Seq(Frame) /\ Len(frames') = m + 1
        /\ \A i \in 1..m : frames'[i] = frames[i]
        /\ frames'[m + 1] = [through |-> s.through, site |-> s]
    BY <1>2, <2>1, FramesPushed
  <2>3. /\ Len(Active) = m - 1 /\ Len(Active') = m
        /\ Active'[m] = [site |-> s, left |-> LeftOf(s, count')]
    <3> DEFINE g == frames'
    <3>1. /\ g \in Seq(Frame) /\ Len(g) >= 1 /\ m \in 1..Len(g) - 1 /\ Len(g) - 1 = m
          /\ g[m + 1].site = s
      BY <1>2, <2>2
    <3>2. Active' = ActiveOf(g, count')
      BY ActiveIsOf
    <3> HIDE DEF g
    <3>3. Len(Active') = m /\ Active'[m] = [site |-> s, left |-> LeftOf(s, count')]
      BY <3>1, <3>2, ActiveFacts
    <3> QED
      BY <1>1, <3>3, TopActivation
  <2>4. \A i \in 1..m - 1 : Active'[i] = Active[i]
    <3>1. Len(frames') >= m
      BY <1>2, <2>2
    <3> QED
      BY <1>1, <1>2, <1>3, <1>5, <2>2, <3>1, ActivationsKept
  <2>5. SubSeq(Active', 1, Len(Active)) = Active
    <3> DEFINE a == Active
               b == Active'
    <3>2. Len(a) = m - 1 /\ Len(b) = m /\ \A i \in 1..m - 1 : b[i] = a[i]
      BY <2>3, <2>4
    <3>4. a = [i \in 1..m - 1 |-> a[i]]
      BY <1>1, TopActivation
    <3> HIDE DEF a, b
    <3>3. SubSeq(b, 1, Len(a)) = [i \in 1..m - 1 |-> b[i]]
      BY <1>2, <3>2
    <3> QED
      BY <3>2, <3>3, <3>4 DEF a, b
  <2>6. LeftOf(s, count') \in C!Turns(s)
    <3>1. s.kind \in {"once", "times", "until"}
      BY <1>2, SiteFacts
    <3>2. s.kind = "times" => n > 0
      <4>1. TRUE \in Turn(s, n) => s.kind = "until" \/ (s.kind = "times" /\ n > 0)
        BY <1>2, <1>6, TurnMeaning
      <4> QED
        BY <1>7, <4>1
    <3>3. count'[s] = n
      BY <1>1, <1>3 DEF TypeOK
    <3> QED
      BY <1>6, <3>1, <3>2, <3>3 DEF LeftOf, C!Turns
  <2>7. C!Perform
    BY <1>2, <1>4, <2>1, <2>3, <2>5, <2>6 DEF C!Perform
  <2> QED
    BY <2>7 DEF C!Next
<1>8. CASE UNCHANGED <<spot, frames>>
  <2>1. \A i \in 1..m - 1 : Active'[i] = Active[i]
    <3>1. frames' \in Seq(Frame) /\ Len(frames') >= m /\ \A i \in 1..m : frames'[i] = frames[i]
      BY <1>2, <1>8
    <3> QED
      BY <1>1, <1>2, <1>3, <1>5, <3>1, ActivationsKept
  <2>2. Active = ActiveOf(frames, count) /\ Active' = ActiveOf(frames, count')
    BY <1>8, ActiveIsOf
  <2>3. Active' = Active
    BY <2>1, <2>2 DEF ActiveOf
  <2> QED
    BY <1>8, <2>3
<1> QED
  BY <1>3, <1>7, <1>8
(* The end of the range on top begins another turn or ends the activation. *)
LEMMA NestedReturn ==
  ASSUME IInv, prog.nested, Return, spot' \notin {Fatal, Overrun}
  PROVE  C!Next
<1> DEFINE m == Len(frames)
           s == frames[m].site
           n == IF s.kind = "times" THEN count[s] - 1 ELSE count[s]
           below == SubSeq(frames, 1, m - 1)
           a == Active
           b == Active'
<1>1. TypeOK /\ FramesNest /\ spot \in Labels /\ Ended(spot) = m
  BY EndedIsTop DEF IInv, Return
<1>2. /\ m \in 2..m /\ m - 1 \in 1..m /\ m \in Nat /\ frames[m].through = spot /\ m > 1
      /\ s \in prog.sites /\ s \in Statements /\ s.kind \in {"once", "times", "until"}
      /\ spot = s.through /\ frames \in Seq(Frame)
  <2>1. m \in 2..m /\ frames[m].through = spot /\ m \in Nat
    BY <1>1, EndedMeaning, FrameFacts DEF Return
  <2>2. s \in prog.sites /\ s \in Statements /\ frames[m].through = s.through
    BY <1>1, <2>1, FrameFacts
  <2> QED
    <3>1. s.kind \in {"once", "times", "until"}
      BY <2>2, SiteFacts
    <3>2. frames \in Seq(Frame)
      BY <1>1 DEF TypeOK
    <3> HIDE DEF m, s
    <3>3. m - 1 \in 1..m /\ m > 1
      BY <2>1
    <3> QED
      BY <2>1, <2>2, <3>1, <3>2, <3>3
<1>3. /\ count' = [count EXCEPT ![s] = n] /\ prog' = prog
      /\ \/ TRUE \in Turn(s, n) /\ Push(s, below)
         \/ FALSE \in Turn(s, n) /\ spot' = <<s.at, 0>> /\ frames' = below
  BY <1>1 DEF Return
<1>4. below \in Seq(Frame) /\ Len(below) = m - 1 /\ \A i \in 1..m - 1 : below[i] = frames[i]
  BY <1>1, <1>2, FramesBelow
<1>5. \A i \in 2..m - 1 : frames[i].site # s
  BY <1>1, <1>2 DEF FramesNest
<1>6. (s.kind = "times" => count[s] > 0) /\ count[s] \in Int /\ count'[s] = n /\ n \in Int
  <2>1. count[s] \in Int
    BY <1>1, <1>2, FrameFacts
  <2>2. s.kind = "times" => count[s] > 0
    BY <1>1, <1>2 DEF FramesNest
  <2>3. count'[s] = n
    BY <1>1, <1>2, <1>3 DEF TypeOK
  <2>4. n \in Int
    BY <2>1
  <2> QED
    BY <2>1, <2>2, <2>3, <2>4
<1>7. /\ a = [i \in 1..m - 1 |-> a[i]] /\ Len(a) = m - 1 /\ C!AtEnd
      /\ C!Top = [site |-> s, left |-> LeftOf(s, count)]
      /\ a[m - 1] = C!Top
  BY <1>1, <1>2, TopActivation DEF C!Top, Top
<1>8. LeftOf(s, count) = CASE s.kind = "once" -> 1 [] s.kind = "until" -> 0 [] s.kind = "times" -> count[s]
  BY DEF LeftOf
<1> HIDE DEF s, n, a, b, below
<1>9. CASE TRUE \in Turn(s, n) /\ Push(s, below)
  <2>1. frames' = Append(below, [through |-> s.through, site |-> s]) /\ spot' = <<s.first, 0>>
    BY <1>9 DEF Push
  <2>2. /\ frames' \in Seq(Frame) /\ Len(frames') = m
        /\ \A i \in 1..m - 1 : frames'[i] = frames[i]
        /\ frames'[m] = [through |-> s.through, site |-> s]
    BY <1>2, <1>4, <2>1, FramesPushed
  <2>3. \A i \in 1..m - 2 : b[i] = a[i]
    <3>1. Len(frames') >= m - 1 /\ (m - 1) - 1 = m - 2
      BY <1>2, <2>2
    <3> QED
      BY <1>1, <1>2, <1>3, <1>5, <2>2, <3>1, ActivationsKept DEF a, b
  <2>4. b = [i \in 1..m - 1 |-> b[i]] /\ b[m - 1] = [site |-> s, left |-> LeftOf(s, count')]
    <3> DEFINE g == frames'
    <3>1. g \in Seq(Frame) /\ Len(g) = m /\ Len(g) >= 1 /\ m - 1 \in 1..Len(g) - 1 /\ (m - 1) + 1 = m
          /\ g[(m - 1) + 1].site = s
      BY <1>2, <2>2
    <3>2. b = ActiveOf(g, count')
      BY ActiveIsOf DEF b
    <3> HIDE DEF g
    <3> QED
      BY <3>1, <3>2, ActiveFacts
  <2>5. s.kind = "until" \/ (s.kind = "times" /\ n > 0)
    BY <1>2, <1>6, <1>9, TurnMeaning
  <2>6. LeftOf(s, count') = IF LeftOf(s, count) = 0 THEN 0 ELSE LeftOf(s, count) - 1
    BY <1>2, <1>6, <2>5 DEF LeftOf, n
  <2>7. b = [a EXCEPT ![Len(a)].left = IF @ = 0 THEN 0 ELSE @ - 1]
    <3> DEFINE l == IF LeftOf(s, count) = 0 THEN 0 ELSE LeftOf(s, count) - 1
               c == [a EXCEPT ![m - 1].left = IF @ = 0 THEN 0 ELSE @ - 1]
    <3>1. m - 1 \in 1..m - 1 /\ DOMAIN a = 1..m - 1
      BY <1>2, <1>7
    <3>2. [a[m - 1] EXCEPT !.left = IF @ = 0 THEN 0 ELSE @ - 1] = [site |-> s, left |-> l]
      BY <1>7
    <3>3. c = [i \in 1..m - 1 |-> IF i = m - 1 THEN [site |-> s, left |-> l] ELSE a[i]]
      BY <1>7, <3>1, <3>2
    <3>4. b = [i \in 1..m - 1 |-> IF i = m - 1 THEN [site |-> s, left |-> l] ELSE a[i]]
      <4>1. \A i \in 1..m - 1 : b[i] = IF i = m - 1 THEN [site |-> s, left |-> l] ELSE a[i]
        <5>1. \A i \in 1..m - 1 : i = m - 1 \/ i \in 1..m - 2
          BY <1>2
        <5> QED
          BY <2>3, <2>4, <2>6, <5>1
      <4> QED
        BY <2>4, <4>1
    <3> QED
      BY <1>7, <3>3, <3>4
  <2>8. C!Top.left # 1
    BY <1>2, <1>6, <1>7, <2>5 DEF LeftOf, n
  <2>9. C!Again
    <3>1. Active' = [Active EXCEPT ![Len(Active)].left = IF @ = 0 THEN 0 ELSE @ - 1]
      BY <2>7 DEF a, b
    <3>2. spot' = <<C!Top.site.first, 0>>
      BY <1>7, <2>1
    <3> QED
      BY <1>7, <2>8, <3>1, <3>2, Zenon DEF C!Again
  <2> QED
    BY <2>9 DEF C!Next
<1>10. CASE FALSE \in Turn(s, n) /\ spot' = <<s.at, 0>> /\ frames' = below
  <2>1. /\ frames' \in Seq(Frame) /\ Len(frames') = m - 1
        /\ \A i \in 1..m - 1 : frames'[i] = frames[i]
    BY <1>4, <1>10
  <2>2. \A i \in 1..m - 2 : b[i] = a[i]
    <3>1. Len(frames') >= m - 1 /\ (m - 1) - 1 = m - 2
      BY <1>2, <2>1
    <3> QED
      BY <1>1, <1>2, <1>3, <1>5, <2>1, <3>1, ActivationsKept DEF a, b
  <2>3. b = [i \in 1..m - 2 |-> b[i]]
    <3> DEFINE g == frames'
    <3>1. g \in Seq(Frame) /\ Len(g) >= 1 /\ Len(g) - 1 = m - 2
      BY <1>2, <2>1
    <3>2. b = ActiveOf(g, count')
      BY ActiveIsOf DEF b
    <3> HIDE DEF g
    <3> QED
      BY <3>1, <3>2, ActiveFacts
  <2>4. SubSeq(a, 1, Len(a) - 1) = [i \in 1..m - 2 |-> a[i]]
    <3>1. Len(a) - 1 = m - 2 /\ m - 2 \in Nat
      BY <1>2, <1>7
    <3> QED
      BY <3>1
  <2>5. b = SubSeq(a, 1, Len(a) - 1)
    BY <2>2, <2>3, <2>4
  <2>6. s.kind \in {"once", "until"} \/ (s.kind = "times" /\ n <= 0)
    BY <1>2, <1>6, <1>10, TurnMeaning
  <2>7. C!Top.left \in {0, 1}
    BY <1>2, <1>6, <1>7, <2>6 DEF LeftOf, n
  <2>8. C!Return
    <3>1. Active' = SubSeq(Active, 1, Len(Active) - 1)
      BY <2>5 DEF a, b
    <3>2. spot' = <<C!Top.site.at, 0>>
      BY <1>7, <1>10
    <3> QED
      BY <1>7, <2>7, <3>1, <3>2, Zenon DEF C!Return
  <2> QED
    BY <2>8 DEF C!Next
<1> QED
  BY <1>3, <1>9, <1>10

(* The other steps move control, and not from the end of the range on top. *)
LEMMA NestedMove ==
  ASSUME IInv, IInv', prog.nested, GoTo \/ ExitParagraph \/ ExitSection \/ FallThrough
  PROVE  C!Next
<1>1. TypeOK /\ spot' \in Spots
  BY DEF IInv, TypeOK
<1>2. UNCHANGED <<frames, count>>
  BY DEF GoTo, ExitParagraph, ExitSection, FallThrough
<1>3. Active' = Active
  BY <1>2, ActiveIsOf
<1>4. ~C!AtEnd
  <2>1. Len(frames) > 1 => spot # Top.through
    <3>1. CASE spot \in Bodies
      <4>1. Len(frames) > 1 => Top.through \in Labels
        BY <1>1, FrameFacts DEF Top
      <4> QED
        BY <3>1, <4>1, SpotFacts
    <3>2. CASE FallThrough
      BY <1>1, <3>2, EndedMeaning DEF FallThrough
    <3> QED
      BY <3>1, <3>2 DEF GoTo, ExitParagraph, ExitSection
  <2>2. Len(frames) > 1 \/ Len(frames) = 1
    BY <1>1, FrameFacts
  <2> QED
    BY <1>1, <2>1, <2>2, TopActivation
<1> QED
  BY <1>1, <1>3, <1>4 DEF C!Next, C!Move

(* In a nested program every step is one of nested activations, with and     *)
(* without perform-osvs: control goes back to the PERFORM executed last,     *)
(* after as many turns as it asked for, and the end of no other range has    *)
(* any effect.                                                               *)
THEOREM PerformsNest == Spec => Structured
<1>1. IInv /\ IInv' /\ [Next]_vars =>
        [prog.nested /\ spot' \notin {Fatal, Overrun} => C!Next \/ UNCHANGED <<spot, Active>>]_vars
  <2> SUFFICES ASSUME IInv, IInv', Next, prog.nested, spot' \notin {Fatal, Overrun}
               PROVE  C!Next \/ UNCHANGED <<spot, Active>>
    OBVIOUS
  <2>1. ASSUME NEW s \in prog.sites, Perform(s) PROVE C!Next \/ UNCHANGED <<spot, Active>>
    BY <2>1, NestedPerform
  <2>2. CASE GoTo \/ ExitParagraph \/ ExitSection \/ FallThrough
    BY <2>2, NestedMove
  <2>3. CASE Return
    BY <2>3, NestedReturn
  <2> QED
    BY <2>1, <2>2, <2>3 DEF Next
<1> QED
  BY <1>1, Invariant, PTL DEF Spec, Structured
=============================================================================
