------------------------- MODULE RelativeFileProofs --------------------------
(***************************************************************************)
(* Proofs about RelativeFile, for every number of slots, every size of the *)
(* RELATIVE KEY and every set of records: through every order of           *)
(* statements the position stays where REWRITE and READ NEXT need it, what *)
(* START and READ report is what the file holds, and the slots implement   *)
(* the record store.                                                       *)
(***************************************************************************)
EXTENDS RelativeFile, WellFoundedInduction, NaturalsInduction, TLAPS

(* The SELECT the connector was made from does not change, the file is     *)
(* there, and nothing closes it WITH LOCK.                                 *)
Fixed ==
  /\ f.organization = "RELATIVE" /\ f.special = 0 /\ ~f.flag_optional
  /\ ~f.flag_nonexistent /\ f.open_mode # "LOCKED"
  /\ ~keyed => f.access_mode = "SEQUENTIAL"

(* As long as relative_read_next takes the next slot for the first of the  *)
(* file, a scan that begins with OPEN stands before it.                    *)
FirstAtStart == keyed /\ scan /\ f.flag_first_read = 2 => pos = Before(1)

IInv == TypeOK /\ Fixed /\ RewriteTarget /\ ScanIsExact /\ FirstAtStart

-----------------------------------------------------------------------------
(* Max and Min of FiniteSetsExt choose an element that is there.           *)

(* A nonempty set of numbers has a least one. *)
LEMMA LeastExists ==
  ASSUME NEW S \in SUBSET Nat, S # {}
  PROVE  \E n \in S : \A m \in S : n <= m
<1> DEFINE R == OpToRel(<, Nat)
<1>1. PICK n \in S : \A m \in S : ~ (<<m, n>> \in R)
  BY NatLessThanWellFounded, WFMin, Zenon
<1>2. ASSUME NEW m \in S PROVE n <= m
  <2>1. <<m, n>> \notin {p \in Nat \X Nat : p[1] < p[2]}
    BY <1>1 DEF OpToRel
  <2>2. <<m, n>> \in Nat \X Nat
    OBVIOUS
  <2>3. ~(m < n)
    BY <2>1, <2>2
  <2> QED
    BY <2>3
<1> QED
  BY <1>2

(* A nonempty set of numbers below a bound has a greatest one. *)
LEMMA GreatestExists ==
  ASSUME NEW n \in Nat, NEW S \in SUBSET (0..n), S # {}
  PROVE  \E g \in S : \A m \in S : g >= m
<1> DEFINE T == {n - i : i \in S}
<1>1. T \in SUBSET Nat /\ T # {}
  <2>1. ASSUME NEW i \in S PROVE n - i \in Nat
    BY SMT
  <2>2. PICK i \in S : TRUE
    OBVIOUS
  <2>3. n - i \in T
    OBVIOUS
  <2> QED
    BY <2>1, <2>3
<1>2. PICK t \in T : \A m \in T : t <= m
  <2> HIDE DEF T
  <2> QED
    BY <1>1, LeastExists
<1>3. PICK g \in S : t = n - g
  OBVIOUS
<1>4. ASSUME NEW m \in S PROVE g >= m
  <2>1. n - m \in T
    OBVIOUS
  <2>2. n - g <= n - m
    BY <1>2, <1>3, <2>1
  <2> QED
    BY <2>2
<1> QED
  BY <1>4

(* Min gives the least one. *)
LEMMA MinResult ==
  ASSUME NEW S \in SUBSET Nat, S # {}
  PROVE  Min(S) \in S /\ \A m \in S : Min(S) <= m
BY LeastExists, Zenon DEF Min

(* Max gives the greatest one. *)
LEMMA MaxResult ==
  ASSUME NEW n \in Nat, NEW S \in SUBSET (0..n), S # {}
  PROVE  Max(S) \in S /\ \A m \in S : Max(S) >= m
<1>1. \E g \in S : \A m \in S : g >= m
  BY GreatestExists
<1> QED
  BY <1>1, Zenon DEF Max

(* The key field holds what is stored in it. *)
LEMMA StoredTyped ==
  ASSUME NEW i \in Nat
  PROVE  Stored(i) \in 0..KeyMax
BY RelativeAssumption DEF Stored

-----------------------------------------------------------------------------
(* The record of the connector.                                            *)

(* A record with one field replaced by a value of its type is a record. *)
LEMMA FieldTyped ==
  ASSUME NEW g \in Cob_file
  PROVE  /\ \A v \in OpenModes : [g EXCEPT !.open_mode = v] \in Cob_file
         /\ \A v \in {"null", "live", "dead"} : [g EXCEPT !.file = v] \in Cob_file
         /\ \A v \in BOOLEAN : [g EXCEPT !.flag_nonexistent = v] \in Cob_file
         /\ \A v \in BOOLEAN : [g EXCEPT !.flag_end_of_file = v] \in Cob_file
         /\ \A v \in BOOLEAN : [g EXCEPT !.flag_begin_of_file = v] \in Cob_file
         /\ \A v \in 0..2 : [g EXCEPT !.flag_first_read = v] \in Cob_file
         /\ \A v \in BOOLEAN : [g EXCEPT !.flag_read_done = v] \in Cob_file
<1>1. ASSUME NEW v \in OpenModes PROVE [g EXCEPT !.open_mode = v] \in Cob_file
  BY DEF Cob_file
<1>2. ASSUME NEW v \in {"null", "live", "dead"} PROVE [g EXCEPT !.file = v] \in Cob_file
  BY DEF Cob_file
<1>3. ASSUME NEW v \in BOOLEAN PROVE [g EXCEPT !.flag_nonexistent = v] \in Cob_file
  BY DEF Cob_file
<1>4. ASSUME NEW v \in BOOLEAN PROVE [g EXCEPT !.flag_end_of_file = v] \in Cob_file
  BY DEF Cob_file
<1>5. ASSUME NEW v \in BOOLEAN PROVE [g EXCEPT !.flag_begin_of_file = v] \in Cob_file
  BY DEF Cob_file
<1>6. ASSUME NEW v \in 0..2 PROVE [g EXCEPT !.flag_first_read = v] \in Cob_file
  BY DEF Cob_file
<1>7. ASSUME NEW v \in BOOLEAN PROVE [g EXCEPT !.flag_read_done = v] \in Cob_file
  BY DEF Cob_file
<1> QED
  BY <1>1, <1>2, <1>3, <1>4, <1>5, <1>6, <1>7

(* h comes from the same SELECT as g; a file that was there is still there. *)
Same(g, h) ==
  /\ h \in Cob_file
  /\ h.organization = g.organization /\ h.access_mode = g.access_mode
  /\ h.flag_optional = g.flag_optional /\ h.special = g.special
  /\ g.flag_nonexistent = FALSE => h.flag_nonexistent = FALSE

(* What a statement that only touches the record leaves as it was. *)
LEMMA TouchEffect ==
  ASSUME NEW g \in Cob_file
  PROVE  /\ Same(g, Touch(g)) /\ Touch(g).flag_read_done = FALSE
         /\ Touch(g).open_mode = g.open_mode
         /\ Touch(g).flag_first_read = g.flag_first_read
<1>1. Touch(g) \in Cob_file
  BY FieldTyped DEF Touch
<1> QED
  BY <1>1 DEF Touch, Cob_file, Same

(* cob_open of the file that is there *)
LEMMA OpenEffect ==
  ASSUME NEW g \in Cob_file, NEW mode \in OpenOptions
  PROVE  LET h == AfterOpen(g, mode, "ok")
         IN  /\ Same(g, h) /\ h.flag_read_done = FALSE
             /\ h.open_mode = mode /\ h.flag_first_read = 2
<1> DEFINE g1 == [g EXCEPT !.flag_read_done = FALSE]
           g2 == [g1 EXCEPT !.flag_nonexistent = FALSE]
           g3 == [g2 EXCEPT !.flag_end_of_file = FALSE]
           g4 == [g3 EXCEPT !.flag_begin_of_file = FALSE]
           g5 == [g4 EXCEPT !.flag_first_read = 2]
           g6 == [g5 EXCEPT !.open_mode = mode]
           g7 == [g6 EXCEPT !.file = "live"]
<1>1. AfterOpen(g, mode, "ok") = g7
  BY DEF AfterOpen, BeginOpen
<1>2. 2 \in 0..2 /\ mode \in OpenModes
  BY DEF OpenModes
<1> HIDE DEF g1, g2, g3, g4, g5, g6, g7
<1>3. g1 \in Cob_file /\ Same(g, g1) /\ g1.flag_read_done = FALSE
  <2>1. g1 \in Cob_file
    BY FieldTyped DEF g1
  <2> QED
    BY <2>1 DEF g1, Same, Cob_file
<1>4. g2 \in Cob_file /\ Same(g, g2) /\ g2.flag_read_done = FALSE
  <2>1. g2 \in Cob_file
    BY <1>3, FieldTyped DEF g2
  <2> QED
    BY <1>3, <2>1 DEF g2, Same, Cob_file
<1>5. g3 \in Cob_file /\ Same(g, g3) /\ g3.flag_read_done = FALSE
  <2>1. g3 \in Cob_file
    BY <1>4, FieldTyped DEF g3
  <2> QED
    BY <1>4, <2>1 DEF g3, Same, Cob_file
<1>6. g4 \in Cob_file /\ Same(g, g4) /\ g4.flag_read_done = FALSE
  <2>1. g4 \in Cob_file
    BY <1>5, FieldTyped DEF g4
  <2> QED
    BY <1>5, <2>1 DEF g4, Same, Cob_file
<1>7. g5 \in Cob_file
  BY <1>2, <1>6, FieldTyped, Zenon DEF g5
<1>8. Same(g, g5) /\ g5.flag_read_done = FALSE /\ g5.flag_first_read = 2
  BY <1>6, <1>7 DEF g5, Same, Cob_file
<1>9. g6 \in Cob_file
  BY <1>2, <1>7, FieldTyped DEF g6
<1>10. Same(g, g6) /\ g6.flag_read_done = FALSE /\ g6.flag_first_read = 2 /\ g6.open_mode = mode
  BY <1>7, <1>8, <1>9 DEF g6, Same, Cob_file
<1>11. g7 \in Cob_file
  BY <1>9, FieldTyped DEF g7
<1>12. Same(g, g7) /\ g7.flag_read_done = FALSE /\ g7.flag_first_read = 2 /\ g7.open_mode = mode
  BY <1>9, <1>10, <1>11 DEF g7, Same, Cob_file
<1> QED
  BY <1>1, <1>12

(* CLOSE without option, answered SUCCESS *)
LEMMA CloseEffect ==
  ASSUME NEW g \in Cob_file
  PROVE  LET h == AfterClose(g, "NORMAL", SUCCESS)
         IN  Same(g, h) /\ h.flag_read_done = FALSE /\ h.open_mode = "CLOSED"
<1> DEFINE t == Touch(g)
           file1 == IF ReallyCloses(g, "NORMAL") /\ ~g.flag_nonexistent THEN "dead" ELSE t.file
           h1 == [t EXCEPT !.file = file1]
           h2 == [h1 EXCEPT !.open_mode = "CLOSED"]
<1>1. AfterClose(g, "NORMAL", SUCCESS) = h2
  BY DEF AfterClose, SUCCESS
<1>2. t \in Cob_file /\ Same(g, t) /\ t.flag_read_done = FALSE
  BY TouchEffect DEF Same
<1> HIDE DEF t
<1>3. file1 \in {"null", "live", "dead"}
  BY <1>2 DEF Cob_file
<1> HIDE DEF file1, h1, h2
<1>4. h1 \in Cob_file
  BY <1>2, <1>3, FieldTyped DEF h1
<1>5. Same(g, h1) /\ h1.flag_read_done = FALSE
  BY <1>2, <1>4 DEF Same, Cob_file, h1
<1>6. h2 \in Cob_file
  BY <1>4, FieldTyped DEF h2, OpenModes
<1>7. Same(g, h2) /\ h2.flag_read_done = FALSE /\ h2.open_mode = "CLOSED"
  BY <1>4, <1>5, <1>6 DEF Same, Cob_file, h2
<1> QED
  BY <1>1, <1>7

(* START, found or not. *)
LEMMA StartEffect ==
  ASSUME NEW g \in Cob_file
  PROVE  /\ \A h \in {BeginStart(g), AfterStart(g, SUCCESS), AfterStart(g, KEY_NOT_EXISTS)} :
              /\ Same(g, h) /\ h.flag_read_done = FALSE
              /\ h.open_mode = g.open_mode /\ h.flag_first_read \in {0, 1}
<1> DEFINE h0 == Touch(g)
           h1 == [h0 EXCEPT !.flag_first_read = 0]
           h2 == [h1 EXCEPT !.flag_end_of_file = FALSE]
           h3 == [h2 EXCEPT !.flag_begin_of_file = FALSE]
           h4 == [h3 EXCEPT !.flag_first_read = 1]
<1>1. BeginStart(g) = h1
  BY DEF BeginStart, Touch
<1>2. AfterStart(g, SUCCESS) = h4 /\ AfterStart(g, KEY_NOT_EXISTS) = h1
  BY <1>1 DEF AfterStart, SUCCESS, KEY_NOT_EXISTS
<1>3. h0 \in Cob_file /\ Same(g, h0) /\ h0.flag_read_done = FALSE /\ h0.open_mode = g.open_mode
  BY TouchEffect DEF Same
<1> HIDE DEF h0, h1, h2, h3, h4
<1>4. 0 \in 0..2 /\ 1 \in 0..2
  OBVIOUS
<1>5. h1 \in Cob_file
  BY <1>3, <1>4, FieldTyped, Zenon DEF h1
<1>6. /\ Same(g, h1) /\ h1.flag_read_done = FALSE /\ h1.open_mode = g.open_mode
      /\ h1.flag_first_read = 0
  BY <1>3, <1>5 DEF Same, Cob_file, h1
<1>7. h2 \in Cob_file /\ Same(g, h2) /\ h2.flag_read_done = FALSE /\ h2.open_mode = g.open_mode
  <2>1. h2 \in Cob_file
    BY <1>5, <1>6, FieldTyped DEF h2
  <2> QED
    BY <1>5, <1>6, <2>1 DEF h2, Same, Cob_file
<1>8. h3 \in Cob_file /\ Same(g, h3) /\ h3.flag_read_done = FALSE /\ h3.open_mode = g.open_mode
  <2>1. h3 \in Cob_file
    BY <1>7, FieldTyped DEF h3
  <2> QED
    BY <1>7, <2>1 DEF h3, Same, Cob_file
<1>9. h4 \in Cob_file
  BY <1>4, <1>8, FieldTyped, Zenon DEF h4
<1>10. /\ Same(g, h4) /\ h4.flag_read_done = FALSE /\ h4.open_mode = g.open_mode
       /\ h4.flag_first_read = 1
  BY <1>8, <1>9 DEF Same, Cob_file, h4
<1> QED
  BY <1>1, <1>2, <1>6, <1>10

(* a READ that delivers a record *)
LEMMA ReadEffect ==
  ASSUME NEW g \in Cob_file, NEW how \in {"KEY", "NEXT"}
  PROVE  LET h == AfterRead(g, how, SUCCESS)
         IN  Same(g, h) /\ h.open_mode = g.open_mode /\ h.flag_first_read = 0
<1> DEFINE h1 == [g EXCEPT !.flag_first_read = 0]
           h2 == [h1 EXCEPT !.flag_read_done = TRUE]
           h3 == [h2 EXCEPT !.flag_end_of_file = FALSE]
           h4 == [h3 EXCEPT !.flag_begin_of_file = FALSE]
<1>1. AfterRead(g, how, SUCCESS) = h4
  <2>1. SUCCESS # END_OF_FILE
    BY DEF SUCCESS, END_OF_FILE
  <2>2. AfterRead(g, how, SUCCESS)
          = [g EXCEPT !.flag_first_read = 0, !.flag_read_done = TRUE,
                      !.flag_end_of_file = FALSE, !.flag_begin_of_file = FALSE]
    BY <2>1, Zenon DEF AfterRead
  <2> QED
    BY <2>2
<1>2. 0 \in 0..2
  OBVIOUS
<1> HIDE DEF h1, h2, h3, h4
<1>3. h1 \in Cob_file
  BY <1>2, FieldTyped, Zenon DEF h1
<1>4. Same(g, h1) /\ h1.open_mode = g.open_mode /\ h1.flag_first_read = 0
  BY <1>3 DEF h1, Same, Cob_file
<1>5. h2 \in Cob_file /\ Same(g, h2) /\ h2.open_mode = g.open_mode /\ h2.flag_first_read = 0
  <2>1. h2 \in Cob_file
    BY <1>3, <1>4, FieldTyped DEF h2
  <2> QED
    BY <1>3, <1>4, <2>1 DEF h2, Same, Cob_file
<1>6. h3 \in Cob_file /\ Same(g, h3) /\ h3.open_mode = g.open_mode /\ h3.flag_first_read = 0
  <2>1. h3 \in Cob_file
    BY <1>5, FieldTyped DEF h3
  <2> QED
    BY <1>5, <2>1 DEF h3, Same, Cob_file
<1>7. h4 \in Cob_file /\ Same(g, h4) /\ h4.open_mode = g.open_mode /\ h4.flag_first_read = 0
  <2>1. h4 \in Cob_file
    BY <1>6, FieldTyped DEF h4
  <2> QED
    BY <1>6, <2>1 DEF h4, Same, Cob_file
<1> QED
  BY <1>1, <1>7

(* a READ refused, or answered without a record; used: the READ NEXT has    *)
(* looked at a slot                                                        *)
LEMMA NoReadEffect ==
  ASSUME NEW g \in Cob_file, NEW how \in {"KEY", "NEXT"},
         NEW status \in {KEY_NOT_EXISTS, OUT_OF_KEY_RANGE, END_OF_FILE}
  PROVE  \A h \in {RefusedRead(g), AfterRead(g, how, status)} :
           /\ Same(g, h) /\ h.flag_read_done = FALSE
           /\ h.open_mode = g.open_mode /\ h.flag_first_read \in {0, g.flag_first_read}
           /\ h # RefusedRead(g) => h.flag_first_read = g.flag_first_read
<1> DEFINE t == Touch(g)
           used == [t EXCEPT !.flag_first_read = 0]
           eof == [t EXCEPT !.flag_end_of_file = TRUE]
<1>1. RefusedRead(g) \in {used, t}
  BY DEF RefusedRead
<1>2. AfterRead(g, how, status) \in {t, eof}
  BY DEF AfterRead, SUCCESS, KEY_NOT_EXISTS, OUT_OF_KEY_RANGE, END_OF_FILE
<1>3. /\ t \in Cob_file /\ Same(g, t) /\ t.flag_read_done = FALSE
      /\ t.open_mode = g.open_mode /\ t.flag_first_read = g.flag_first_read
  BY TouchEffect DEF Same
<1> HIDE DEF t
<1>4. 0 \in 0..2
  OBVIOUS
<1>5. used \in Cob_file
  BY <1>3, <1>4, FieldTyped, Zenon
<1>6. /\ Same(g, used) /\ used.flag_read_done = FALSE /\ used.open_mode = g.open_mode
      /\ used.flag_first_read = 0
  BY <1>3, <1>5 DEF Same, Cob_file
<1>7. eof \in Cob_file
  BY <1>3, FieldTyped
<1>8. /\ Same(g, eof) /\ eof.flag_read_done = FALSE /\ eof.open_mode = g.open_mode
      /\ eof.flag_first_read = g.flag_first_read
  BY <1>3, <1>7 DEF Same, Cob_file
<1> HIDE DEF used, eof
<1> QED
  BY <1>1, <1>2, <1>3, <1>6, <1>8

-----------------------------------------------------------------------------
(* The slots.                                                              *)

SlotValues == Records \cup {NoRecord}

(* The types of the slots. *)
LEMMA SlotsShape ==
  ASSUME TypeOK
  PROVE  /\ Len(slots) \in 0..N /\ DOMAIN slots = 1..Len(slots)
         /\ slots \in [1..Len(slots) -> SlotValues]
         /\ slots \in Seq(SlotValues)
         /\ Occupied \subseteq 1..Len(slots) /\ Occupied \subseteq 1..N
<1>1. PICK n \in 0..N : slots \in [1..n -> SlotValues]
  BY DEF TypeOK, SlotValues
<1>2. n \in Nat /\ N \in Nat
  BY RelativeAssumption
<1>3. slots \in Seq(SlotValues) /\ Len(slots) = n
  BY <1>1, <1>2
<1> QED
  BY <1>1, <1>2, <1>3 DEF Occupied

(* Slots of the right length are the slots of a file. *)
LEMMA SlotsTyped ==
  ASSUME NEW n \in 0..N, NEW s \in [1..n -> SlotValues]
  PROVE  s \in UNION {[1..m -> Records \cup {NoRecord}] : m \in 0..N}
BY DEF SlotValues

(* A slot of the file gets another value. *)
LEMMA ReplaceTyped ==
  ASSUME TypeOK, NEW i, NEW v \in SlotValues
  PROVE  /\ [slots EXCEPT ![i] = v] \in UNION {[1..m -> Records \cup {NoRecord}] : m \in 0..N}
         /\ \A k \in DOMAIN slots : [slots EXCEPT ![i] = v][k] = IF k = i THEN v ELSE slots[k]
         /\ DOMAIN [slots EXCEPT ![i] = v] = DOMAIN slots
<1>1. [slots EXCEPT ![i] = v] \in [1..Len(slots) -> SlotValues] /\ Len(slots) \in 0..N
  BY SlotsShape
<1> QED
  BY <1>1, SlotsTyped, SlotsShape

(* A record written behind the end, or into a slot of the file. *)
LEMMA PutResult ==
  ASSUME TypeOK, NEW i \in 1..N, NEW r \in Records
  PROVE  LET t == [Padded(slots, i) EXCEPT ![i] = r]
         IN  /\ t \in UNION {[1..m -> Records \cup {NoRecord}] : m \in 0..N}
             /\ i \in DOMAIN t /\ t[i] = r
             /\ \A k \in DOMAIN slots \ {i} : k \in DOMAIN t /\ t[k] = slots[k]
             /\ \A k \in DOMAIN t \ {i} : k \notin DOMAIN slots => t[k] = NoRecord
<1> DEFINE L == Len(slots)
           pad == [k \in 1..(i - L) |-> NoRecord]
           q == slots \o pad
           t == [q EXCEPT ![i] = r]
<1>1. /\ L \in 0..N /\ DOMAIN slots = 1..L /\ slots \in [1..L -> SlotValues]
      /\ slots \in Seq(SlotValues) /\ N \in Nat
  BY SlotsShape, RelativeAssumption
<1>2. Padded(slots, i) = q
  BY DEF Padded
<1>3. CASE i <= L
  <2>1. pad = <<>>
    BY <1>1, <1>3
  <2>2. q = slots
    <3> HIDE DEF pad
    <3> QED BY <1>1, <2>1
  <2> HIDE DEF q
  <2>3. i \in DOMAIN slots /\ r \in SlotValues
    BY <1>1, <1>3 DEF SlotValues
  <2> QED
    BY <1>2, <2>2, <2>3, ReplaceTyped
<1>4. CASE i > L
  <2>1. pad \in Seq(SlotValues) /\ Len(pad) = i - L
    BY <1>1, <1>4 DEF SlotValues
  <2>2. \A k \in 1..(i - L) : pad[k] = NoRecord
    OBVIOUS
  <2> HIDE DEF pad
  <2>3. q \in Seq(SlotValues) /\ Len(q) = i
    BY <1>1, <1>4, <2>1
  <2>4. \A k \in 1..L : q[k] = slots[k]
    BY <1>1, <2>1
  <2>5. ASSUME NEW k \in 1..i, k > L PROVE q[k] = NoRecord
    <3>1. k - L \in 1..(i - L)
      BY <1>1, <2>5
    <3>2. q[k] = pad[k - L]
      BY <1>1, <2>1, <2>5
    <3> QED
      BY <2>2, <3>1, <3>2
  <2> HIDE DEF q
  <2>6. q \in [1..i -> SlotValues] /\ r \in SlotValues
    BY <2>3 DEF SlotValues
  <2>7. t \in [1..i -> SlotValues] /\ i \in 0..N
    BY <2>6
  <2>8. \A k \in 1..i : t[k] = IF k = i THEN r ELSE q[k]
    BY <2>6
  <2>9. t \in UNION {[1..m -> Records \cup {NoRecord}] : m \in 0..N}
    BY <2>7, SlotsTyped
  <2>10. DOMAIN t = 1..i
    BY <2>7
  <2> HIDE DEF t
  <2>11. \A k \in DOMAIN slots \ {i} : k \in DOMAIN t /\ t[k] = slots[k]
    BY <1>1, <1>4, <2>4, <2>8, <2>10
  <2>12. \A k \in DOMAIN t \ {i} : k \notin DOMAIN slots => t[k] = NoRecord
    BY <1>1, <2>5, <2>8, <2>10
  <2>13. i \in DOMAIN t /\ t[i] = r
    BY <2>8, <2>10
  <2> QED
    BY <1>2, <2>9, <2>11, <2>12, <2>13 DEF t
<1> QED
  BY <1>1, <1>3, <1>4

-----------------------------------------------------------------------------
(* What the parts of the invariant need of a step.                         *)

Names == {"none", "OPEN", "CLOSE", "START", "READ KEY", "READ NEXT",
          "WRITE", "REWRITE", "DELETE"}

(* What keeps the SELECT clauses keeps them fixed. *)
LEMMA FixedKept ==
  ASSUME TypeOK, Fixed, Same(f, f'), f'.open_mode # "LOCKED", keyed' = keyed
  PROVE  Fixed'
BY DEF Fixed, Same, TypeOK, Cob_file

(* In sequential access a REWRITE must follow a READ. *)
LEMMA RewriteNeedsRead ==
  ASSUME NEW g \in Cob_file, g.access_mode = "SEQUENTIAL", g.flag_read_done = FALSE
  PROVE  UpdateCheck(g, TRUE) # CallDriver
<1>1. CASE g.open_mode # "I_O"
  BY <1>1 DEF UpdateCheck, CallDriver, I_O_DENIED
<1>2. CASE g.open_mode = "I_O"
  BY <1>2 DEF UpdateCheck, CallDriver, READ_NOT_DONE
<1> QED
  BY <1>1, <1>2

(* The statuses the routines answer by themselves. *)
LEMMA Checks ==
  ASSUME TypeOK, Fixed
  PROVE  /\ \A mode \in OpenOptions :
              /\ OpenCheck(f, mode, FALSE) \in {CLOSED_WITH_LOCK, ALREADY_OPEN, CallDriver}
              /\ f.open_mode = "CLOSED" => OpenCheck(f, mode, FALSE) = CallDriver
         /\ CloseCheck(f) \in {NOT_OPEN, CallDriver}
         /\ StartCheck(f) \in {INPUT_DENIED, CallDriver}
         /\ \A how \in {"KEY", "NEXT"} : ReadCheck(f, how) \in {READ_ERROR, INPUT_DENIED, CallDriver}
         /\ WriteCheck(f, TRUE) \in {OUTPUT_DENIED, CallDriver}
         /\ UpdateCheck(f, TRUE) \in {I_O_DENIED, READ_NOT_DONE, CallDriver}
<1>1. /\ f.organization = "RELATIVE" /\ f.special = 0 /\ f.flag_optional = FALSE
      /\ f.flag_nonexistent = FALSE
      /\ f.open_mode \in {"INPUT", "OUTPUT", "I_O", "EXTEND", "CLOSED"}
  BY DEF TypeOK, Fixed, Cob_file, OpenModes, OpenOptions
<1>2. ASSUME NEW mode \in OpenOptions
      PROVE  /\ OpenCheck(f, mode, FALSE) \in {CLOSED_WITH_LOCK, ALREADY_OPEN, CallDriver}
             /\ f.open_mode = "CLOSED" => OpenCheck(f, mode, FALSE) = CallDriver
  BY <1>1 DEF OpenCheck, OpenOptions
<1>3. CloseCheck(f) \in {NOT_OPEN, CallDriver}
  BY <1>1 DEF CloseCheck
<1>4. StartCheck(f) \in {INPUT_DENIED, CallDriver}
  BY <1>1 DEF StartCheck
<1>5. ASSUME NEW how \in {"KEY", "NEXT"}
      PROVE  ReadCheck(f, how) \in {READ_ERROR, INPUT_DENIED, CallDriver}
  <2>1. CASE Latched(f, how)
    BY <1>1, <2>1 DEF ReadCheck
  <2>2. CASE ~Latched(f, how)
    BY <1>1, <2>2 DEF ReadCheck
  <2> QED
    BY <2>1, <2>2
<1>6. WriteCheck(f, TRUE) \in {OUTPUT_DENIED, CallDriver}
  BY DEF WriteCheck
<1>7. UpdateCheck(f, TRUE) \in {I_O_DENIED, READ_NOT_DONE, CallDriver}
  <2>1. CASE f.open_mode # "I_O"
    BY <2>1 DEF UpdateCheck
  <2>2. CASE f.open_mode = "I_O" /\ f.access_mode = "SEQUENTIAL" /\ ~f.flag_read_done
    BY <2>2 DEF UpdateCheck
  <2>3. CASE f.open_mode = "I_O" /\ ~(f.access_mode = "SEQUENTIAL" /\ ~f.flag_read_done)
    BY <1>1, <2>3 DEF UpdateCheck
  <2> QED
    BY <2>1, <2>2, <2>3
<1> QED
  BY <1>2, <1>3, <1>4, <1>5, <1>6, <1>7

(* The types of what a statement reports. *)
LEMMA ReportTyped ==
  ASSUME NEW op \in Names, NEW status \in 0..99, Answer(op, status)
  PROVE  last' \in [op : Names, status : 0..99] /\ last'.op = op /\ last'.status = status
         /\ keyed' = keyed /\ state' = "running"
BY DEF Answer

(* A step that leaves the file, the position and the scan alone, and takes  *)
(* the connector only where Touch, BeginStart or a refused READ takes it.   *)
LEMMA QuietKeeps ==
  ASSUME IInv, Same(f, f'), f'.open_mode = f.open_mode,
         f'.flag_read_done = FALSE \/ f' = f,
         f'.flag_first_read \in {0, 1, f.flag_first_read},
         keyed' = keyed, slots' = slots, pos' = pos, recno' = recno, scan' = scan, seen' = seen,
         key' \in 0..KeyMax, last' \in [op : Names, status : 0..99],
         state' \in {"running", "adrift", "hung", "crashed"}
  PROVE  IInv'
<1> USE DEF IInv
<1>1. TypeOK'
  BY DEF TypeOK, Same, Names
<1>2. Fixed'
  BY FixedKept DEF Fixed
<1>3. Occupied' = Occupied
  BY DEF Occupied
<1>4. RewriteTarget'
  <2>1. CASE f' = f
    BY <1>3, <2>1 DEF RewriteTarget
  <2>2. CASE f'.flag_read_done = FALSE
    BY <1>1, <2>2, RewriteNeedsRead DEF RewriteTarget, TypeOK
  <2> QED
    BY <2>1, <2>2
<1>5. ScanIsExact'
  BY <1>3 DEF ScanIsExact
<1>6. FirstAtStart'
  BY DEF FirstAtStart
<1> QED
  BY <1>1, <1>2, <1>4, <1>5, <1>6

(* A step that only moves a value to the key field or stops the program.    *)
LEMMA UnmovedKeeps ==
  ASSUME IInv, UNCHANGED <<f, keyed, slots, pos, recno, scan, seen, last>>,
         key' \in 0..KeyMax, state' \in {"running", "adrift", "hung", "crashed"}
  PROVE  IInv'
<1>1. Same(f, f')
  BY DEF IInv, TypeOK, Same
<1>2. last' \in [op : Names, status : 0..99]
  BY DEF IInv, TypeOK, Names
<1> QED
  BY <1>1, <1>2, QuietKeeps

(* A refused statement keeps the invariant. *)
LEMMA RefusedKeeps ==
  ASSUME IInv, NEW op \in Names, NEW status \in 0..99, NEW g,
         Refused(op, status, g), Same(f, g), g.open_mode = f.open_mode,
         g.flag_read_done = FALSE, g.flag_first_read \in {0, 1, f.flag_first_read}
  PROVE  IInv'
<1>1. f' = g /\ Answer(op, status)
      /\ slots' = slots /\ pos' = pos /\ key' = key /\ recno' = recno /\ scan' = scan /\ seen' = seen
  BY DEF Refused
<1>2. last' \in [op : Names, status : 0..99] /\ keyed' = keyed /\ state' = "running"
  BY <1>1, ReportTyped
<1>3. key \in 0..KeyMax
  BY DEF IInv, TypeOK
<1> QED
  BY <1>1, <1>2, <1>3, QuietKeeps

(* A step that ends the scan and asks for another READ before a REWRITE.   *)
LEMMA ScanEnds ==
  ASSUME IInv, TypeOK', Fixed', f'.flag_read_done = FALSE, scan' = FALSE
  PROVE  IInv'
<1> USE DEF IInv
<1>1. RewriteTarget'
  BY RewriteNeedsRead DEF RewriteTarget, TypeOK
<1>2. ScanIsExact' /\ FirstAtStart'
  BY DEF ScanIsExact, FirstAtStart
<1> QED
  BY <1>1, <1>2

(* What a running step leaves typed. *)
LEMMA StepTyped ==
  ASSUME IInv, NEW op \in Names, NEW status \in 0..99, Answer(op, status),
         Same(f, f'), f'.open_mode # "LOCKED",
         slots' \in UNION {[1..m -> Records \cup {NoRecord}] : m \in 0..N},
         pos' \in [slot : 1..(N + KeyMax + 1), mid : BOOLEAN],
         key' \in 0..KeyMax, recno' \in 0..N, scan' \in BOOLEAN, seen' \subseteq 1..N
  PROVE  TypeOK' /\ Fixed'
<1>1. last' \in [op : Names, status : 0..99] /\ keyed' = keyed /\ state' = "running"
  BY ReportTyped
<1>2. TypeOK'
  BY <1>1 DEF IInv, TypeOK, Names, Same
<1>3. Fixed'
  BY <1>1, FixedKept DEF IInv
<1> QED
  BY <1>2, <1>3

-----------------------------------------------------------------------------
(* Every action keeps the invariant.                                       *)

(* numbers the positions are made of *)
LEMMA Bounds ==
  ASSUME TypeOK
  PROVE  /\ N \in Nat \ {0} /\ KeyMax \in Nat \ {0}
         /\ key \in 0..KeyMax /\ Len(slots) \in 0..N
         /\ pos.slot \in 1..(N + KeyMax + 1) /\ pos.mid \in BOOLEAN
         /\ \A i \in 1..(N + KeyMax + 1) :
              /\ Before(i) \in [slot : 1..(N + KeyMax + 1), mid : BOOLEAN]
              /\ Before(i).slot = i /\ Before(i).mid = FALSE
              /\ Inside(i) \in [slot : 1..(N + KeyMax + 1), mid : BOOLEAN]
              /\ Inside(i).slot = i
<1>1. Len(slots) \in 0..N
  BY SlotsShape
<1>2. pos.slot \in 1..(N + KeyMax + 1) /\ pos.mid \in BOOLEAN
  BY DEF TypeOK
<1>3. key \in 0..KeyMax
  BY DEF TypeOK
<1> QED
  BY <1>1, <1>2, <1>3, RelativeAssumption DEF Before, Inside

(* The connector is a record of its type. *)
LEMMA FileTyped == TypeOK => f \in Cob_file
BY DEF TypeOK

(* OPEN keeps the invariant. *)
LEMMA OpenKeeps ==
  ASSUME IInv, NEW mode \in OpenOptions, Open(mode)
  PROVE  IInv'
<1> USE DEF IInv
<1>0. f \in Cob_file
  BY FileTyped
<1>1. CASE Refused("OPEN", OpenCheck(f, mode, FALSE),
                   IF f.open_mode = "CLOSED" THEN BeginOpen(f) ELSE Touch(f))
  <2>1. OpenCheck(f, mode, FALSE) # CallDriver
    BY <1>1 DEF Refused
  <2>2. f.open_mode # "CLOSED" /\ OpenCheck(f, mode, FALSE) \in {CLOSED_WITH_LOCK, ALREADY_OPEN}
    BY <2>1, Checks
  <2>3. OpenCheck(f, mode, FALSE) \in 0..99
    <3>1. CLOSED_WITH_LOCK \in 0..99 /\ ALREADY_OPEN \in 0..99
      BY DEF CLOSED_WITH_LOCK, ALREADY_OPEN
    <3> QED
      BY <2>2, <3>1, Zenon
  <2>4. Refused("OPEN", OpenCheck(f, mode, FALSE), Touch(f))
    BY <1>1, <2>2
  <2> QED
    BY <1>0, <2>3, <2>4, TouchEffect, RefusedKeeps DEF Names
<1>2. CASE /\ f' = AfterOpen(f, mode, "ok")
           /\ slots' = IF mode = "OUTPUT" THEN <<>> ELSE slots
           /\ pos' = Before(IF mode = "EXTEND" THEN Len(slots) + 1 ELSE 1)
           /\ recno' = 0
           /\ scan' = (mode # "EXTEND")
           /\ seen' = {}
           /\ Answer("OPEN", SUCCESS)
           /\ UNCHANGED key
  <2>1. /\ Same(f, f') /\ f'.flag_read_done = FALSE
        /\ f'.open_mode = mode /\ f'.flag_first_read = 2
    BY <1>0, <1>2, OpenEffect
  <2>2. slots' \in UNION {[1..m -> Records \cup {NoRecord}] : m \in 0..N}
    <3>1. CASE mode = "OUTPUT"
      <4>1. slots' \in [1..0 -> SlotValues] /\ 0 \in 0..N
        BY <1>2, <3>1, RelativeAssumption
      <4> QED
        BY <4>1, SlotsTyped
    <3>2. CASE mode # "OUTPUT"
      BY <1>2, <3>2 DEF TypeOK
    <3> QED
      BY <3>1, <3>2
  <2>3. Len(slots) + 1 \in 1..(N + KeyMax + 1) /\ 1 \in 1..(N + KeyMax + 1)
    BY Bounds
  <2>4. pos' \in [slot : 1..(N + KeyMax + 1), mid : BOOLEAN]
    BY <1>2, <2>3, Bounds
  <2>5. key' \in 0..KeyMax /\ recno' \in 0..N /\ scan' \in BOOLEAN /\ seen' \subseteq 1..N
    BY <1>2, Bounds
  <2>6. "OPEN" \in Names /\ SUCCESS \in 0..99
    BY DEF Names, SUCCESS
  <2>7. f'.open_mode # "LOCKED"
    BY <2>1 DEF OpenOptions
  <2>8. TypeOK' /\ Fixed'
    BY <1>2, <2>1, <2>2, <2>4, <2>5, <2>6, <2>7, StepTyped
  <2>9. RewriteTarget'
    BY <2>1, <2>8, RewriteNeedsRead DEF RewriteTarget, TypeOK
  <2>10. ScanIsExact'
    <3> SUFFICES ASSUME mode # "EXTEND" PROVE pos'.mid = FALSE /\ seen' = {i \in Occupied' : i < pos'.slot}
      BY <1>2 DEF ScanIsExact
    <3>1. pos' = Before(1) /\ pos'.mid = FALSE /\ pos'.slot = 1
      BY <1>2, <2>3, Bounds
    <3>2. ASSUME NEW i \in Occupied' PROVE ~(i < 1)
      <4>1. CASE mode = "OUTPUT"
        BY <1>2, <4>1 DEF Occupied
      <4>2. CASE mode # "OUTPUT"
        <5>1. i \in Occupied
          BY <1>2, <4>2 DEF Occupied
        <5> QED
          BY <5>1, SlotsShape
      <4> QED
        BY <4>1, <4>2
    <3> QED
      BY <1>2, <3>1, <3>2
  <2>11. FirstAtStart'
    BY <1>2 DEF FirstAtStart
  <2> QED
    BY <2>8, <2>9, <2>10, <2>11
<1> QED
  BY <1>1, <1>2 DEF Open

(* CLOSE keeps the invariant. *)
LEMMA CloseKeeps ==
  ASSUME IInv, Close
  PROVE  IInv'
<1> USE DEF IInv
<1>0. f \in Cob_file
  BY FileTyped
<1>1. CASE Refused("CLOSE", CloseCheck(f), Touch(f))
  <2>1. CloseCheck(f) \in 0..99
    BY <1>1, Checks DEF Refused, NOT_OPEN
  <2> QED
    BY <1>0, <1>1, <2>1, TouchEffect, RefusedKeeps DEF Names
<1>2. CASE /\ f' = AfterClose(f, "NORMAL", SUCCESS)
           /\ scan' = FALSE
           /\ Answer("CLOSE", SUCCESS)
           /\ UNCHANGED <<slots, pos, key, recno, seen>>
  <2>1. Same(f, f') /\ f'.flag_read_done = FALSE /\ f'.open_mode = "CLOSED"
    BY <1>0, <1>2, CloseEffect
  <2>2. "CLOSE" \in Names /\ SUCCESS \in 0..99
    BY DEF Names, SUCCESS
  <2>3. /\ slots' \in UNION {[1..m -> Records \cup {NoRecord}] : m \in 0..N}
        /\ pos' \in [slot : 1..(N + KeyMax + 1), mid : BOOLEAN]
        /\ key' \in 0..KeyMax /\ recno' \in 0..N /\ scan' \in BOOLEAN /\ seen' \subseteq 1..N
    BY <1>2 DEF TypeOK
  <2>4. TypeOK' /\ Fixed'
    BY <1>2, <2>1, <2>2, <2>3, StepTyped
  <2> QED
    BY <1>2, <2>1, <2>4, ScanEnds
<1> QED
  BY <1>1, <1>2 DEF Close

(* The slot relative_start finds: the nearest that suits its condition.    *)
LEMMA NearestResult ==
  ASSUME TypeOK, NEW cond \in Conditions, NEW p \in 1..Len(slots), StartHit(cond, p) # {}
  PROVE  LET h == Nearest(cond, StartHit(cond, p))
         IN  /\ h \in StartHit(cond, p) /\ h \in Occupied /\ h \in 1..Len(slots)
             /\ \A i \in StartHit(cond, p) :
                  IF cond \in {"LT", "LE"} THEN i <= h ELSE i >= h
<1> DEFINE S == StartHit(cond, p)
<1>1. Occupied \subseteq 1..Len(slots) /\ Len(slots) \in 0..N /\ N \in Nat
  BY SlotsShape, RelativeAssumption
<1>2. S \subseteq Occupied
  BY DEF StartHit, Conditions
<1>3. S \in SUBSET Nat /\ S \in SUBSET (0..Len(slots)) /\ Len(slots) \in Nat
  <2>1. Len(slots) \in Nat /\ 1..Len(slots) \subseteq Nat /\ 1..Len(slots) \subseteq 0..Len(slots)
    BY <1>1
  <2> HIDE DEF S
  <2> QED
    BY <1>1, <1>2, <2>1, Zenon
<1> HIDE DEF S
<1>4. S # {}
  BY DEF S
<1>5. CASE cond \in {"LT", "LE"}
  <2>1. Nearest(cond, S) = Max(S)
    BY <1>5 DEF Nearest
  <2>2. Max(S) \in S /\ \A m \in S : Max(S) >= m
    BY <1>3, <1>4, MaxResult
  <2>3. \A m \in S : m <= Max(S)
    BY <1>3, <2>2
  <2> QED
    BY <1>1, <1>2, <1>5, <2>1, <2>2, <2>3 DEF S
<1>6. CASE cond \notin {"LT", "LE"}
  <2>1. Nearest(cond, S) = Min(S)
    BY <1>6 DEF Nearest
  <2>2. Min(S) \in S /\ \A m \in S : Min(S) <= m
    BY <1>3, <1>4, MinResult
  <2>3. \A m \in S : m >= Min(S)
    BY <1>3, <2>2
  <2> QED
    BY <1>1, <1>2, <1>6, <2>1, <2>2, <2>3 DEF S
<1> QED
  BY <1>5, <1>6

(* The slot START looks at first. *)
LEMMA ProbeTyped ==
  ASSUME TypeOK, NEW cond \in Conditions
  PROVE  Probe(cond, key) \in (0 - 1)..(KeyMax + 1)
BY Bounds DEF Probe, Conditions

(* START keeps the invariant. *)
LEMMA StartKeeps ==
  ASSUME IInv, NEW cond \in Conditions, Start(cond)
  PROVE  IInv'
<1> USE DEF IInv
<1> DEFINE p == Probe(cond, key)
           h == Nearest(cond, StartHit(cond, p))
<1>0. f \in Cob_file
  BY FileTyped
<1>1. CASE Refused("START", StartCheck(f), BeginStart(f))
  <2>1. StartCheck(f) \in 0..99
    BY <1>1, Checks DEF Refused, INPUT_DENIED
  <2>2. /\ Same(f, BeginStart(f)) /\ BeginStart(f).open_mode = f.open_mode
        /\ BeginStart(f).flag_read_done = FALSE /\ BeginStart(f).flag_first_read \in {0, 1}
    BY <1>0, StartEffect
  <2>3. "START" \in Names
    BY DEF Names
  <2> QED
    BY <1>1, <2>1, <2>2, <2>3, RefusedKeeps
<1>2. CASE StartFound(cond)
  <2>1. /\ p \in 1..Len(slots) /\ StartHit(cond, p) # {} /\ f' = AfterStart(f, SUCCESS)
        /\ key' = Stored(h) /\ pos' = Before(h) /\ scan' = TRUE
        /\ seen' = {i \in Occupied : i < h} /\ Answer("START", SUCCESS)
        /\ slots' = slots /\ recno' = recno
    BY <1>2 DEF StartFound
  <2>2. h \in 1..Len(slots)
    BY <2>1, NearestResult
  <2> HIDE DEF h
  <2>3. /\ Same(f, f') /\ f'.flag_read_done = FALSE /\ f'.open_mode = f.open_mode
        /\ f'.flag_first_read \in {0, 1}
    BY <1>0, <2>1, StartEffect
  <2>4. f'.open_mode # "LOCKED"
    BY <2>3 DEF Fixed
  <2>5. h \in 1..(N + KeyMax + 1) /\ h \in Nat
    BY <2>2, Bounds
  <2>6. /\ pos' \in [slot : 1..(N + KeyMax + 1), mid : BOOLEAN]
        /\ pos'.slot = h /\ pos'.mid = FALSE
    BY <2>1, <2>5, Bounds
  <2>7. key' \in 0..KeyMax
    BY <2>1, <2>5, StoredTyped
  <2>8. /\ slots' \in UNION {[1..m -> Records \cup {NoRecord}] : m \in 0..N}
        /\ recno' \in 0..N /\ scan' \in BOOLEAN
    BY <2>1 DEF TypeOK
  <2>9. seen' \subseteq 1..N
    BY <2>1, SlotsShape
  <2>10. "START" \in Names /\ SUCCESS \in 0..99
    BY DEF Names, SUCCESS
  <2>11. TypeOK' /\ Fixed'
    BY <2>1, <2>3, <2>4, <2>6, <2>7, <2>8, <2>9, <2>10, StepTyped
  <2>12. RewriteTarget'
    BY <2>3, <2>11, RewriteNeedsRead DEF RewriteTarget, TypeOK
  <2>13. Occupied' = Occupied
    BY <2>1 DEF Occupied
  <2>14. ScanIsExact'
    BY <2>1, <2>6, <2>13 DEF ScanIsExact
  <2>15. FirstAtStart'
    BY <2>3 DEF FirstAtStart
  <2> QED
    BY <2>11, <2>12, <2>14, <2>15
<1>3. CASE StartNotFound(cond)
  <2>1. /\ f' = AfterStart(f, KEY_NOT_EXISTS) /\ pos' = StartMiss(cond, p) /\ scan' = FALSE
        /\ Answer("START", KEY_NOT_EXISTS)
        /\ slots' = slots /\ key' = key /\ recno' = recno /\ seen' = seen
    BY <1>3 DEF StartNotFound
  <2>2. Same(f, f') /\ f'.flag_read_done = FALSE /\ f'.open_mode = f.open_mode
    BY <1>0, <2>1, StartEffect
  <2>3. f'.open_mode # "LOCKED"
    BY <2>2 DEF Fixed
  <2>4. pos' \in [slot : 1..(N + KeyMax + 1), mid : BOOLEAN]
    <3>1. p \in (0 - 1)..(KeyMax + 1)
      BY ProbeTyped
    <3> HIDE DEF p
    <3>2. CASE p < 1
      <4>1. p \notin 1..Len(slots) /\ ~(p > Len(slots))
        BY <3>1, <3>2, Bounds
      <4>2. StartMiss(cond, p) = pos
        BY <3>2, <4>1 DEF StartMiss
      <4> QED
        BY <2>1, <4>2 DEF TypeOK
    <3>3. CASE p > Len(slots) /\ ~(p < 1)
      <4>1. p \in 1..(N + KeyMax + 1)
        BY <3>1, <3>3, Bounds
      <4>2. p \notin 1..Len(slots)
        BY <3>1, <3>3, Bounds
      <4>3. StartMiss(cond, p) = Before(p)
        BY <3>3, <4>2 DEF StartMiss
      <4> QED
        BY <2>1, <4>1, <4>3, Bounds
    <3>4. CASE p \in 1..Len(slots)
      <4>1. p \in 1..(N + KeyMax + 1) /\ 1 \in 1..(N + KeyMax + 1)
            /\ Len(slots) + 1 \in 1..(N + KeyMax + 1)
        BY <3>4, Bounds
      <4>2. ~(p < 1) /\ ~(p > Len(slots))
        BY <3>4, Bounds
      <4>3. StartMiss(cond, p) \in {Inside(p), Inside(1), Before(Len(slots) + 1)}
        BY <3>4, <4>2 DEF StartMiss, Conditions
      <4>4. \A x \in {Inside(p), Inside(1), Before(Len(slots) + 1)} :
              x \in [slot : 1..(N + KeyMax + 1), mid : BOOLEAN]
        BY <4>1, Bounds
      <4> QED
        BY <2>1, <4>3, <4>4, Zenon
    <3> QED
      BY <3>1, <3>2, <3>3, <3>4, Bounds
  <2>5. /\ slots' \in UNION {[1..m -> Records \cup {NoRecord}] : m \in 0..N}
        /\ key' \in 0..KeyMax /\ recno' \in 0..N /\ scan' \in BOOLEAN /\ seen' \subseteq 1..N
    BY <2>1 DEF TypeOK
  <2>6. "START" \in Names /\ KEY_NOT_EXISTS \in 0..99
    BY DEF Names, KEY_NOT_EXISTS
  <2>7. TypeOK' /\ Fixed'
    BY <2>1, <2>2, <2>3, <2>4, <2>5, <2>6, StepTyped
  <2> QED
    BY <2>1, <2>2, <2>7, ScanEnds
<1>4. CASE StartHangs
  <2>1. UNCHANGED <<f, keyed, slots, pos, recno, scan, seen, last>> /\ key' = key /\ state' = "hung"
    BY <1>4 DEF StartHangs, file
  <2>2. key' \in 0..KeyMax
    BY <2>1, Bounds
  <2> QED
    BY <2>1, <2>2, UnmovedKeeps
<1> QED
  BY <1>1, <1>2, <1>3, <1>4 DEF Start

(* READ by key keeps the invariant. *)
LEMMA ReadKeyKeeps ==
  ASSUME IInv, ReadKey
  PROVE  IInv'
<1> USE DEF IInv
<1>0. f \in Cob_file /\ f.access_mode # "SEQUENTIAL"
  BY FileTyped DEF ReadKey
<1>1. CASE Refused("READ KEY", ReadCheck(f, "KEY"), RefusedRead(f))
  <2>1. ReadCheck(f, "KEY") \in 0..99
    <3>1. ReadCheck(f, "KEY") # CallDriver
      BY <1>1 DEF Refused
    <3>2. ReadCheck(f, "KEY") \in {READ_ERROR, INPUT_DENIED}
      BY <3>1, Checks
    <3>3. READ_ERROR \in 0..99 /\ INPUT_DENIED \in 0..99
      BY DEF READ_ERROR, INPUT_DENIED
    <3> QED
      BY <3>2, <3>3, Zenon
  <2>2. /\ Same(f, RefusedRead(f)) /\ RefusedRead(f).open_mode = f.open_mode
        /\ RefusedRead(f).flag_read_done = FALSE
        /\ RefusedRead(f).flag_first_read \in {0, f.flag_first_read}
    BY <1>0, NoReadEffect
  <2>3. "READ KEY" \in Names
    BY DEF Names
  <2> QED
    BY <1>1, <2>1, <2>2, <2>3, RefusedKeeps
<1>2. CASE /\ scan' = FALSE
           /\ IF key \in Occupied
                THEN /\ f' = AfterRead(f, "KEY", SUCCESS)
                     /\ pos' = Before(key + 1)
                     /\ recno' = key
                     /\ Answer("READ KEY", SUCCESS)
                ELSE /\ f' = AfterRead(f, "KEY", KEY_NOT_EXISTS)
                     /\ pos' = IF key = 0 THEN pos ELSE Before(key)
                     /\ Answer("READ KEY", KEY_NOT_EXISTS)
                     /\ UNCHANGED recno
           /\ UNCHANGED <<slots, key, seen>>
  <2>1. Same(f, f') /\ f'.open_mode = f.open_mode
    <3>1. CASE key \in Occupied
      BY <1>0, <1>2, <3>1, ReadEffect
    <3>2. CASE key \notin Occupied
      BY <1>0, <1>2, <3>2, NoReadEffect
    <3> QED
      BY <3>1, <3>2
  <2>2. f'.open_mode # "LOCKED" /\ f'.access_mode # "SEQUENTIAL"
    BY <1>0, <2>1 DEF Fixed, Same
  <2>3. key + 1 \in 1..(N + KeyMax + 1) /\ (key # 0 => key \in 1..(N + KeyMax + 1))
    BY Bounds
  <2>4. pos' \in [slot : 1..(N + KeyMax + 1), mid : BOOLEAN]
    <3>1. pos' \in {Before(key + 1), pos} \/ (key # 0 /\ pos' = Before(key))
      BY <1>2
    <3>2. pos \in [slot : 1..(N + KeyMax + 1), mid : BOOLEAN]
      BY DEF TypeOK
    <3> QED
      BY <2>3, <3>1, <3>2, Bounds, Zenon
  <2>5. /\ slots' \in UNION {[1..m -> Records \cup {NoRecord}] : m \in 0..N}
        /\ key' \in 0..KeyMax /\ scan' \in BOOLEAN /\ seen' \subseteq 1..N
    BY <1>2 DEF TypeOK
  <2>6. recno' \in 0..N
    <3>1. CASE key \in Occupied
      <4>1. recno' = key /\ key \in 1..N
        BY <1>2, <3>1, SlotsShape
      <4> QED
        BY <4>1, Bounds
    <3>2. CASE key \notin Occupied
      BY <1>2, <3>2 DEF TypeOK
    <3> QED
      BY <3>1, <3>2
  <2>7. "READ KEY" \in Names /\ SUCCESS \in 0..99 /\ KEY_NOT_EXISTS \in 0..99
    BY DEF Names, SUCCESS, KEY_NOT_EXISTS
  <2>8. PICK status \in {SUCCESS, KEY_NOT_EXISTS} : Answer("READ KEY", status)
    BY <1>2
  <2>9. TypeOK' /\ Fixed'
    BY <2>1, <2>2, <2>4, <2>5, <2>6, <2>7, <2>8, StepTyped
  <2>10. RewriteTarget'
    BY <2>2 DEF RewriteTarget
  <2>11. ScanIsExact' /\ FirstAtStart'
    BY <1>2 DEF ScanIsExact, FirstAtStart
  <2> QED
    BY <2>9, <2>10, <2>11
<1> QED
  BY <1>1, <1>2 DEF ReadKey

(* The slots ahead of the position, and the least of a nonempty set of them. *)
LEMMA AheadShape ==
  ASSUME TypeOK
  PROVE  /\ Ahead \subseteq 1..Len(slots) /\ Hits \subseteq Ahead /\ Too_big \subseteq Ahead
         /\ Hits \subseteq Occupied
         /\ \A S \in SUBSET Ahead : S # {} =>
              /\ Min(S) \in S /\ \A i \in S : Min(S) <= i
              /\ Min(S) \in 1..Len(slots) /\ Min(S) >= pos.slot
<1>1. DOMAIN slots = 1..Len(slots) /\ Len(slots) \in Nat
  BY SlotsShape, RelativeAssumption
<1>2. Ahead \subseteq 1..Len(slots)
  BY <1>1 DEF Ahead
<1>3. Hits \subseteq Ahead /\ Too_big \subseteq Ahead /\ Hits \subseteq Occupied
  BY DEF Hits, Too_big
<1>4. ASSUME NEW S \in SUBSET Ahead, S # {}
      PROVE  /\ Min(S) \in S /\ \A i \in S : Min(S) <= i
             /\ Min(S) \in 1..Len(slots) /\ Min(S) >= pos.slot
  <2>1. 1..Len(slots) \subseteq Nat
    BY <1>1
  <2>2. S \in SUBSET Nat
    BY <1>2, <1>4, <2>1, Zenon
  <2>3. Min(S) \in S /\ \A i \in S : Min(S) <= i
    BY <1>4, <2>2, MinResult
  <2>4. Min(S) \in Ahead
    BY <1>4, <2>3
  <2> QED
    BY <1>2, <2>3, <2>4 DEF Ahead
<1> QED
  BY <1>2, <1>3, <1>4

(* The number moved to the key field fits it, unless the slot is too big.   *)
LEMMA KeyAtTyped ==
  ASSUME TypeOK, NEW i \in Ahead, i \notin Too_big
  PROVE  KeyAt(i) \in 0..KeyMax
<1>1. i \in Nat /\ KeyMax \in Nat \ {0} /\ key \in 0..KeyMax
  BY AheadShape, Bounds
<1>2. CASE ~keyed
  BY <1>1, <1>2 DEF KeyAt
<1>3. CASE keyed /\ First /\ i = pos.slot
  BY <1>1, <1>3 DEF KeyAt
<1>4. CASE keyed /\ ~(First /\ i = pos.slot)
  <2>1. ~(i > KeyMax)
    BY <1>4 DEF Too_big
  <2> QED
    BY <1>1, <1>4, <2>1 DEF KeyAt
<1> QED
  BY <1>2, <1>3, <1>4 DEF TypeOK

(* A READ NEXT without a record has used up flag_first_read when it has     *)
(* looked at a slot and there is a key field.                              *)
LEMMA ExaminedEffect ==
  ASSUME TypeOK, NEW status \in {OUT_OF_KEY_RANGE, END_OF_FILE}
  PROVE  LET h == Examined(AfterRead(f, "NEXT", status))
         IN  /\ Same(f, h) /\ h.flag_read_done = FALSE /\ h.open_mode = f.open_mode
             /\ h.flag_first_read \in {0, f.flag_first_read}
             /\ keyed /\ Ahead # {} => h.flag_first_read = 0
<1> DEFINE g == AfterRead(f, "NEXT", status)
           used == [g EXCEPT !.flag_first_read = 0]
<1>1. f \in Cob_file
  BY FileTyped
<1>2. /\ Same(f, g) /\ g.flag_read_done = FALSE /\ g.open_mode = f.open_mode
      /\ g.flag_first_read \in {0, f.flag_first_read}
  BY <1>1, NoReadEffect
<1>3. Examined(g) = IF keyed /\ Ahead # {} THEN used ELSE g
  BY DEF Examined
<1> HIDE DEF g
<1>4. 0 \in 0..2 /\ g \in Cob_file
  BY <1>2 DEF Same
<1>5. used \in Cob_file
  BY <1>4, FieldTyped, Zenon
<1>6. /\ Same(f, used) /\ used.flag_read_done = FALSE /\ used.open_mode = f.open_mode
      /\ used.flag_first_read = 0
  BY <1>2, <1>4, <1>5 DEF Same, Cob_file
<1> HIDE DEF used
<1> QED
  BY <1>2, <1>3, <1>6 DEF g

(* A READ NEXT or PREVIOUS that finds a record keeps the invariant. *)
LEMMA NextFoundKeeps ==
  ASSUME IInv, ~pos.mid, NextFound
  PROVE  IInv'
<1> USE DEF IInv
<1> DEFINE h == Min(Hits)
<1>1. /\ Hits # {} /\ (\A i \in Too_big : h < i)
      /\ f' = AfterRead(f, "NEXT", SUCCESS) /\ pos' = Before(h + 1) /\ key' = KeyAt(h)
      /\ recno' = h /\ seen' = seen \cup {h} /\ Answer("READ NEXT", SUCCESS)
      /\ slots' = slots /\ scan' = scan
  BY DEF NextFound
<1>2. h \in Hits /\ (\A i \in Hits : h <= i) /\ h \in 1..Len(slots) /\ h >= pos.slot
  BY <1>1, AheadShape
<1> HIDE DEF h
<1>3. h \in Ahead /\ h \in Occupied
  BY <1>2, AheadShape
<1>4. h \notin Too_big
  <2>1. ~(h < h)
    BY <1>2, Bounds
  <2> QED
    BY <1>1, <2>1
<1>5. f \in Cob_file
  BY FileTyped
<1>6. Same(f, f') /\ f'.open_mode = f.open_mode /\ f'.flag_first_read = 0
  BY <1>1, <1>5, ReadEffect
<1>7. f'.open_mode # "LOCKED"
  BY <1>6 DEF Fixed
<1>8. h + 1 \in 1..(N + KeyMax + 1) /\ h \in 1..N
  BY <1>2, Bounds
<1>9. /\ pos' \in [slot : 1..(N + KeyMax + 1), mid : BOOLEAN]
      /\ pos'.slot = h + 1 /\ pos'.mid = FALSE
  BY <1>1, <1>8, Bounds
<1>10. key' \in 0..KeyMax
  BY <1>1, <1>3, <1>4, KeyAtTyped
<1>11. /\ slots' \in UNION {[1..m -> Records \cup {NoRecord}] : m \in 0..N}
       /\ scan' \in BOOLEAN /\ recno' \in 0..N /\ seen' \subseteq 1..N
  <2>1. /\ slots' \in UNION {[1..m -> Records \cup {NoRecord}] : m \in 0..N}
        /\ scan' \in BOOLEAN
    BY <1>1 DEF TypeOK
  <2>2. recno' \in 0..N
    <3>1. 1..N \subseteq 0..N
      BY RelativeAssumption
    <3> QED
      BY <1>1, <1>8, <3>1
  <2>3. seen \subseteq 1..N
    BY DEF TypeOK
  <2> QED
    BY <1>1, <1>8, <2>1, <2>2, <2>3
<1>12. "READ NEXT" \in Names /\ SUCCESS \in 0..99
  BY DEF Names, SUCCESS
<1>13. TypeOK' /\ Fixed'
  BY <1>1, <1>6, <1>7, <1>9, <1>10, <1>11, <1>12, StepTyped
<1>14. Occupied' = Occupied
  BY <1>1 DEF Occupied
<1>15. RewriteTarget'
  BY <1>1, <1>3, <1>14 DEF RewriteTarget, Before
<1>16. ScanIsExact'
  <2> SUFFICES ASSUME scan PROVE seen' = {i \in Occupied : i < h + 1}
    BY <1>1, <1>9, <1>14 DEF ScanIsExact
  <2>1. seen = {i \in Occupied : i < pos.slot}
    BY DEF ScanIsExact
  <2>2. ASSUME NEW i \in Occupied PROVE i < h + 1 <=> i < pos.slot \/ i = h
    <3>1. i \in Nat /\ h \in Nat /\ pos.slot \in Nat
      BY <1>2, SlotsShape, Bounds
    <3>2. ASSUME i >= pos.slot PROVE h <= i
      BY <1>2, <3>2, SlotsShape DEF Hits, Ahead
    <3> QED
      BY <1>2, <3>1, <3>2
  <2> QED
    BY <1>1, <1>3, <2>1, <2>2
<1>17. FirstAtStart'
  BY <1>6 DEF FirstAtStart
<1> QED
  BY <1>13, <1>15, <1>16, <1>17

(* One whose record number does not fit the key keeps it. *)
LEMMA NextOutOfRangeKeeps ==
  ASSUME IInv, ~pos.mid, NextOutOfRange
  PROVE  IInv'
<1> USE DEF IInv
<1> DEFINE b == Min(Too_big)
<1>1. /\ Too_big # {} /\ (\A i \in Hits : b <= i)
      /\ f' = Examined(AfterRead(f, "NEXT", OUT_OF_KEY_RANGE)) /\ pos' = Before(b) /\ key' = 0
      /\ Answer("READ NEXT", OUT_OF_KEY_RANGE)
      /\ slots' = slots /\ recno' = recno /\ scan' = scan /\ seen' = seen
  BY DEF NextOutOfRange
<1>2. b \in Too_big /\ b \in 1..Len(slots) /\ b >= pos.slot
  BY <1>1, AheadShape
<1> HIDE DEF b
<1>3. keyed /\ Ahead # {}
  BY <1>2 DEF Too_big
<1>4. /\ Same(f, f') /\ f'.flag_read_done = FALSE /\ f'.open_mode = f.open_mode
      /\ f'.flag_first_read = 0
  BY <1>1, <1>3, ExaminedEffect
<1>5. f'.open_mode # "LOCKED"
  BY <1>4 DEF Fixed
<1>6. b \in 1..(N + KeyMax + 1)
  BY <1>2, Bounds
<1>7. /\ pos' \in [slot : 1..(N + KeyMax + 1), mid : BOOLEAN]
      /\ pos'.slot = b /\ pos'.mid = FALSE
  BY <1>1, <1>6, Bounds
<1>8. /\ slots' \in UNION {[1..m -> Records \cup {NoRecord}] : m \in 0..N}
      /\ key' \in 0..KeyMax /\ scan' \in BOOLEAN /\ recno' \in 0..N /\ seen' \subseteq 1..N
  <2>1. key' \in 0..KeyMax
    <3>1. 0 \in 0..KeyMax
      BY RelativeAssumption
    <3> QED
      BY <1>1, <3>1
  <2> QED
    BY <1>1, <2>1 DEF TypeOK
<1>9. "READ NEXT" \in Names /\ OUT_OF_KEY_RANGE \in 0..99
  BY DEF Names, OUT_OF_KEY_RANGE
<1>10. TypeOK' /\ Fixed'
  BY <1>1, <1>4, <1>5, <1>7, <1>8, <1>9, StepTyped
<1>11. Occupied' = Occupied
  BY <1>1 DEF Occupied
<1>12. RewriteTarget'
  BY <1>4, <1>10, RewriteNeedsRead DEF RewriteTarget, TypeOK
<1>13. ScanIsExact'
  <2> SUFFICES ASSUME scan PROVE seen = {i \in Occupied : i < b}
    BY <1>1, <1>7, <1>11 DEF ScanIsExact
  <2>1. seen = {i \in Occupied : i < pos.slot}
    BY DEF ScanIsExact
  <2>2. ASSUME NEW i \in Occupied PROVE i < b <=> i < pos.slot
    <3>1. i \in Nat /\ b \in Nat /\ pos.slot \in Nat
      BY <1>2, SlotsShape, Bounds
    <3>2. ASSUME i >= pos.slot PROVE b <= i
      BY <1>1, <3>2, SlotsShape DEF Hits, Ahead
    <3> QED
      BY <1>2, <3>1, <3>2
  <2> QED
    BY <2>1, <2>2
<1>14. FirstAtStart'
  BY <1>4 DEF FirstAtStart
<1> QED
  BY <1>10, <1>12, <1>13, <1>14

(* One that comes to the end of the file keeps it. *)
LEMMA NextAtEndKeeps ==
  ASSUME IInv, ~pos.mid, NextAtEnd
  PROVE  IInv'
<1> USE DEF IInv
<1> DEFINE L == Len(slots)
           e == IF Ahead = {} THEN pos.slot ELSE L + 1
<1>1. /\ Hits = {} /\ Too_big = {}
      /\ f' = Examined(AfterRead(f, "NEXT", END_OF_FILE)) /\ pos' = Before(e)
      /\ key' = IF Ahead = {} THEN key ELSE KeyAt(L)
      /\ Answer("READ NEXT", END_OF_FILE)
      /\ slots' = slots /\ recno' = recno /\ scan' = scan /\ seen' = seen
  BY DEF NextAtEnd
<1>2. /\ Same(f, f') /\ f'.flag_read_done = FALSE /\ f'.open_mode = f.open_mode
      /\ f'.flag_first_read \in {0, f.flag_first_read}
      /\ keyed /\ Ahead # {} => f'.flag_first_read = 0
  BY <1>1, ExaminedEffect
<1>3. f'.open_mode # "LOCKED"
  BY <1>2 DEF Fixed
<1>4. e \in 1..(N + KeyMax + 1) /\ e >= pos.slot
  <2>1. CASE Ahead = {}
    BY <2>1, Bounds
  <2>2. CASE Ahead # {}
    <3>1. PICK i \in Ahead : i \in 1..L /\ i >= pos.slot
      BY <2>2, AheadShape DEF Ahead
    <3> QED
      BY <2>2, <3>1, Bounds
  <2> QED
    BY <2>1, <2>2
<1>5. key' \in 0..KeyMax
  <2>1. CASE Ahead = {}
    BY <1>1, <2>1, Bounds
  <2>2. CASE Ahead # {}
    <3>1. PICK i \in Ahead : i \in 1..L /\ i >= pos.slot
      BY <2>2, AheadShape DEF Ahead
    <3>2. L \in Ahead
      BY <3>1, SlotsShape, Bounds DEF Ahead
    <3> QED
      BY <1>1, <2>2, <3>2, KeyAtTyped
  <2> QED
    BY <2>1, <2>2
<1>6. \A i \in Occupied : i < pos.slot /\ i < e
  <2> SUFFICES ASSUME NEW i \in Occupied PROVE i < pos.slot /\ i < e
    OBVIOUS
  <2>1. i \in Nat /\ pos.slot \in Nat /\ e \in Nat
    BY <1>4, SlotsShape, Bounds
  <2>2. ASSUME i >= pos.slot PROVE FALSE
    <3>1. i \in DOMAIN slots
      BY DEF Occupied
    <3>2. i \in Hits
      BY <2>2, <3>1 DEF Hits, Ahead
    <3> QED
      BY <1>1, <3>2
  <2>3. i < pos.slot
    BY <2>1, <2>2
  <2> QED
    BY <1>4, <2>1, <2>3
<1>7. Ahead = {} => e = pos.slot
  OBVIOUS
<1> HIDE DEF e
<1>8. /\ pos' \in [slot : 1..(N + KeyMax + 1), mid : BOOLEAN]
      /\ pos'.slot = e /\ pos'.mid = FALSE
  BY <1>1, <1>4, Bounds
<1>9. /\ slots' \in UNION {[1..m -> Records \cup {NoRecord}] : m \in 0..N}
      /\ scan' \in BOOLEAN /\ recno' \in 0..N /\ seen' \subseteq 1..N
  BY <1>1 DEF TypeOK
<1>10. "READ NEXT" \in Names /\ END_OF_FILE \in 0..99
  BY DEF Names, END_OF_FILE
<1>11. TypeOK' /\ Fixed'
  BY <1>1, <1>2, <1>3, <1>5, <1>8, <1>9, <1>10, StepTyped
<1>12. Occupied' = Occupied
  BY <1>1 DEF Occupied
<1>13. RewriteTarget'
  BY <1>2, <1>11, RewriteNeedsRead DEF RewriteTarget, TypeOK
<1>14. ScanIsExact'
  BY <1>1, <1>6, <1>8, <1>12 DEF ScanIsExact
<1>15. FirstAtStart'
  <2> SUFFICES ASSUME keyed', scan', f'.flag_first_read = 2 PROVE pos' = Before(1)
    BY DEF FirstAtStart
  <2>1. keyed' = keyed /\ scan' = scan
    BY <1>1 DEF Answer
  <2>2. keyed /\ scan
    BY <2>1
  <2>3. f.flag_first_read = 2 /\ Ahead = {}
    BY <1>2, <2>2
  <2>4. pos = Before(1)
    BY <2>2, <2>3 DEF FirstAtStart
  <2>5. e = 1
    BY <1>7, <2>3, <2>4 DEF Before
  <2> QED
    BY <1>1, <2>5 DEF e
<1> QED
  BY <1>11, <1>13, <1>14, <1>15

(* READ NEXT and PREVIOUS keep the invariant. *)
LEMMA ReadNextKeeps ==
  ASSUME IInv, ReadNext
  PROVE  IInv'
<1>0. f \in Cob_file /\ TypeOK /\ Fixed
  BY FileTyped DEF IInv
<1>1. CASE Refused("READ NEXT", ReadCheck(f, "NEXT"), RefusedRead(f))
  <2>1. ReadCheck(f, "NEXT") \in 0..99
    <3>1. ReadCheck(f, "NEXT") # CallDriver
      BY <1>1 DEF Refused
    <3>2. ReadCheck(f, "NEXT") \in {READ_ERROR, INPUT_DENIED}
      BY <1>0, <3>1, Checks
    <3>3. READ_ERROR \in 0..99 /\ INPUT_DENIED \in 0..99
      BY DEF READ_ERROR, INPUT_DENIED
    <3> QED
      BY <3>2, <3>3, Zenon
  <2>2. /\ Same(f, RefusedRead(f)) /\ RefusedRead(f).open_mode = f.open_mode
        /\ RefusedRead(f).flag_read_done = FALSE
        /\ RefusedRead(f).flag_first_read \in {0, f.flag_first_read}
    BY <1>0, NoReadEffect
  <2>3. "READ NEXT" \in Names
    BY DEF Names
  <2> QED
    BY <1>1, <2>1, <2>2, <2>3, RefusedKeeps
<1>2. CASE ~pos.mid /\ (NextFound \/ NextOutOfRange \/ NextAtEnd)
  BY <1>2, NextFoundKeeps, NextOutOfRangeKeeps, NextAtEndKeeps
<1>3. CASE Drift
  <2>1. /\ UNCHANGED <<f, keyed, slots, pos, recno, scan, seen, last>>
        /\ key' = key /\ state' = "adrift"
    BY <1>3 DEF Drift, file
  <2>2. key' \in 0..KeyMax
    BY <1>0, <2>1, Bounds
  <2> QED
    BY <2>1, <2>2, UnmovedKeeps
<1> QED
  BY <1>1, <1>2, <1>3 DEF ReadNext

(* A record written into a slot keeps the invariant. *)
LEMMA WriteAtKeeps ==
  ASSUME IInv, NEW i \in 1..(N + KeyMax + 1), NEW r \in Records, WriteAt(i, r),
         key' \in 0..KeyMax
  PROVE  IInv'
<1> USE DEF IInv
<1> DEFINE t == [Padded(slots, i) EXCEPT ![i] = r]
<1>1. i <= N /\ f' = Touch(f) /\ scan' = FALSE /\ recno' = recno /\ seen' = seen
  BY DEF WriteAt
<1>2. PICK status \in {SUCCESS, KEY_EXISTS} :
        /\ Answer("WRITE", status)
        /\ \/ pos' = Before(i) /\ slots' = slots
           \/ pos' = Before(i + 1) /\ slots' = t
  BY DEF WriteAt
<1>3. i \in 1..N /\ i + 1 \in 1..(N + KeyMax + 1)
  BY <1>1, RelativeAssumption
<1>4. /\ Same(f, f') /\ f'.flag_read_done = FALSE /\ f'.open_mode = f.open_mode
  BY <1>1, FileTyped, TouchEffect
<1>5. f'.open_mode # "LOCKED"
  BY <1>4 DEF Fixed
<1>6. t \in UNION {[1..m -> Records \cup {NoRecord}] : m \in 0..N}
  BY <1>3, PutResult
<1> HIDE DEF t
<1>7. slots' \in UNION {[1..m -> Records \cup {NoRecord}] : m \in 0..N}
  BY <1>2, <1>6 DEF TypeOK
<1>8. pos' \in [slot : 1..(N + KeyMax + 1), mid : BOOLEAN]
  BY <1>2, <1>3, Bounds
<1>9. recno' \in 0..N /\ scan' \in BOOLEAN /\ seen' \subseteq 1..N
  BY <1>1 DEF TypeOK
<1>10. "WRITE" \in Names /\ status \in 0..99
  <2>1. SUCCESS \in 0..99 /\ KEY_EXISTS \in 0..99
    BY DEF SUCCESS, KEY_EXISTS
  <2> QED
    BY <2>1 DEF Names
<1>11. TypeOK' /\ Fixed'
  BY <1>2, <1>4, <1>5, <1>7, <1>8, <1>9, <1>10, StepTyped
<1> QED
  BY <1>1, <1>4, <1>11, ScanEnds

(* WRITE keeps the invariant. *)
LEMMA WriteKeeps ==
  ASSUME IInv, NEW r \in Records, Write(r)
  PROVE  IInv'
<1>0. f \in Cob_file /\ TypeOK /\ Fixed
  BY FileTyped DEF IInv
<1>1. CASE Refused("WRITE", WriteCheck(f, TRUE), Touch(f))
  <2>1. WriteCheck(f, TRUE) = OUTPUT_DENIED
    BY <1>0, <1>1, Checks DEF Refused
  <2>2. OUTPUT_DENIED \in 0..99 /\ "WRITE" \in Names
    BY DEF OUTPUT_DENIED, Names
  <2> QED
    BY <1>0, <1>1, <2>1, <2>2, TouchEffect, RefusedKeeps
<1>2. CASE /\ IF key = 0
                THEN /\ f' = Touch(f)
                     /\ Answer("WRITE", KEY_INVALID)
                     /\ UNCHANGED <<slots, pos, recno, scan, seen>>
                ELSE WriteAt(key, r)
           /\ UNCHANGED key
  <2>1. key \in 0..KeyMax /\ key' = key
    BY <1>0, <1>2, Bounds
  <2>2. CASE key = 0
    <3>1. KEY_INVALID \in 0..99 /\ "WRITE" \in Names
      BY DEF KEY_INVALID, Names
    <3>2. last' \in [op : Names, status : 0..99] /\ keyed' = keyed /\ state' = "running"
      BY <1>2, <2>2, <3>1, ReportTyped
    <3> QED
      BY <1>0, <1>2, <2>1, <2>2, <3>2, TouchEffect, QuietKeeps
  <2>3. CASE key # 0
    <3>1. key \in 1..(N + KeyMax + 1)
      BY <1>0, <2>1, <2>3, Bounds
    <3> QED
      BY <1>2, <2>1, <2>3, <3>1, WriteAtKeeps
  <2> QED
    BY <2>2, <2>3
<1>3. CASE /\ WriteAt(pos.slot, r)
           /\ key' = IF keyed /\ pos.slot \notin Occupied THEN Stored(pos.slot) ELSE key
  <2>1. pos.slot \in 1..(N + KeyMax + 1) /\ pos.slot \in Nat /\ key \in 0..KeyMax
    BY <1>0, Bounds
  <2>2. key' \in 0..KeyMax
    BY <1>3, <2>1, StoredTyped
  <2> QED
    BY <1>3, <2>1, <2>2, WriteAtKeeps
<1> QED
  BY <1>1, <1>2, <1>3 DEF Write

(* A REWRITE keeps the set of slots that hold a record. *)
LEMMA RewrittenSlots ==
  ASSUME TypeOK, NEW i, NEW r \in Records, PutRecord(i, r)
  PROVE  /\ slots' \in UNION {[1..m -> Records \cup {NoRecord}] : m \in 0..N}
         /\ Occupied' = Occupied
         /\ i \in Occupied => slots' = [slots EXCEPT ![i] = r]
         /\ i \notin Occupied => slots' = slots
<1>1. r \in SlotValues /\ r # NoRecord
  BY RelativeAssumption DEF SlotValues
<1>2. CASE i \in Occupied
  <2> DEFINE t == [slots EXCEPT ![i] = r]
  <2>1. slots' = t
    BY <1>2 DEF PutRecord
  <2>2. /\ t \in UNION {[1..m -> Records \cup {NoRecord}] : m \in 0..N}
        /\ \A k \in DOMAIN slots : t[k] = IF k = i THEN r ELSE slots[k]
        /\ DOMAIN t = DOMAIN slots
    BY <1>1, ReplaceTyped
  <2> HIDE DEF t
  <2>3. Occupied' = {k \in DOMAIN t : t[k] # NoRecord}
    BY <2>1 DEF Occupied
  <2>4. \A k \in DOMAIN slots : t[k] # NoRecord <=> slots[k] # NoRecord
    BY <1>1, <1>2, <2>2 DEF Occupied
  <2>5. Occupied' = Occupied
    BY <2>2, <2>3, <2>4 DEF Occupied
  <2> QED
    BY <1>2, <2>1, <2>2, <2>5 DEF t
<1>3. CASE i \notin Occupied
  <2>1. slots' = slots
    BY <1>3 DEF PutRecord
  <2> QED
    BY <1>3, <2>1 DEF TypeOK, Occupied
<1> QED
  BY <1>2, <1>3

(* REWRITE and DELETE by key leave the position behind the slot of the key, *)
(* before it, or where it was.                                             *)
LEMMA KeyedPosition ==
  ASSUME TypeOK,
         \/ pos' = Before(key + 1)
         \/ pos' = IF key = 0 THEN pos ELSE Before(key)
  PROVE  pos' \in [slot : 1..(N + KeyMax + 1), mid : BOOLEAN]
<1>1. key + 1 \in 1..(N + KeyMax + 1) /\ (key # 0 => key \in 1..(N + KeyMax + 1))
  BY Bounds
<1>2. pos \in [slot : 1..(N + KeyMax + 1), mid : BOOLEAN]
  BY DEF TypeOK
<1>3. pos' \in {Before(key + 1), pos} \/ (key # 0 /\ pos' = Before(key))
  OBVIOUS
<1> QED
  BY <1>1, <1>2, <1>3, Bounds, Zenon

(* cob_rewrite and cob_delete refuse by themselves *)
LEMMA UpdateRefused ==
  ASSUME IInv, NEW op \in Names, Refused(op, UpdateCheck(f, TRUE), Touch(f))
  PROVE  IInv'
<1>0. f \in Cob_file /\ TypeOK /\ Fixed
  BY FileTyped DEF IInv
<1>1. UpdateCheck(f, TRUE) # CallDriver
  BY DEF Refused
<1>2. UpdateCheck(f, TRUE) \in {I_O_DENIED, READ_NOT_DONE}
  BY <1>0, <1>1, Checks
<1>3. I_O_DENIED \in 0..99 /\ READ_NOT_DONE \in 0..99
  BY DEF I_O_DENIED, READ_NOT_DONE
<1>4. UpdateCheck(f, TRUE) \in 0..99
  BY <1>2, <1>3, Zenon
<1> QED
  BY <1>0, <1>4, TouchEffect, RefusedKeeps

(* REWRITE keeps the invariant. *)
LEMMA RewriteKeeps ==
  ASSUME IInv, NEW r \in Records, Rewrite(r)
  PROVE  IInv'
<1> USE DEF IInv
<1>0. f \in Cob_file /\ "REWRITE" \in Names
  BY FileTyped DEF Names
<1>1. CASE Refused("REWRITE", UpdateCheck(f, TRUE), Touch(f))
  BY <1>0, <1>1, UpdateRefused
<1>2. CASE /\ f' = Touch(f)
           /\ PutRecord(pos.slot - 1, r)
           /\ Answer("REWRITE", SUCCESS)
           /\ UNCHANGED <<pos, key, recno, scan, seen>>
  <2>1. /\ Same(f, f') /\ f'.flag_read_done = FALSE /\ f'.open_mode = f.open_mode
        /\ f'.flag_first_read = f.flag_first_read
    BY <1>0, <1>2, TouchEffect
  <2>2. f'.open_mode # "LOCKED"
    BY <2>1 DEF Fixed
  <2>3. slots' \in UNION {[1..m -> Records \cup {NoRecord}] : m \in 0..N} /\ Occupied' = Occupied
    BY <1>2, RewrittenSlots
  <2>4. /\ pos' \in [slot : 1..(N + KeyMax + 1), mid : BOOLEAN]
        /\ key' \in 0..KeyMax /\ recno' \in 0..N /\ scan' \in BOOLEAN /\ seen' \subseteq 1..N
    BY <1>2 DEF TypeOK
  <2>5. SUCCESS \in 0..99
    BY DEF SUCCESS
  <2>6. TypeOK' /\ Fixed'
    BY <1>0, <1>2, <2>1, <2>2, <2>3, <2>4, <2>5, StepTyped
  <2>7. RewriteTarget'
    BY <2>1, <2>6, RewriteNeedsRead DEF RewriteTarget, TypeOK
  <2>8. ScanIsExact'
    BY <1>2, <2>3 DEF ScanIsExact
  <2>9. FirstAtStart'
    <3>1. keyed' = keyed
      BY <1>2 DEF Answer
    <3> QED
      BY <1>2, <2>1, <3>1 DEF FirstAtStart
  <2> QED
    BY <2>6, <2>7, <2>8, <2>9
<1>3. CASE /\ f' = Touch(f)
           /\ scan' = FALSE
           /\ IF key \in DOMAIN slots
                THEN /\ PutRecord(key, r)
                     /\ pos' = Before(key + 1)
                     /\ Answer("REWRITE", SUCCESS)
                ELSE /\ pos' = IF key = 0 THEN pos ELSE Before(key)
                     /\ Answer("REWRITE", KEY_NOT_EXISTS)
                     /\ UNCHANGED slots
           /\ UNCHANGED <<key, recno, seen>>
  <2>1. Same(f, f') /\ f'.flag_read_done = FALSE /\ f'.open_mode = f.open_mode
    BY <1>0, <1>3, TouchEffect
  <2>2. f'.open_mode # "LOCKED"
    BY <2>1 DEF Fixed
  <2>3. slots' \in UNION {[1..m -> Records \cup {NoRecord}] : m \in 0..N}
    <3>1. CASE key \in DOMAIN slots
      BY <1>3, <3>1, RewrittenSlots
    <3>2. CASE key \notin DOMAIN slots
      BY <1>3, <3>2 DEF TypeOK
    <3> QED
      BY <3>1, <3>2
  <2>4. pos' \in [slot : 1..(N + KeyMax + 1), mid : BOOLEAN]
    BY <1>3, KeyedPosition
  <2>5. key' \in 0..KeyMax /\ recno' \in 0..N /\ scan' \in BOOLEAN /\ seen' \subseteq 1..N
    BY <1>3 DEF TypeOK
  <2>6. SUCCESS \in 0..99 /\ KEY_NOT_EXISTS \in 0..99
    BY DEF SUCCESS, KEY_NOT_EXISTS
  <2>7. PICK status \in {SUCCESS, KEY_NOT_EXISTS} : Answer("REWRITE", status)
    BY <1>3
  <2>8. TypeOK' /\ Fixed'
    BY <1>0, <2>1, <2>2, <2>3, <2>4, <2>5, <2>6, <2>7, StepTyped
  <2> QED
    BY <1>3, <2>1, <2>8, ScanEnds
<1> QED
  BY <1>1, <1>2, <1>3 DEF Rewrite

(* DELETE keeps the invariant. *)
LEMMA DeleteKeeps ==
  ASSUME IInv, Delete
  PROVE  IInv'
<1> USE DEF IInv
<1>0. f \in Cob_file /\ "DELETE" \in Names
  BY FileTyped DEF Names
<1>1. CASE Refused("DELETE", UpdateCheck(f, TRUE), Touch(f))
  BY <1>0, <1>1, UpdateRefused
<1>2. CASE /\ f' = Touch(f)
           /\ scan' = FALSE
           /\ IF key \in DOMAIN slots
                THEN /\ slots' = [slots EXCEPT ![key] = NoRecord]
                     /\ pos' = Before(key + 1)
                     /\ Answer("DELETE", SUCCESS)
                ELSE /\ pos' = IF key = 0 THEN pos ELSE Before(key)
                     /\ Answer("DELETE", KEY_NOT_EXISTS)
                     /\ UNCHANGED slots
           /\ UNCHANGED <<key, recno, seen>>
  <2>1. Same(f, f') /\ f'.flag_read_done = FALSE /\ f'.open_mode = f.open_mode
    BY <1>0, <1>2, TouchEffect
  <2>2. f'.open_mode # "LOCKED"
    BY <2>1 DEF Fixed
  <2>3. slots' \in UNION {[1..m -> Records \cup {NoRecord}] : m \in 0..N}
    <3>1. CASE key \in DOMAIN slots
      <4>1. NoRecord \in SlotValues
        BY DEF SlotValues
      <4> QED
        BY <1>2, <3>1, <4>1, ReplaceTyped
    <3>2. CASE key \notin DOMAIN slots
      BY <1>2, <3>2 DEF TypeOK
    <3> QED
      BY <3>1, <3>2
  <2>4. pos' \in [slot : 1..(N + KeyMax + 1), mid : BOOLEAN]
    BY <1>2, KeyedPosition
  <2>5. key' \in 0..KeyMax /\ recno' \in 0..N /\ scan' \in BOOLEAN /\ seen' \subseteq 1..N
    BY <1>2 DEF TypeOK
  <2>6. SUCCESS \in 0..99 /\ KEY_NOT_EXISTS \in 0..99
    BY DEF SUCCESS, KEY_NOT_EXISTS
  <2>7. PICK status \in {SUCCESS, KEY_NOT_EXISTS} : Answer("DELETE", status)
    BY <1>2
  <2>8. TypeOK' /\ Fixed'
    BY <1>0, <2>1, <2>2, <2>3, <2>4, <2>5, <2>6, <2>7, StepTyped
  <2> QED
    BY <1>2, <2>1, <2>8, ScanEnds
<1> QED
  BY <1>1, <1>2 DEF Delete

-----------------------------------------------------------------------------
(* Theorems.                                                               *)

(* The first states satisfy the invariant. *)
LEMMA InitInvariant == Init => IInv
<1> SUFFICES ASSUME Init PROVE IInv
  OBVIOUS
<1>1. PICK a \in AccessModes :
        f = NewFile([organization |-> "RELATIVE", access_mode |-> a,
                     flag_optional |-> FALSE, special |-> 0, linage |-> FALSE])
  BY DEF Init
<1>2. f = [ organization |-> "RELATIVE", access_mode |-> a,
            flag_optional |-> FALSE, special |-> 0, linage |-> FALSE,
            open_mode |-> "CLOSED", file |-> "null",
            flag_nonexistent |-> FALSE, flag_end_of_file |-> FALSE,
            flag_begin_of_file |-> FALSE, flag_first_read |-> 0,
            flag_read_done |-> FALSE ]
  BY <1>1 DEF NewFile
<1>3. f \in Cob_file
  BY <1>2 DEF Cob_file, Organizations, AccessModes, OpenModes
<1>4. slots \in UNION {[1..m -> Records \cup {NoRecord}] : m \in 0..N}
  <2>1. slots \in [1..0 -> SlotValues] /\ 0 \in 0..N
    BY RelativeAssumption DEF Init
  <2> QED
    BY <2>1, SlotsTyped
<1>5. pos \in [slot : 1..(N + KeyMax + 1), mid : BOOLEAN] /\ key \in 0..KeyMax /\ recno \in 0..N
  <2>1. 1 \in 1..(N + KeyMax + 1) /\ 0 \in 0..KeyMax /\ 0 \in 0..N
    BY RelativeAssumption
  <2> QED
    BY <2>1 DEF Init, Before
<1>6. last \in [op : Names, status : 0..99]
  <2>1. SUCCESS \in 0..99
    BY DEF SUCCESS
  <2> QED
    BY <2>1 DEF Init, Names
<1>7. TypeOK
  BY <1>3, <1>4, <1>5, <1>6 DEF TypeOK, Init, Names
<1>8. Fixed
  BY <1>2 DEF Fixed, Init
<1>9. RewriteTarget
  BY <1>2, <1>3, RewriteNeedsRead DEF RewriteTarget
<1>10. ScanIsExact /\ FirstAtStart
  BY DEF Init, ScanIsExact, FirstAtStart
<1> QED
  BY <1>7, <1>8, <1>9, <1>10 DEF IInv

(* Every step keeps the invariant. *)
LEMMA NextInvariant == IInv /\ [Next]_vars => IInv'
<1> SUFFICES ASSUME IInv, [Next]_vars PROVE IInv'
  OBVIOUS
<1>0. key \in 0..KeyMax /\ state \in {"running", "adrift", "hung", "crashed"}
  BY DEF IInv, TypeOK
<1>1. CASE MoveToKey
  BY <1>1, UnmovedKeeps, <1>0 DEF MoveToKey
<1>2. CASE NullKey
  BY <1>2, UnmovedKeeps, <1>0 DEF NullKey, file
<1>3. CASE UNCHANGED vars
  BY <1>3, UnmovedKeeps, <1>0 DEF vars
<1>4. ASSUME NEW mode \in OpenOptions, Open(mode) PROVE IInv'
  BY <1>4, OpenKeeps
<1>5. ASSUME NEW cond \in Conditions, Start(cond) PROVE IInv'
  BY <1>5, StartKeeps
<1>6. ASSUME NEW r \in Records, Write(r) PROVE IInv'
  BY <1>6, WriteKeeps
<1>7. ASSUME NEW r \in Records, Rewrite(r) PROVE IInv'
  BY <1>7, RewriteKeeps
<1>8. CASE Close \/ ReadKey \/ ReadNext \/ Delete
  BY <1>8, CloseKeeps, ReadKeyKeeps, ReadNextKeeps, DeleteKeeps
<1> QED
  BY <1>1, <1>2, <1>3, <1>4, <1>5, <1>6, <1>7, <1>8 DEF Next

(* The invariant, through every order of statements. *)
THEOREM Invariant == Spec => []IInv
<1> QED
  BY InitInvariant, NextInvariant, PTL DEF Spec

(* relative_rewrite always steps back over the record that the last        *)
(* relative_read or relative_read_next delivered, and READ NEXT skips no   *)
(* record and delivers none twice, whatever the number of slots, the size  *)
(* of the key field and the statements in between.                         *)
THEOREM PositionIsSound == Spec => []PositionSound
<1>1. IInv => PositionSound
  BY DEF IInv, PositionSound
<1> QED
  BY <1>1, Invariant, PTL

-----------------------------------------------------------------------------
(* START and READ NEXT report what the file holds.                         *)

(* What relative_start looks for is what its condition asks for.           *)
LEMMA HitsWanted ==
  ASSUME TypeOK, NEW cond \in Conditions \ {"NE"}, Probe(cond, key) \in 1..Len(slots)
  PROVE  StartHit(cond, Probe(cond, key)) = Wanted(cond)
<1> DEFINE p == Probe(cond, key)
<1>0. key \in Nat /\ \A i \in Occupied : i \in Nat
  BY SlotsShape, Bounds
<1>1. CASE cond = "EQ"
  BY <1>0, <1>1 DEF StartHit, Wanted, Probe
<1>2. CASE cond = "LT"
  <2>1. StartHit(cond, p) = {i \in Occupied : i <= key - 1}
    BY <1>2 DEF StartHit, Probe
  <2>2. Wanted(cond) = {i \in Occupied : i < key}
    BY <1>2 DEF Wanted
  <2>3. \A i \in Occupied : i <= key - 1 <=> i < key
    BY <1>0
  <2> QED
    BY <2>1, <2>2, <2>3
<1>3. CASE cond = "LE"
  BY <1>3 DEF StartHit, Wanted, Probe
<1>4. CASE cond = "GT"
  <2>1. StartHit(cond, p) = {i \in Occupied : i >= key + 1}
    BY <1>4 DEF StartHit, Probe
  <2>2. Wanted(cond) = {i \in Occupied : i > key}
    BY <1>4 DEF Wanted
  <2>3. \A i \in Occupied : i >= key + 1 <=> i > key
    BY <1>0
  <2> QED
    BY <2>1, <2>2, <2>3
<1>5. CASE cond = "GE"
  BY <1>5 DEF StartHit, Wanted, Probe
<1> QED
  BY <1>1, <1>2, <1>3, <1>4, <1>5 DEF Conditions

(* A START stops where its condition says. *)
LEMMA StartStep ==
  ASSUME IInv, NEW cond \in Conditions \ {"NE"}, Start(cond),
         last'.status = SUCCESS, last'.op = "START"
  PROVE  /\ pos'.slot \in Wanted(cond)
         /\ key' = Stored(pos'.slot)
         /\ \A i \in Wanted(cond) :
              IF cond \in {"LT", "LE"} THEN i <= pos'.slot ELSE i >= pos'.slot
<1> DEFINE p == Probe(cond, key)
           h == Nearest(cond, StartHit(cond, p))
<1>0. TypeOK /\ Fixed /\ cond \in Conditions
  BY DEF IInv
<1>1. StartFound(cond)
  <2>1. ~Refused("START", StartCheck(f), BeginStart(f))
    <3> SUFFICES ASSUME Refused("START", StartCheck(f), BeginStart(f)) PROVE FALSE
      OBVIOUS
    <3>1. StartCheck(f) = INPUT_DENIED /\ last'.status = StartCheck(f)
      BY <1>0, Checks DEF Refused, Answer
    <3> QED
      BY <3>1 DEF INPUT_DENIED, SUCCESS
  <2>2. ~StartNotFound(cond)
    BY DEF StartNotFound, Answer, KEY_NOT_EXISTS, SUCCESS
  <2> QED
    BY <2>1, <2>2 DEF Start
<1>2. p \in 1..Len(slots) /\ StartHit(cond, p) # {} /\ key' = Stored(h) /\ pos'.slot = h
  BY <1>1 DEF StartFound, Before
<1>3. /\ h \in StartHit(cond, p)
      /\ \A i \in StartHit(cond, p) : IF cond \in {"LT", "LE"} THEN i <= h ELSE i >= h
  BY <1>0, <1>2, NearestResult
<1>4. StartHit(cond, p) = Wanted(cond)
  BY <1>0, <1>2, HitsWanted
<1> QED
  BY <1>2, <1>3, <1>4

(* A START that does not find has looked at all it wants. *)
LEMMA NotFoundStep ==
  ASSUME TypeOK, NEW cond \in Conditions \ {"NE"}, StartNotFound(cond),
         Probe(cond, key) \in DOMAIN slots
  PROVE  Wanted(cond) = {}
<1>1. Probe(cond, key) \in 1..Len(slots)
  BY SlotsShape
<1>2. StartHit(cond, Probe(cond, key)) = {}
  BY <1>1 DEF StartNotFound
<1> QED
  BY <1>1, <1>2, HitsWanted

(* A READ leaves the key field with the number of its record. *)
LEMMA KeyStep ==
  ASSUME IInv, keyed, NextFound, f.flag_first_read = 0 \/ (f.flag_first_read = 2 /\ scan)
  PROVE  key' = recno'
<1> DEFINE h == Min(Hits)
<1>1. Hits # {} /\ key' = KeyAt(h) /\ recno' = h
  BY DEF NextFound
<1>2. CASE ~(First /\ h = pos.slot)
  BY <1>1, <1>2 DEF KeyAt
<1>3. CASE First /\ h = pos.slot
  <2>1. f.flag_first_read = 2 /\ scan
    BY <1>3 DEF First
  <2>2. pos = Before(1)
    BY <2>1 DEF IInv, FirstAtStart
  <2>3. h = 1
    BY <1>3, <2>2 DEF Before
  <2> QED
    BY <1>1, <1>3, <2>3 DEF KeyAt
<1> QED
  BY <1>2, <1>3

(* A START that is answered SUCCESS has stopped at the nearest record that *)
(* its condition asks for and has moved its number to the key field; it    *)
(* gives up inside the file only when there is none; and a READ NEXT moves *)
(* the number of the record it delivers, but for the first after a START   *)
(* or after an OPEN that another statement followed.                       *)
THEOREM ReportsAreExact == Spec => ReportsExact
<1>1. IInv /\ [Next]_vars =>
        [\A cond \in Conditions \ {"NE"} :
           /\ Start(cond) /\ last'.status = SUCCESS /\ last'.op = "START"
                => /\ pos'.slot \in Wanted(cond)
                   /\ key' = Stored(pos'.slot)
                   /\ \A i \in Wanted(cond) :
                        IF cond \in {"LT", "LE"} THEN i <= pos'.slot ELSE i >= pos'.slot
           /\ StartNotFound(cond) /\ Probe(cond, key) \in DOMAIN slots
                => Wanted(cond) = {}]_vars
  BY StartStep, NotFoundStep DEF IInv
<1>2. IInv /\ [Next]_vars =>
        [keyed /\ NextFound /\ (f.flag_first_read = 0 \/ (f.flag_first_read = 2 /\ scan))
           => key' = recno']_vars
  BY KeyStep
<1>3. Spec => StartIsExact
  BY <1>1, Invariant, PTL DEF Spec, StartIsExact
<1>4. Spec => KeyNamesRecord
  BY <1>2, Invariant, PTL DEF Spec, KeyNamesRecord
<1> QED
  BY <1>3, <1>4 DEF ReportsExact

-----------------------------------------------------------------------------
(* The slots implement the record store.                                   *)

Contents == [i \in 1..N |-> IF i \in Occupied THEN slots[i] ELSE NoRecord]

(* a statement that leaves the records alone *)
LEMMA LookStep ==
  ASSUME NEW op, NEW status, Answer(op, status), op # "WRITE" \/ status # SUCCESS,
         slots' = slots
  PROVE  Store!Next
<1>1. last' = [op |-> op, status |-> status]
  BY DEF Answer
<1>2. Occupied' = Occupied /\ Contents' = Contents
  BY DEF Occupied, Contents
<1>3. Store!Look
  BY <1>1, <1>2 DEF Store!Look, Contents
<1> QED
  BY <1>3 DEF Store!Next

(* One record changed from v to w, reported done, is a step of the store.   *)
LEMMA ChangeStep ==
  ASSUME IInv, NEW k \in 1..N, NEW op, Answer(op, SUCCESS), NEW w,
         Contents' = [Contents EXCEPT ![k] = w],
         \/ op = "WRITE" /\ k \notin Occupied /\ w \in Records
         \/ op = "REWRITE" /\ k \in Occupied /\ w \in Records
         \/ op = "DELETE" /\ k \in Occupied /\ w = NoRecord
  PROVE  Store!Next
<1>1. last' = [op |-> op, status |-> SUCCESS]
  BY DEF Answer
<1>2. Contents[k] = IF k \in Occupied THEN slots[k] ELSE NoRecord
  BY DEF Contents
<1>3. k \in Occupied => Contents[k] # NoRecord
  BY <1>2 DEF Occupied
<1>4. k \notin Occupied => Contents[k] = NoRecord
  BY <1>2
<1>5. Store!Done(op)
  BY <1>1 DEF Store!Done
<1>6. CASE op = "WRITE" /\ k \notin Occupied /\ w \in Records
  <2>1. Store!Put(k, w)
    BY <1>4, <1>5, <1>6 DEF Store!Put, Contents
  <2> QED
    BY <1>6, <2>1 DEF Store!Next
<1>7. CASE op = "REWRITE" /\ k \in Occupied /\ w \in Records
  <2>1. Store!Replace(k, w)
    BY <1>3, <1>5, <1>7 DEF Store!Replace, Contents
  <2> QED
    BY <1>7, <2>1 DEF Store!Next
<1>8. CASE op = "DELETE" /\ k \in Occupied /\ w = NoRecord
  <2>1. Store!Remove(k)
    BY <1>3, <1>5, <1>8 DEF Store!Remove, Contents
  <2> QED
    BY <2>1 DEF Store!Next
<1> QED
  BY <1>6, <1>7, <1>8

(* What becomes of the records when the slots change. *)
LEMMA ContentsPut ==
  ASSUME TypeOK, NEW i \in 1..N, i \notin Occupied, NEW r \in Records,
         slots' = [Padded(slots, i) EXCEPT ![i] = r]
  PROVE  Contents' = [Contents EXCEPT ![i] = r]
<1> DEFINE t == [Padded(slots, i) EXCEPT ![i] = r]
<1>1. /\ i \in DOMAIN t /\ t[i] = r
      /\ \A k \in DOMAIN slots \ {i} : k \in DOMAIN t /\ t[k] = slots[k]
      /\ \A k \in DOMAIN t \ {i} : k \notin DOMAIN slots => t[k] = NoRecord
  BY PutResult
<1>2. r # NoRecord /\ slots' = t
  BY RelativeAssumption
<1> HIDE DEF t
<1>3. Occupied' = {k \in DOMAIN t : t[k] # NoRecord}
  BY <1>2 DEF Occupied
<1>4. ASSUME NEW k \in 1..N, k # i PROVE Contents'[k] = Contents[k]
  <2>1. Contents'[k] = IF k \in Occupied' THEN t[k] ELSE NoRecord
    BY <1>2 DEF Contents
  <2>2. Contents[k] = IF k \in Occupied THEN slots[k] ELSE NoRecord
    BY DEF Contents
  <2>3. CASE k \in DOMAIN slots
    <3>1. k \in DOMAIN t /\ t[k] = slots[k]
      BY <1>1, <1>4, <2>3
    <3> QED
      BY <1>3, <2>1, <2>2, <2>3, <3>1 DEF Occupied
  <2>4. CASE k \notin DOMAIN slots
    <3>1. k \notin Occupied
      BY <2>4 DEF Occupied
    <3>2. k \in DOMAIN t => t[k] = NoRecord
      BY <1>1, <1>4, <2>4
    <3> QED
      BY <1>3, <2>1, <2>2, <3>1, <3>2
  <2> QED
    BY <2>3, <2>4
<1>5. Contents'[i] = r
  <2>1. i \in Occupied'
    BY <1>1, <1>2, <1>3
  <2> QED
    BY <1>1, <1>2, <2>1 DEF Contents
<1>6. DOMAIN Contents = 1..N /\ DOMAIN Contents' = 1..N
  BY DEF Contents
<1>7. Contents' = [k \in 1..N |-> Contents'[k]] /\ Contents = [k \in 1..N |-> Contents[k]]
  BY DEF Contents
<1> QED
  BY <1>4, <1>5, <1>6, <1>7

(* What the slots hold after one of them has changed. *)
LEMMA ContentsChanged ==
  ASSUME TypeOK, NEW i \in Occupied, NEW w \in SlotValues, slots' = [slots EXCEPT ![i] = w]
  PROVE  Contents' = [Contents EXCEPT ![i] = w]
<1> DEFINE t == [slots EXCEPT ![i] = w]
<1>1. /\ \A k \in DOMAIN slots : t[k] = IF k = i THEN w ELSE slots[k]
      /\ DOMAIN t = DOMAIN slots
  BY ReplaceTyped
<1>2. slots' = t
  OBVIOUS
<1> HIDE DEF t
<1>3. i \in DOMAIN slots /\ i \in 1..N
  BY SlotsShape DEF Occupied
<1>4. Occupied' = {k \in DOMAIN slots : t[k] # NoRecord}
  BY <1>1, <1>2 DEF Occupied
<1>5. ASSUME NEW k \in 1..N PROVE Contents'[k] = IF k = i THEN w ELSE Contents[k]
  <2>1. Contents'[k] = IF k \in Occupied' THEN t[k] ELSE NoRecord
    BY <1>2 DEF Contents
  <2>2. Contents[k] = IF k \in Occupied THEN slots[k] ELSE NoRecord
    BY DEF Contents
  <2>3. CASE k = i
    BY <1>1, <1>3, <1>4, <2>1, <2>3
  <2>4. CASE k # i
    BY <1>1, <1>4, <2>1, <2>2, <2>4 DEF Occupied
  <2> QED
    BY <2>3, <2>4
<1>6. Contents' = [k \in 1..N |-> Contents'[k]] /\ Contents = [k \in 1..N |-> Contents[k]]
  BY DEF Contents
<1>7. DOMAIN Contents = 1..N
  BY DEF Contents
<1> QED
  BY <1>3, <1>5, <1>6, <1>7

(* OPEN implements the store. *)
LEMMA OpenImplements ==
  ASSUME IInv, NEW mode \in OpenOptions, Open(mode)
  PROVE  Store!Next
<1>1. CASE Refused("OPEN", OpenCheck(f, mode, FALSE),
                   IF f.open_mode = "CLOSED" THEN BeginOpen(f) ELSE Touch(f))
  BY <1>1, LookStep DEF Refused
<1>2. CASE /\ slots' = IF mode = "OUTPUT" THEN <<>> ELSE slots
           /\ Answer("OPEN", SUCCESS)
  <2>1. CASE mode # "OUTPUT"
    BY <1>2, <2>1, LookStep
  <2>2. CASE mode = "OUTPUT"
    <3>1. Occupied' = {}
      BY <1>2, <2>2 DEF Occupied
    <3>2. Contents' = [i \in 1..N |-> NoRecord]
      BY <3>1 DEF Contents
    <3>3. Store!Clear
      BY <1>2, <3>2 DEF Store!Clear, Store!Done, Answer, Contents
    <3> QED
      BY <3>3 DEF Store!Next
  <2> QED
    BY <2>1, <2>2
<1> QED
  BY <1>1, <1>2 DEF Open

(* WRITE implements the store. *)
LEMMA WriteImplements ==
  ASSUME IInv, NEW r \in Records, Write(r)
  PROVE  Store!Next
<1>0. TypeOK /\ Fixed
  BY DEF IInv
<1>1. ASSUME NEW i \in 1..(N + KeyMax + 1), WriteAt(i, r) PROVE Store!Next
  <2>1. CASE i \in Occupied
    <3>1. Answer("WRITE", KEY_EXISTS) /\ slots' = slots /\ KEY_EXISTS # SUCCESS
      BY <1>1, <2>1 DEF WriteAt, KEY_EXISTS, SUCCESS
    <3> QED
      BY <3>1, LookStep
  <2>2. CASE i \notin Occupied
    <3>1. i \in 1..N /\ Answer("WRITE", SUCCESS) /\ slots' = [Padded(slots, i) EXCEPT ![i] = r]
      BY <1>1, <2>2, RelativeAssumption DEF WriteAt
    <3>2. Contents' = [Contents EXCEPT ![i] = r]
      BY <1>0, <2>2, <3>1, ContentsPut
    <3> QED
      BY <2>2, <3>1, <3>2, ChangeStep
  <2> QED
    BY <2>1, <2>2
<1>2. CASE Refused("WRITE", WriteCheck(f, TRUE), Touch(f))
  <2>1. WriteCheck(f, TRUE) = OUTPUT_DENIED
    BY <1>0, <1>2, Checks DEF Refused
  <2>2. OUTPUT_DENIED # SUCCESS
    BY DEF OUTPUT_DENIED, SUCCESS
  <2> QED
    BY <1>2, <2>1, <2>2, LookStep DEF Refused
<1>3. CASE IF key = 0
             THEN /\ Answer("WRITE", KEY_INVALID)
                  /\ UNCHANGED <<slots, pos, recno, scan, seen>>
             ELSE WriteAt(key, r)
  <2>1. CASE key = 0
    <3>1. KEY_INVALID # SUCCESS
      BY DEF KEY_INVALID, SUCCESS
    <3> QED
      BY <1>3, <2>1, <3>1, LookStep
  <2>2. CASE key # 0
    <3>1. key \in 1..(N + KeyMax + 1)
      BY <1>0, <2>2, Bounds
    <3> QED
      BY <1>1, <1>3, <2>2, <3>1
  <2> QED
    BY <2>1, <2>2
<1>4. CASE WriteAt(pos.slot, r)
  <2>1. pos.slot \in 1..(N + KeyMax + 1)
    BY <1>0, Bounds
  <2> QED
    BY <1>1, <1>4, <2>1
<1> QED
  BY <1>2, <1>3, <1>4 DEF Write

(* A record put in a slot implements the store. *)
LEMMA PutImplements ==
  ASSUME IInv, NEW i, NEW r \in Records, PutRecord(i, r), Answer("REWRITE", SUCCESS)
  PROVE  Store!Next
<1>0. TypeOK /\ Fixed
  BY DEF IInv
<1>1. CASE i \in Occupied
  <2>1. slots' = [slots EXCEPT ![i] = r] /\ r \in SlotValues /\ i \in 1..N
    BY <1>0, <1>1, SlotsShape DEF PutRecord, SlotValues
  <2>2. Contents' = [Contents EXCEPT ![i] = r]
    BY <1>0, <1>1, <2>1, ContentsChanged
  <2> QED
    BY <1>1, <2>1, <2>2, ChangeStep
<1>2. CASE i \notin Occupied
  BY <1>2, LookStep DEF PutRecord
<1> QED
  BY <1>1, <1>2

(* REWRITE implements the store. *)
LEMMA RewriteImplements ==
  ASSUME IInv, NEW r \in Records, Rewrite(r)
  PROVE  Store!Next
<1>1. CASE Refused("REWRITE", UpdateCheck(f, TRUE), Touch(f))
  BY <1>1, LookStep DEF Refused
<1>2. CASE PutRecord(pos.slot - 1, r) /\ Answer("REWRITE", SUCCESS)
  BY <1>2, PutImplements
<1>3. CASE IF key \in DOMAIN slots
             THEN PutRecord(key, r) /\ Answer("REWRITE", SUCCESS)
             ELSE Answer("REWRITE", KEY_NOT_EXISTS) /\ UNCHANGED slots
  BY <1>3, PutImplements, LookStep
<1> QED
  BY <1>1, <1>2, <1>3 DEF Rewrite

(* DELETE implements the store. *)
LEMMA DeleteImplements ==
  ASSUME IInv, Delete
  PROVE  Store!Next
<1>0. TypeOK /\ Fixed
  BY DEF IInv
<1>1. CASE Refused("DELETE", UpdateCheck(f, TRUE), Touch(f))
  BY <1>1, LookStep DEF Refused
<1>2. CASE key \in DOMAIN slots /\ slots' = [slots EXCEPT ![key] = NoRecord]
           /\ Answer("DELETE", SUCCESS)
  <2>1. CASE key \in Occupied
    <3>1. NoRecord \in SlotValues /\ key \in 1..N
      BY <1>0, <2>1, SlotsShape DEF SlotValues
    <3>2. Contents' = [Contents EXCEPT ![key] = NoRecord]
      BY <1>0, <1>2, <2>1, <3>1, ContentsChanged
    <3> QED
      BY <1>2, <2>1, <3>1, <3>2, ChangeStep
  <2>2. CASE key \notin Occupied
    <3>1. slots[key] = NoRecord
      BY <1>2, <2>2 DEF Occupied
    <3>2. slots' = slots
      BY <1>0, <1>2, <3>1, SlotsShape
    <3> QED
      BY <1>2, <3>2, LookStep
  <2> QED
    BY <2>1, <2>2
<1>3. CASE Answer("DELETE", KEY_NOT_EXISTS) /\ slots' = slots
  BY <1>3, LookStep
<1> QED
  BY <1>1, <1>2, <1>3 DEF Delete

(* A statement that changes no slot implements the store. *)
LEMMA OtherImplements ==
  ASSUME IInv, Close \/ ReadKey \/ ReadNext \/ \E cond \in Conditions : Start(cond)
  PROVE  [Store!Next]_Store!vars
<1>1. CASE Drift \/ StartHangs
  <2>1. slots' = slots /\ last' = last
    BY <1>1 DEF Drift, StartHangs, file
  <2> QED
    BY <2>1 DEF Store!vars, Occupied
<1>2. CASE ~(Drift \/ StartHangs)
  <2>0. PICK op \in {"CLOSE", "START", "READ KEY", "READ NEXT"} :
          \E status : Answer(op, status) /\ slots' = slots
    <3>1. CASE Close
      BY <3>1 DEF Close, Refused
    <3>2. CASE ReadKey
      BY <3>2 DEF ReadKey, Refused
    <3>3. CASE ReadNext
      BY <1>2, <3>3 DEF ReadNext, Refused, NextFound, NextOutOfRange, NextAtEnd
    <3>4. ASSUME NEW cond \in Conditions, Start(cond)
          PROVE  \E op \in {"CLOSE", "START", "READ KEY", "READ NEXT"} :
                   \E status : Answer(op, status) /\ slots' = slots
      BY <1>2, <3>4 DEF Start, Refused, StartFound, StartNotFound
    <3> QED
      BY <3>1, <3>2, <3>3, <3>4
  <2>1. PICK status : Answer(op, status) /\ slots' = slots
    BY <2>0
  <2>2. op # "WRITE"
    OBVIOUS
  <2> QED
    BY <2>1, <2>2, LookStep
<1> QED
  BY <1>1, <1>2

(* Every step is one of the record store, or none. *)
LEMMA StoreStep == IInv /\ [Next]_vars => [Store!Next]_Store!vars
<1> SUFFICES ASSUME IInv, [Next]_vars PROVE [Store!Next]_Store!vars
  OBVIOUS
<1>1. CASE MoveToKey \/ NullKey \/ UNCHANGED vars
  <2>1. slots' = slots /\ last' = last
    BY <1>1 DEF MoveToKey, NullKey, file, vars
  <2> QED
    BY <2>1 DEF Store!vars, Occupied
<1>2. CASE Close \/ ReadKey \/ ReadNext \/ \E cond \in Conditions : Start(cond)
  BY <1>2, OtherImplements
<1>3. CASE Delete
  BY <1>3, DeleteImplements
<1>4. ASSUME NEW mode \in OpenOptions, Open(mode) PROVE Store!Next
  BY <1>4, OpenImplements
<1>5. ASSUME NEW r \in Records, Write(r) \/ Rewrite(r) PROVE Store!Next
  BY <1>5, WriteImplements, RewriteImplements
<1> QED
  BY <1>1, <1>2, <1>3, <1>4, <1>5 DEF Next

(* The slots of a RELATIVE file implement the record store: a statement    *)
(* reported done has changed one record, the one it is about, a WRITE has  *)
(* replaced none, and every other statement has changed nothing.           *)
THEOREM SlotsImplementStore == Spec => ImplementsStore
<1>1. Init => Store!Init
  <2> SUFFICES ASSUME Init PROVE Store!Init
    OBVIOUS
  <2>1. slots = <<>> /\ last = [op |-> "none", status |-> SUCCESS]
    BY DEF Init
  <2>2. Occupied = {}
    BY <2>1 DEF Occupied
  <2> QED
    BY <2>1, <2>2 DEF Store!Init
<1>2. IInv /\ [Next]_vars => [Store!Next]_Store!vars
  BY StoreStep
<1> QED
  BY <1>1, <1>2, Invariant, PTL DEF Spec, ImplementsStore, Store!Spec
==============================================================================
