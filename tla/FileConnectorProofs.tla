------------------------- MODULE FileConnectorProofs -------------------------
(***************************************************************************)
(* The theorems of FileConnector, and of Linage, which uses the same       *)
(* connector.  Every property of FileConnector follows from one inductive  *)
(* invariant, IInv, whose parts say what the flags of the record remember  *)
(* of the calls made so far; those of Linage follow from PageInv.          *)
(***************************************************************************)
EXTENDS FileConnector, Linage, TLAPS

(* an open file that was there when it was opened has a live handle *)
OpenIsLive == f.open_mode \in OpenOptions /\ ~f.flag_nonexistent => f.file = "live"

(* the missing file is OPTIONAL, was opened to be read, and has never been read *)
MissingFlag ==
  f.flag_nonexistent =>
    /\ f.flag_optional /\ f.special = 0 /\ ~f.flag_read_done
    /\ f.open_mode \in {"CLOSED", "LOCKED", "INPUT", "I_O"}
    /\ f.file = "live" => f.linage

(* flag_read_done remembers the last call, and the mode it found *)
ReadDoneFlag == f.flag_read_done => LastReadOk /\ last.found = f.open_mode

(* AT END is remembered in the latch of its direction, or by the file missing *)
EndFlags ==
  last.status = END_OF_FILE =>
    /\ last.op = "READ NEXT" => f.flag_end_of_file \/ f.flag_nonexistent
    /\ last.op = "READ PREVIOUS" => f.flag_begin_of_file \/ f.flag_nonexistent

IInv == TypeOK /\ OpenIsLive /\ MissingFlag /\ ReadDoneFlag /\ EndFlags /\ NoHandleLost

-----------------------------------------------------------------------------
(* A record with one field replaced by a value of its type is a record. *)
LEMMA FieldTyped ==
  ASSUME NEW g \in Cob_file
  PROVE  /\ \A v \in OpenModes : [g EXCEPT !.open_mode = v] \in Cob_file
         /\ \A v \in {"null", "live", "dead"} : [g EXCEPT !.file = v] \in Cob_file
         /\ \A v \in BOOLEAN : [g EXCEPT !.flag_nonexistent = v] \in Cob_file
         /\ \A v \in BOOLEAN : [g EXCEPT !.flag_end_of_file = v] \in Cob_file
         /\ \A v \in BOOLEAN : [g EXCEPT !.flag_begin_of_file = v] \in Cob_file
         /\ \A v \in 0..2 : [g EXCEPT !.flag_first_read = v] \in Cob_file
         /\ \A v \in BOOLEAN : [g EXCEPT !.flag_read_done = v] \in Cob_file
<1>1. ASSUME NEW v \in OpenModes PROVE [g EXCEPT !.open_mode = v] \in Cob_file
  BY DEF Cob_file
<1>2. ASSUME NEW v \in {"null", "live", "dead"} PROVE [g EXCEPT !.file = v] \in Cob_file
  BY DEF Cob_file
<1>3. ASSUME NEW v \in BOOLEAN PROVE [g EXCEPT !.flag_nonexistent = v] \in Cob_file
  BY DEF Cob_file
<1>4. ASSUME NEW v \in BOOLEAN PROVE [g EXCEPT !.flag_end_of_file = v] \in Cob_file
  BY DEF Cob_file
<1>5. ASSUME NEW v \in BOOLEAN PROVE [g EXCEPT !.flag_begin_of_file = v] \in Cob_file
  BY DEF Cob_file
<1>6. ASSUME NEW v \in 0..2 PROVE [g EXCEPT !.flag_first_read = v] \in Cob_file
  BY DEF Cob_file
<1>7. ASSUME NEW v \in BOOLEAN PROVE [g EXCEPT !.flag_read_done = v] \in Cob_file
  BY DEF Cob_file
<1> QED
  BY <1>1, <1>2, <1>3, <1>4, <1>5, <1>6, <1>7

(* What the record transformers return is a record. *)
LEMMA TouchTyped == \A g \in Cob_file : Touch(g) \in Cob_file
BY FieldTyped DEF Touch

(* What OPEN does to the record before its driver keeps the type. *)
LEMMA BeginOpenTyped == \A g \in Cob_file : BeginOpen(g) \in Cob_file
<1> SUFFICES ASSUME NEW g \in Cob_file PROVE BeginOpen(g) \in Cob_file
  OBVIOUS
<1> DEFINE g1 == [g EXCEPT !.flag_read_done = FALSE]
           g2 == [g1 EXCEPT !.flag_nonexistent = FALSE]
           g3 == [g2 EXCEPT !.flag_end_of_file = FALSE]
           g4 == [g3 EXCEPT !.flag_begin_of_file = FALSE]
           g5 == [g4 EXCEPT !.flag_first_read = 2]
<1>1. BeginOpen(g) = g5
  BY DEF BeginOpen
<1> HIDE DEF g1, g2, g3, g4, g5
<1>2. g1 \in Cob_file
  BY FieldTyped DEF g1
<1>3. g2 \in Cob_file
  BY <1>2, FieldTyped DEF g2
<1>4. g3 \in Cob_file
  BY <1>3, FieldTyped DEF g3
<1>5. g4 \in Cob_file
  BY <1>4, FieldTyped DEF g4
<1>6. 2 \in 0..2
  OBVIOUS
<1>7. g5 \in Cob_file
  BY <1>5, <1>6, FieldTyped, Zenon DEF g5
<1> QED
  BY <1>1, <1>7

(* OPEN keeps the type of the record. *)
LEMMA OpenTyped ==
  ASSUME NEW g \in Cob_file, NEW mode \in OpenOptions
  PROVE  /\ OpenSpecial(g, mode) \in Cob_file
         /\ OpenNonexistent(g, mode) \in Cob_file
         /\ \A answer \in OpenAnswers : AfterOpen(g, mode, answer) \in Cob_file
<1> DEFINE h == BeginOpen(g)
           h1 == [h EXCEPT !.open_mode = mode]
           h2 == [h1 EXCEPT !.flag_nonexistent = TRUE]
           h3 == [h2 EXCEPT !.flag_end_of_file = TRUE]
           h4 == [h3 EXCEPT !.flag_begin_of_file = TRUE]
           live == [h1 EXCEPT !.file = "live"]
           leak == [h EXCEPT !.file = "live"]
<1>1. OpenSpecial(g, mode) = live
  BY DEF OpenSpecial
<1>2. OpenNonexistent(g, mode) = h4
  BY DEF OpenNonexistent
<1>3. [h EXCEPT !.open_mode = mode, !.file = "live"] = live
  OBVIOUS
<1>4. h \in Cob_file
  BY BeginOpenTyped
<1>5. h1 \in Cob_file /\ leak \in Cob_file
  BY <1>4, FieldTyped DEF OpenModes
<1> HIDE DEF h1
<1>6. h2 \in Cob_file /\ live \in Cob_file
  BY <1>5, FieldTyped
<1> HIDE DEF h2
<1>7. h3 \in Cob_file
  BY <1>6, FieldTyped
<1> HIDE DEF h3
<1>8. h4 \in Cob_file
  BY <1>7, FieldTyped
<1>9. ASSUME NEW answer \in OpenAnswers PROVE AfterOpen(g, mode, answer) \in {live, leak, h4, h}
  BY <1>2, <1>3, Zenon DEF AfterOpen, OpenAnswers
<1> QED
  BY <1>1, <1>2, <1>4, <1>5, <1>6, <1>8, <1>9

(* CLOSE keeps the type of the record. *)
LEMMA CloseTyped ==
  \A g \in Cob_file, opt \in CloseOptions, answer \in Nat : AfterClose(g, opt, answer) \in Cob_file
<1> SUFFICES ASSUME NEW g \in Cob_file, NEW opt \in CloseOptions, NEW answer \in Nat
             PROVE  AfterClose(g, opt, answer) \in Cob_file
  OBVIOUS
<1> DEFINE h == Touch(g)
           file == IF ReallyCloses(g, opt) /\ ~g.flag_nonexistent THEN "dead" ELSE h.file
           h1 == [h EXCEPT !.file = file]
           mode == CASE answer = SUCCESS /\ opt = "LOCK" -> "LOCKED"
                     [] answer = SUCCESS /\ opt # "LOCK" -> "CLOSED"
                     [] answer # SUCCESS -> IF opt = "NO_REWIND" THEN "CLOSED" ELSE h1.open_mode
           h2 == [h1 EXCEPT !.open_mode = mode]
<1>1. h \in Cob_file /\ h.file \in {"null", "live", "dead"}
  BY TouchTyped DEF Cob_file
<1>2. file \in {"null", "live", "dead"}
  BY <1>1
<1>3. AfterClose(g, opt, answer) = h2
  BY DEF AfterClose, Touch
<1>4. h1 \in Cob_file
  BY <1>1, <1>2, FieldTyped
<1>5. h1.open_mode \in OpenModes
  BY <1>4 DEF Cob_file
<1> HIDE DEF h1, h, file
<1>6. mode \in OpenModes
  BY <1>5 DEF OpenModes, OpenOptions
<1>7. h2 \in Cob_file
  BY <1>4, <1>6, FieldTyped
<1> QED
  BY <1>3, <1>7

(* START keeps the type of the record. *)
LEMMA StartTyped ==
  \A g \in Cob_file, answer \in Nat :
    BeginStart(g) \in Cob_file /\ AfterStart(g, answer) \in Cob_file
<1> SUFFICES ASSUME NEW g \in Cob_file, NEW answer \in Nat
             PROVE  BeginStart(g) \in Cob_file /\ AfterStart(g, answer) \in Cob_file
  OBVIOUS
<1> DEFINE h == Touch(g)
           h1 == [h EXCEPT !.flag_first_read = 0]
           h2 == [h1 EXCEPT !.flag_end_of_file = FALSE]
           h3 == [h2 EXCEPT !.flag_begin_of_file = FALSE]
           h4 == [h3 EXCEPT !.flag_first_read = 1]
<1>1. BeginStart(g) = h1
  BY DEF BeginStart, Touch
<1>2. AfterStart(g, answer) = IF answer = SUCCESS THEN h4 ELSE h1
  BY <1>1 DEF AfterStart
<1>3. h \in Cob_file /\ 0 \in 0..2 /\ 1 \in 0..2
  BY TouchTyped
<1> HIDE DEF h
<1>4. h1 \in Cob_file
  BY <1>3, FieldTyped, Zenon
<1> HIDE DEF h1
<1>5. h2 \in Cob_file
  BY <1>4, FieldTyped
<1> HIDE DEF h2
<1>6. h3 \in Cob_file
  BY <1>5, FieldTyped
<1> HIDE DEF h3
<1>7. h4 \in Cob_file
  BY <1>3, <1>6, FieldTyped, Zenon
<1> QED
  BY <1>1, <1>2, <1>4, <1>7

(* READ keeps the type of the record. *)
LEMMA ReadTyped ==
  \A g \in Cob_file :
    /\ RefusedRead(g) \in Cob_file
    /\ \A how \in DOMAIN ReadNames, answer \in Nat : AfterRead(g, how, answer) \in Cob_file
<1> SUFFICES ASSUME NEW g \in Cob_file, NEW how \in DOMAIN ReadNames, NEW answer \in Nat
             PROVE  RefusedRead(g) \in Cob_file /\ AfterRead(g, how, answer) \in Cob_file
  BY DEF ReadNames
<1> DEFINE t == Touch(g)
           h1 == [g EXCEPT !.flag_first_read = 0]
           h2 == [h1 EXCEPT !.flag_read_done = TRUE]
           h3 == [h2 EXCEPT !.flag_end_of_file = FALSE]
           h4 == [h3 EXCEPT !.flag_begin_of_file = FALSE]
           used == [t EXCEPT !.flag_first_read = 0]
           bof == [t EXCEPT !.flag_begin_of_file = TRUE]
           eof == [t EXCEPT !.flag_end_of_file = TRUE]
<1>1. RefusedRead(g) \in {used, t}
  BY DEF RefusedRead
<1>2. AfterRead(g, how, answer) \in {h4, bof, eof, t}
  BY Zenon DEF AfterRead
<1>3. t \in Cob_file /\ 0 \in 0..2
  BY TouchTyped
<1>4. h1 \in Cob_file
  BY <1>3, FieldTyped, Zenon
<1> HIDE DEF t, h1
<1>5. used \in Cob_file /\ bof \in Cob_file /\ eof \in Cob_file
  BY <1>3, FieldTyped, Zenon
<1>6. h2 \in Cob_file
  BY <1>4, FieldTyped
<1> HIDE DEF h2
<1>7. h3 \in Cob_file
  BY <1>6, FieldTyped
<1> HIDE DEF h3
<1>8. h4 \in Cob_file
  BY <1>7, FieldTyped
<1> QED
  BY <1>1, <1>2, <1>3, <1>5, <1>8

-----------------------------------------------------------------------------
(* The fields the parts of IInv speak of, after each transformer. *)
LEMMA TouchFields ==
  ASSUME NEW g \in Cob_file
  PROVE  /\ Touch(g).open_mode = g.open_mode
         /\ Touch(g).file = g.file
         /\ Touch(g).flag_nonexistent = g.flag_nonexistent
         /\ Touch(g).flag_end_of_file = g.flag_end_of_file
         /\ Touch(g).flag_begin_of_file = g.flag_begin_of_file
         /\ Touch(g).flag_read_done = FALSE
         /\ Touch(g).flag_optional = g.flag_optional
         /\ Touch(g).special = g.special
         /\ Touch(g).linage = g.linage
BY DEF Touch, Cob_file

(* The driver's open leaves the handle dead or null only when it did not open. *)
LEMMA OpenFields ==
  ASSUME NEW g \in Cob_file, NEW mode \in OpenOptions, NEW answer \in OpenAnswers
  PROVE  LET h == AfterOpen(g, mode, answer)
         IN  /\ h.flag_optional = g.flag_optional /\ h.special = g.special /\ h.linage = g.linage
             /\ h.flag_read_done = FALSE
             /\ \/ h.open_mode = mode /\ h.file = "live" /\ ~h.flag_nonexistent
                \/ /\ h.open_mode = g.open_mode /\ ~h.flag_nonexistent
                   /\ h.file = IF answer = "LINAGE_INVALID" THEN "live" ELSE g.file
                \/ /\ h.open_mode = mode /\ mode \in {"INPUT", "I_O"} /\ g.flag_optional
                   /\ h.flag_nonexistent /\ h.file = g.file
<1> DEFINE b == BeginOpen(g)
<1>1. /\ b.open_mode = g.open_mode /\ b.file = g.file /\ ~b.flag_nonexistent
      /\ ~b.flag_read_done /\ b.flag_optional = g.flag_optional
      /\ b.special = g.special /\ b.linage = g.linage
  BY DEF BeginOpen, Cob_file
<1>2. b \in Cob_file
  BY BeginOpenTyped
<1>3. CASE answer = "ok"
  <2>1. AfterOpen(g, mode, answer) = [b EXCEPT !.open_mode = mode, !.file = "live"]
    BY <1>3 DEF AfterOpen
  <2> HIDE DEF b
  <2> QED BY <1>1, <1>2, <2>1 DEF Cob_file
<1>4. CASE answer = "LINAGE_INVALID"
  <2>1. AfterOpen(g, mode, answer) = [b EXCEPT !.file = "live"]
    BY <1>4 DEF AfterOpen
  <2> HIDE DEF b
  <2> QED BY <1>1, <1>2, <1>4, <2>1 DEF Cob_file
<1>5. CASE answer = "ENOENT" /\ mode \in {"INPUT", "I_O"} /\ g.flag_optional
  <2>1. AfterOpen(g, mode, answer)
          = [b EXCEPT !.open_mode = mode, !.flag_nonexistent = TRUE,
                      !.flag_end_of_file = TRUE, !.flag_begin_of_file = TRUE]
    BY <1>5 DEF AfterOpen, OpenNonexistent
  <2> HIDE DEF b
  <2> QED BY <1>1, <1>2, <1>5, <2>1 DEF Cob_file
<1>6. CASE /\ answer \notin {"ok", "LINAGE_INVALID"}
           /\ ~(answer = "ENOENT" /\ mode \in {"INPUT", "I_O"} /\ g.flag_optional)
  <2>1. AfterOpen(g, mode, answer) = b
    BY <1>6, Zenon DEF AfterOpen
  <2> QED BY <1>1, <1>6, <2>1
<1> QED
  BY <1>3, <1>4, <1>5, <1>6

(* the effect of AfterClose, g before and h after *)
CloseEffect(g, h, opt, answer) ==
  /\ h.flag_optional = g.flag_optional /\ h.special = g.special /\ h.linage = g.linage
  /\ h.flag_nonexistent = g.flag_nonexistent
  /\ h.flag_end_of_file = g.flag_end_of_file
  /\ h.flag_begin_of_file = g.flag_begin_of_file
  /\ h.flag_read_done = FALSE
  /\ ReallyCloses(g, opt) /\ ~g.flag_nonexistent => h.file = "dead"
  /\ ~ReallyCloses(g, opt) \/ g.flag_nonexistent => h.file = g.file
  /\ answer = SUCCESS => h.open_mode \in {"CLOSED", "LOCKED"}
  /\ answer # SUCCESS /\ opt = "NO_REWIND" => h.open_mode = "CLOSED"
  /\ answer # SUCCESS /\ opt # "NO_REWIND" => h.open_mode = g.open_mode

(* The fields after CLOSE. *)
LEMMA CloseFields ==
  ASSUME NEW g \in Cob_file, NEW opt \in CloseOptions, NEW answer \in Nat
  PROVE  CloseEffect(g, AfterClose(g, opt, answer), opt, answer)
<1> DEFINE t == Touch(g)
<1>1. t \in Cob_file
  BY TouchTyped
<1>2. AfterClose(g, opt, answer)
        = [t EXCEPT
             !.file = IF ReallyCloses(g, opt) /\ ~g.flag_nonexistent THEN "dead" ELSE @,
             !.open_mode = CASE answer = SUCCESS /\ opt = "LOCK" -> "LOCKED"
                             [] answer = SUCCESS /\ opt # "LOCK" -> "CLOSED"
                             [] answer # SUCCESS -> IF opt = "NO_REWIND" THEN "CLOSED" ELSE @]
  BY DEF AfterClose
<1> DEFINE file == IF ReallyCloses(g, opt) /\ ~g.flag_nonexistent THEN "dead" ELSE t.file
           mode == CASE answer = SUCCESS /\ opt = "LOCK" -> "LOCKED"
                     [] answer = SUCCESS /\ opt # "LOCK" -> "CLOSED"
                     [] answer # SUCCESS -> IF opt = "NO_REWIND" THEN "CLOSED" ELSE t.open_mode
           h == [t EXCEPT !.file = file, !.open_mode = mode]
<1>3. h = AfterClose(g, opt, answer)
  BY <1>2, Zenon
<1>4. /\ answer = SUCCESS => mode \in {"CLOSED", "LOCKED"}
      /\ answer # SUCCESS /\ opt = "NO_REWIND" => mode = "CLOSED"
      /\ answer # SUCCESS /\ opt # "NO_REWIND" => mode = t.open_mode
  BY Zenon
<1> HIDE DEF t, file, mode
<1>5. /\ h.flag_optional = t.flag_optional /\ h.special = t.special /\ h.linage = t.linage
      /\ h.flag_nonexistent = t.flag_nonexistent /\ h.flag_read_done = t.flag_read_done
      /\ h.flag_end_of_file = t.flag_end_of_file /\ h.flag_begin_of_file = t.flag_begin_of_file
      /\ h.file = file /\ h.open_mode = mode
  BY <1>1 DEF Cob_file
<1> HIDE DEF h
<1>6. CloseEffect(g, h, opt, answer)
  BY <1>4, <1>5, TouchFields DEF CloseEffect, t, file
<1> QED
  BY <1>3, <1>6

(* The fields after START. *)
LEMMA StartFields ==
  ASSUME NEW g \in Cob_file, NEW answer \in Nat
  PROVE  \A h \in {BeginStart(g), AfterStart(g, answer)} :
           /\ h.flag_optional = g.flag_optional /\ h.special = g.special /\ h.linage = g.linage
           /\ h.flag_nonexistent = g.flag_nonexistent /\ h.flag_read_done = FALSE
           /\ h.file = g.file /\ h.open_mode = g.open_mode
<1> DEFINE b == BeginStart(g)
           a == [b EXCEPT !.flag_end_of_file = FALSE, !.flag_begin_of_file = FALSE,
                          !.flag_first_read = 1]
<1>1. /\ b.flag_optional = g.flag_optional /\ b.special = g.special /\ b.linage = g.linage
      /\ b.flag_nonexistent = g.flag_nonexistent /\ b.flag_read_done = FALSE
      /\ b.file = g.file /\ b.open_mode = g.open_mode
  BY DEF BeginStart, Cob_file
<1>2. b \in Cob_file
  BY StartTyped, Zenon
<1>3. AfterStart(g, answer) \in {a, b}
  BY DEF AfterStart
<1> HIDE DEF b
<1>4. /\ a.flag_optional = b.flag_optional /\ a.special = b.special /\ a.linage = b.linage
      /\ a.flag_nonexistent = b.flag_nonexistent /\ a.flag_read_done = b.flag_read_done
      /\ a.file = b.file /\ a.open_mode = b.open_mode
  BY <1>2 DEF Cob_file
<1> QED
  BY <1>1, <1>3, <1>4 DEF b

(* the effect of AfterRead, g before and h after *)
ReadEffect(g, h, how, answer) ==
  /\ h.flag_optional = g.flag_optional /\ h.special = g.special /\ h.linage = g.linage
  /\ h.flag_nonexistent = g.flag_nonexistent
  /\ h.file = g.file /\ h.open_mode = g.open_mode
  /\ h.flag_read_done => answer = SUCCESS
  /\ answer = END_OF_FILE /\ how = "PREVIOUS" => h.flag_begin_of_file
  /\ answer = END_OF_FILE /\ how # "PREVIOUS" => h.flag_end_of_file

(* The fields after READ. *)
LEMMA ReadFields ==
  ASSUME NEW g \in Cob_file, NEW how \in DOMAIN ReadNames, NEW answer \in Nat
  PROVE  ReadEffect(g, AfterRead(g, how, answer), how, answer)
<1> USE DEF ReadEffect
<1>1. CASE answer = SUCCESS
  <2>1. AfterRead(g, how, answer)
          = [g EXCEPT !.flag_first_read = 0, !.flag_read_done = TRUE,
                      !.flag_end_of_file = FALSE, !.flag_begin_of_file = FALSE]
    BY <1>1 DEF AfterRead, SUCCESS, END_OF_FILE
  <2> QED
    BY <2>1, <1>1 DEF Cob_file, SUCCESS, END_OF_FILE
<1>2. CASE answer = END_OF_FILE
  <2>1. AfterRead(g, how, answer)
          = IF how = "PREVIOUS" THEN [Touch(g) EXCEPT !.flag_begin_of_file = TRUE]
                                ELSE [Touch(g) EXCEPT !.flag_end_of_file = TRUE]
    BY <1>2 DEF AfterRead, SUCCESS, END_OF_FILE
  <2> DEFINE t == Touch(g)
  <2>2. t \in Cob_file
    BY TouchTyped
  <2>3. /\ t.flag_optional = g.flag_optional /\ t.special = g.special /\ t.linage = g.linage
        /\ t.flag_nonexistent = g.flag_nonexistent /\ t.flag_read_done = FALSE
        /\ t.file = g.file /\ t.open_mode = g.open_mode
    BY TouchFields
  <2> HIDE DEF t
  <2>4. CASE how = "PREVIOUS"
    <3>1. AfterRead(g, how, answer) = [t EXCEPT !.flag_begin_of_file = TRUE]
      BY <2>1, <2>4 DEF t
    <3> QED
      BY <1>2, <2>2, <2>3, <2>4, <3>1 DEF Cob_file
  <2>5. CASE how # "PREVIOUS"
    <3>1. AfterRead(g, how, answer) = [t EXCEPT !.flag_end_of_file = TRUE]
      BY <2>1, <2>5 DEF t
    <3> QED
      BY <1>2, <2>2, <2>3, <2>5, <3>1 DEF Cob_file
  <2> QED
    BY <2>4, <2>5
<1>3. CASE answer # SUCCESS /\ answer # END_OF_FILE
  <2>1. AfterRead(g, how, answer) = Touch(g)
    BY <1>3, Zenon DEF AfterRead
  <2> QED
    BY <2>1, <1>3, TouchFields
<1> QED
  BY <1>1, <1>2, <1>3

(* The fields after a READ that is refused. *)
LEMMA RefusedReadFields ==
  ASSUME NEW g \in Cob_file
  PROVE  LET h == RefusedRead(g)
         IN  /\ h.flag_optional = g.flag_optional /\ h.special = g.special /\ h.linage = g.linage
             /\ h.flag_nonexistent = g.flag_nonexistent
             /\ h.file = g.file /\ h.open_mode = g.open_mode /\ ~h.flag_read_done
<1>1. CASE g.flag_nonexistent
  <2>1. RefusedRead(g) = [Touch(g) EXCEPT !.flag_first_read = 0]
    BY <1>1 DEF RefusedRead
  <2> QED
    BY <2>1, TouchTyped, TouchFields DEF Cob_file
<1>2. CASE ~g.flag_nonexistent
  BY <1>2, TouchFields DEF RefusedRead
<1> QED
  BY <1>1, <1>2

-----------------------------------------------------------------------------
(* Each call preserves the invariant. *)
LEMMA InitInv == Init => IInv
<1> SUFFICES ASSUME Init PROVE IInv
  OBVIOUS
<1>1. PICK s \in Selects : f = NewFile(s)
  BY DEF Init
<1>2. f \in Cob_file
  BY <1>1 DEF NewFile, Cob_file, Selects, OpenModes
<1>3. f.open_mode = "CLOSED" /\ f.file = "null" /\ ~f.flag_nonexistent /\ ~f.flag_read_done
  BY <1>1 DEF NewFile
<1>4. last \in [op : Calls, status : 0..99, found : OpenModes] /\ last.status # END_OF_FILE
  BY DEF Init, Calls, OpenModes, SUCCESS, END_OF_FILE
<1>5. TypeOK
  BY <1>2, <1>4 DEF Init, TypeOK
<1> QED
  BY <1>3, <1>4, <1>5 DEF IInv, OpenIsLive, MissingFlag, ReadDoneFlag, EndFlags, NoHandleLost,
     OpenOptions

(* OPEN keeps the invariant. *)
LEMMA OpenInv == IInv /\ Open => IInv'
<1> SUFFICES ASSUME IInv, NEW mode \in OpenOptions, NEW missing \in BOOLEAN,
                    OpenRefused(mode, missing) \/ OpenTerminal(mode) \/ OpenDriver(mode, missing)
             PROVE  IInv'
  BY DEF Open
<1> USE DEF IInv
<1>0. f \in Cob_file /\ f.open_mode \in OpenModes
  BY DEF TypeOK, Cob_file
<1>1. CASE OpenRefused(mode, missing)
  <2>1. PICK status \in {CLOSED_WITH_LOCK, ALREADY_OPEN, PERMANENT_ERROR, NOT_EXISTS} :
          /\ status = OpenCheck(f, mode, missing)
          /\ Refuse("OPEN", status, IF f.open_mode = "CLOSED" THEN BeginOpen(f) ELSE Touch(f))
    <3>1. OpenCheck(f, mode, missing) \in
            {CLOSED_WITH_LOCK, ALREADY_OPEN, PERMANENT_ERROR, NOT_EXISTS, SUCCESS, CallDriver}
      BY Zenon DEF OpenCheck
    <3> QED
      BY <1>1, <3>1, Zenon DEF OpenRefused
  <2>2. /\ f' \in Cob_file
        /\ f'.open_mode = f.open_mode /\ f'.file = f.file /\ ~f'.flag_read_done
        /\ f'.flag_nonexistent => f.flag_nonexistent
        /\ f'.flag_optional = f.flag_optional /\ f'.special = f.special /\ f'.linage = f.linage
        /\ f.open_mode \in OpenOptions => f'.flag_nonexistent = f.flag_nonexistent
    <3>1. CASE f.open_mode = "CLOSED"
      BY <1>0, <2>1, <3>1, BeginOpenTyped DEF Refuse, BeginOpen, Cob_file, OpenOptions
    <3>2. CASE f.open_mode # "CLOSED"
      BY <1>0, <2>1, <3>2, TouchTyped, TouchFields DEF Refuse
    <3> QED BY <3>1, <3>2
  <2>3. last' \in [op : Calls, status : 0..99, found : OpenModes] /\ last'.op = "OPEN"
    BY <1>0, <2>1 DEF Refuse, Record, Calls, CLOSED_WITH_LOCK, ALREADY_OPEN, PERMANENT_ERROR, NOT_EXISTS
  <2> QED
    BY <1>0, <2>1, <2>2, <2>3 DEF Refuse, TypeOK, OpenIsLive, MissingFlag, ReadDoneFlag,
       EndFlags, NoHandleLost
<1>2. CASE OpenTerminal(mode)
  <2>1. f.special # 0 /\ f.open_mode = "CLOSED"
    BY <1>2, <1>0 DEF OpenTerminal, OpenCheck, OpenModes, SUCCESS, CLOSED_WITH_LOCK, ALREADY_OPEN, NOT_EXISTS, CallDriver
  <2>2. f' = OpenSpecial(f, mode) /\ f' \in Cob_file
    BY <1>0, <1>2, OpenTyped DEF OpenTerminal, Refuse
  <2>3. /\ f'.open_mode = mode /\ f'.file = "live" /\ ~f'.flag_nonexistent /\ ~f'.flag_read_done
        /\ f'.special = f.special
    BY <1>0, <2>2, BeginOpenTyped DEF OpenSpecial, BeginOpen, Cob_file
  <2>4. last' \in [op : Calls, status : 0..99, found : OpenModes] /\ last'.op = "OPEN"
    BY <1>0, <1>2 DEF OpenTerminal, Refuse, Record, Calls, SUCCESS
  <2> QED
    BY <1>2, <2>1, <2>2, <2>3, <2>4 DEF OpenTerminal, Refuse, TypeOK, OpenIsLive,
       MissingFlag, ReadDoneFlag, EndFlags, NoHandleLost
<1>3. CASE OpenDriver(mode, missing)
  <2>1. f.special = 0 /\ f.open_mode = "CLOSED"
    BY <1>3, <1>0 DEF OpenDriver, OpenCheck, OpenModes, SUCCESS, CLOSED_WITH_LOCK, ALREADY_OPEN, NOT_EXISTS, PERMANENT_ERROR, CallDriver
  <2>2. PICK answer \in OpenAnswers :
          /\ answer = "LINAGE_INVALID" => f.linage
          /\ f' = AfterOpen(f, mode, answer)
          /\ Record("OPEN", OpenStatus(f, mode, missing, answer))
    BY <1>3 DEF OpenDriver
  <2>3. OpenStatus(f, mode, missing, answer) \in 0..99
    BY DEF OpenStatus, OpenAnswers, SUCCESS, SUCCESS_OPTIONAL, PERMANENT_ERROR, NOT_EXISTS,
       PERMISSION_DENIED, FILE_SHARING, LINAGE_ERROR
  <2>4. f' \in Cob_file
    BY <1>0, <2>2, OpenTyped
  <2>5. last' \in [op : Calls, status : 0..99, found : OpenModes] /\ last'.op = "OPEN"
    BY <1>0, <2>2, <2>3 DEF Record, Calls
  <2>6. /\ f'.flag_optional = f.flag_optional /\ f'.special = 0 /\ f'.linage = f.linage
        /\ f'.flag_read_done = FALSE
        /\ \/ f'.open_mode = mode /\ f'.file = "live" /\ ~f'.flag_nonexistent
           \/ /\ f'.open_mode = "CLOSED" /\ ~f'.flag_nonexistent
              /\ f'.file = f.file \/ f.linage
           \/ /\ f'.open_mode = mode /\ mode \in {"INPUT", "I_O"} /\ f.flag_optional
              /\ f'.flag_nonexistent /\ f'.file = f.file
    <3> DEFINE h == AfterOpen(f, mode, answer)
    <3>1. /\ h.flag_optional = f.flag_optional /\ h.special = f.special /\ h.linage = f.linage
          /\ h.flag_read_done = FALSE
          /\ \/ h.open_mode = mode /\ h.file = "live" /\ ~h.flag_nonexistent
             \/ /\ h.open_mode = f.open_mode /\ ~h.flag_nonexistent
                /\ h.file = IF answer = "LINAGE_INVALID" THEN "live" ELSE f.file
             \/ /\ h.open_mode = mode /\ mode \in {"INPUT", "I_O"} /\ f.flag_optional
                /\ h.flag_nonexistent /\ h.file = f.file
      BY <1>0, OpenFields, Zenon
    <3>2. f' = h
      BY <2>2
    <3> HIDE DEF h
    <3> QED
      BY <2>1, <2>2, <3>1, <3>2
  <2>7. cached' /\ running' /\ TypeOK'
    BY <1>3, <2>4, <2>5 DEF OpenDriver, TypeOK
  <2>8. NoHandleLost'
    BY <2>1, <2>6, <2>7 DEF NoHandleLost, OpenOptions
  <2>9. f.file = "live" => f.linage
    BY <2>1 DEF NoHandleLost, OpenOptions
  <2>10. MissingFlag' /\ OpenIsLive'
    BY <2>6, <2>9 DEF OpenIsLive, MissingFlag, OpenOptions
  <2> QED
    BY <2>5, <2>6, <2>7, <2>8, <2>10 DEF ReadDoneFlag, EndFlags
<1> QED
  BY <1>1, <1>2, <1>3

(* A call that only forgets the last READ preserves the invariant. *)
LEMMA QuietCall ==
  ASSUME IInv, f' \in Cob_file,
         f'.open_mode = f.open_mode, f'.file = f.file, f'.flag_nonexistent = f.flag_nonexistent,
         f'.flag_optional = f.flag_optional, f'.special = f.special, f'.linage = f.linage,
         ~f'.flag_read_done,
         last' \in [op : Calls, status : 0..99, found : OpenModes],
         last'.op \notin {"READ NEXT", "READ PREVIOUS"},
         cached' = cached, running' = running, fault' \in BOOLEAN
  PROVE  IInv'
BY DEF IInv, TypeOK, OpenIsLive, MissingFlag, ReadDoneFlag, EndFlags, NoHandleLost

(* What Refuse and Answered do to the variables other than f. *)
LEMMA CallRecorded ==
  ASSUME IInv, NEW op \in Calls, NEW status \in 0..99, NEW g,
         Refuse(op, status, g) \/ Answered(op, status, g)
  PROVE  /\ f' = g
         /\ last' \in [op : Calls, status : 0..99, found : OpenModes]
         /\ last'.op = op /\ last'.status = status /\ last'.found = f.open_mode
         /\ cached' = cached /\ running' = running /\ running /\ fault' \in BOOLEAN
<1>1. f.open_mode \in OpenModes /\ fault \in BOOLEAN
  BY DEF IInv, TypeOK, Cob_file
<1>2. last' = [op |-> op, status |-> status, found |-> f.open_mode]
  BY DEF Refuse, Answered, Record
<1> QED
  BY <1>1, <1>2 DEF Refuse, Answered

(* A statement that only touches the record keeps the invariant. *)
LEMMA TouchInv ==
  ASSUME IInv, NEW op \in Calls \ {"READ NEXT", "READ PREVIOUS"}, NEW status \in 0..99,
         Refuse(op, status, Touch(f)) \/ Answered(op, status, Touch(f))
  PROVE  IInv'
<1>1. f \in Cob_file
  BY DEF IInv, TypeOK
<1>2. /\ f' = Touch(f)
      /\ last' \in [op : Calls, status : 0..99, found : OpenModes]
      /\ last'.op = op
      /\ cached' = cached /\ running' = running /\ fault' \in BOOLEAN
  BY CallRecorded, Zenon
<1> QED
  BY <1>1, <1>2, TouchTyped, TouchFields, QuietCall

(* WRITE, REWRITE and DELETE keep the invariant. *)
LEMMA UpdateInv == IInv /\ (Write \/ Rewrite \/ Delete) => IInv'
<1> SUFFICES ASSUME IInv, Write \/ Rewrite \/ Delete PROVE IInv'
  OBVIOUS
<1>1. \A op \in {"WRITE", "REWRITE", "DELETE"} : op \in Calls \ {"READ NEXT", "READ PREVIOUS"}
  BY DEF Calls
<1>2. CASE Write
  <2>1. ASSUME NEW fits \in BOOLEAN, WriteRefused(fits) PROVE IInv'
    <3>1. WriteCheck(f, fits) \in 0..99
      BY <2>1 DEF WriteRefused, WriteCheck, OUTPUT_DENIED, RECORD_OVERFLOW, CallDriver
    <3> QED
      BY <1>1, <2>1, <3>1, TouchInv DEF WriteRefused
  <2>2. ASSUME WriteDriver PROVE IInv'
    <3>1. WriteAnswers(f.organization) \subseteq 0..99
      BY DEF WriteAnswers, IInv, TypeOK, Cob_file, Organizations
    <3> QED
      BY <1>1, <2>2, <3>1, TouchInv DEF WriteDriver
  <2> QED
    BY <1>2, <2>1, <2>2 DEF Write
<1>3. \A same \in BOOLEAN : UpdateCheck(f, same) # CallDriver => UpdateCheck(f, same) \in 0..99
  BY DEF UpdateCheck, I_O_DENIED, READ_NOT_DONE, RECORD_OVERFLOW, CallDriver
<1>4. CASE Rewrite
  <2>1. ASSUME NEW same \in BOOLEAN, RewriteRefused(same) PROVE IInv'
    BY <1>1, <1>3, <2>1, TouchInv DEF RewriteRefused
  <2>2. ASSUME RewriteDriver PROVE IInv'
    <3>1. RewriteAnswers(f.organization) \subseteq 0..99
      BY DEF RewriteAnswers, IInv, TypeOK, Cob_file, Organizations
    <3> QED
      BY <1>1, <2>2, <3>1, TouchInv DEF RewriteDriver
  <2> QED
    BY <1>4, <2>1, <2>2 DEF Rewrite
<1>5. CASE Delete
  <2>1. ASSUME DeleteRefused PROVE IInv'
    BY <1>1, <1>3, <2>1, TouchInv DEF DeleteRefused
  <2>2. ASSUME DeleteDriver PROVE IInv'
    <3>1. DeleteAnswers(f.organization) \subseteq 0..99
      BY DEF DeleteAnswers, IInv, TypeOK, Cob_file, Organizations
    <3> QED
      BY <1>1, <2>2, <3>1, TouchInv DEF DeleteDriver
  <2> QED
    BY <1>5, <2>1, <2>2 DEF Delete
<1> QED
  BY <1>2, <1>4, <1>5

(* START keeps the invariant. *)
LEMMA StartInv == IInv /\ Start => IInv'
<1> SUFFICES ASSUME IInv, Start PROVE IInv'
  OBVIOUS
<1>1. f \in Cob_file
  BY DEF IInv, TypeOK
<1>2. PICK status \in 0..99 : \E h \in {BeginStart(f), AfterStart(f, status)} :
         Refuse("START", status, h) \/ Answered("START", status, h)
  <2>1. CASE StartRefused
    <3>1. StartCheck(f) \in 0..99
      BY <2>1 DEF StartRefused, StartCheck, KEY_NOT_EXISTS, INPUT_DENIED, CallDriver
    <3> QED
      BY <2>1, <3>1 DEF StartRefused
  <2>2. CASE StartDriver
    <3>1. StartAnswers(f.organization) \subseteq 0..99
      BY DEF StartAnswers
    <3> QED
      BY <2>2, <3>1 DEF StartDriver
  <2> QED
    BY <2>1, <2>2 DEF Start
<1>3. PICK g \in {BeginStart(f), AfterStart(f, status)} :
         Refuse("START", status, g) \/ Answered("START", status, g)
  BY <1>2
<1>4. "START" \in Calls /\ status \in Nat
  BY DEF Calls
<1>5. /\ f' = g
      /\ last' \in [op : Calls, status : 0..99, found : OpenModes] /\ last'.op = "START"
      /\ cached' = cached /\ running' = running /\ fault' \in BOOLEAN
  BY <1>3, <1>4, CallRecorded, Zenon
<1>6. f' \in Cob_file
  BY <1>1, <1>3, <1>4, <1>5, StartTyped, Zenon
<1>7. /\ f'.flag_optional = f.flag_optional /\ f'.special = f.special /\ f'.linage = f.linage
      /\ f'.flag_nonexistent = f.flag_nonexistent /\ f'.flag_read_done = FALSE
      /\ f'.file = f.file /\ f'.open_mode = f.open_mode
  BY <1>1, <1>3, <1>4, <1>5, StartFields, Zenon
<1> QED
  BY <1>5, <1>6, <1>7, QuietCall

(* CLOSE keeps the invariant. *)
LEMMA CloseInv == IInv /\ Close => IInv'
<1> SUFFICES ASSUME IInv, NEW opt \in CloseOptions, CloseRefused(opt) \/ CloseDriver(opt)
             PROVE  IInv'
  BY DEF Close
<1>1. f \in Cob_file /\ f.open_mode \in OpenModes /\ "CLOSE" \in Calls
  BY DEF IInv, TypeOK, Cob_file, Calls
<1>2. CASE CloseRefused(opt) /\ f.special # 0
  <2>1. CloseCheck(f) = SUCCESS
    BY <1>2 DEF CloseCheck
  <2>2. Refuse("CLOSE", SUCCESS, [Touch(f) EXCEPT !.open_mode = "CLOSED"])
    BY <1>2, <2>1 DEF CloseRefused
  <2>3. /\ f' = [Touch(f) EXCEPT !.open_mode = "CLOSED"]
        /\ last' \in [op : Calls, status : 0..99, found : OpenModes] /\ last'.op = "CLOSE"
        /\ cached' = cached /\ running' = running /\ fault' \in BOOLEAN
    <3>1. SUCCESS \in 0..99
      BY DEF SUCCESS
    <3> QED
      BY <1>1, <2>2, <3>1, CallRecorded, Zenon
  <2>4. f' \in Cob_file /\ f'.open_mode = "CLOSED" /\ f'.file = f.file /\ ~f'.flag_read_done
        /\ f'.special = f.special /\ f'.flag_nonexistent = f.flag_nonexistent
    <3>1. "CLOSED" \in OpenModes
      BY DEF OpenModes
    <3>2. f' \in Cob_file
      BY <1>1, <2>3, <3>1, TouchTyped, FieldTyped
    <3> QED
      BY <1>1, <2>3, <3>2, TouchTyped, TouchFields DEF Cob_file
  <2> QED
    BY <1>2, <2>3, <2>4 DEF IInv, TypeOK, OpenIsLive, MissingFlag, ReadDoneFlag, EndFlags,
       NoHandleLost, OpenOptions
<1>3. CASE CloseRefused(opt) /\ f.special = 0 /\ f.open_mode = "CLOSED"
  <2>1. CloseCheck(f) = NOT_OPEN
    BY <1>3 DEF CloseCheck
  <2>2. Refuse("CLOSE", NOT_OPEN, Touch(f))
    BY <1>3, <2>1 DEF CloseRefused, NOT_OPEN, SUCCESS
  <2>3. "CLOSE" \in Calls \ {"READ NEXT", "READ PREVIOUS"} /\ NOT_OPEN \in 0..99
    BY DEF Calls, NOT_OPEN
  <2> QED
    BY <2>2, <2>3, TouchInv, Zenon
<1>4. CASE \/ CloseRefused(opt) /\ f.special = 0 /\ f.open_mode # "CLOSED"
           \/ CloseDriver(opt)
  <2>1. PICK answer \in {SUCCESS, SUCCESS_NO_UNIT} :
           /\ \/ Refuse("CLOSE", answer, AfterClose(f, opt, answer))
              \/ Answered("CLOSE", answer, AfterClose(f, opt, answer))
           /\ f.open_mode # "CLOSED"
           /\ f.flag_nonexistent => answer = SUCCESS
           /\ ~f.flag_nonexistent /\ ~ReallyCloses(f, opt) => answer # SUCCESS
           /\ answer # SUCCESS /\ opt # "NO_REWIND" => ~ReallyCloses(f, opt)
           /\ f.special = 0
    <3>1. CASE CloseRefused(opt) /\ f.special = 0 /\ f.open_mode # "CLOSED"
      <4>1. CloseCheck(f) = SUCCESS /\ f.flag_nonexistent
        BY <3>1 DEF CloseRefused, CloseCheck
      <4>2. Refuse("CLOSE", SUCCESS, AfterClose(f, opt, SUCCESS))
        BY <3>1, <4>1 DEF CloseRefused, SUCCESS, NOT_OPEN
      <4> QED
        BY <3>1, <4>1, <4>2
    <3>2. CASE CloseDriver(opt)
      <4>1. f.special = 0 /\ f.open_mode # "CLOSED" /\ ~f.flag_nonexistent
        BY <3>2, <1>1 DEF CloseDriver, CloseCheck, CallDriver, SUCCESS, NOT_OPEN, Cob_file
      <4> QED
        BY <3>2, <4>1 DEF CloseDriver, CloseAnswer, ReallyCloses, CloseOptions, SUCCESS, SUCCESS_NO_UNIT
    <3> QED
      BY <1>4, <3>1, <3>2
  <2>2. answer \in Nat /\ answer \in 0..99 /\ SUCCESS \in Nat
    BY DEF SUCCESS, SUCCESS_NO_UNIT
  <2>3. /\ f' = AfterClose(f, opt, answer)
        /\ last' \in [op : Calls, status : 0..99, found : OpenModes] /\ last'.op = "CLOSE"
        /\ cached' = cached /\ running' = running /\ running /\ fault' \in BOOLEAN
    BY <1>1, <2>1, <2>2, CallRecorded, Zenon
  <2>4. f' \in Cob_file
    BY <1>1, <2>2, <2>3, CloseTyped
  <2>5. /\ f'.flag_optional = f.flag_optional /\ f'.special = f.special /\ f'.linage = f.linage
        /\ f'.flag_nonexistent = f.flag_nonexistent
        /\ f'.flag_read_done = FALSE
        /\ ReallyCloses(f, opt) /\ ~f.flag_nonexistent => f'.file = "dead"
        /\ ~ReallyCloses(f, opt) \/ f.flag_nonexistent => f'.file = f.file
        /\ answer = SUCCESS => f'.open_mode \in {"CLOSED", "LOCKED"}
        /\ answer # SUCCESS /\ opt = "NO_REWIND" => f'.open_mode = "CLOSED"
        /\ answer # SUCCESS /\ opt # "NO_REWIND" => f'.open_mode = f.open_mode
    <3>1. f \in Cob_file /\ answer \in Nat /\ f' = AfterClose(f, opt, answer)
      BY <1>1, <2>2, <2>3
    <3>2. CloseEffect(f, f', opt, answer)
      BY <3>1, CloseFields, Zenon
    <3> QED
      BY <3>2 DEF CloseEffect
  <2>6. TypeOK'
    BY <2>3, <2>4 DEF IInv, TypeOK
  <2>7. f'.open_mode \in OpenOptions => f'.open_mode = f.open_mode /\ answer # SUCCESS /\ opt # "NO_REWIND"
    BY <2>5 DEF OpenOptions
  <2>8. OpenIsLive'
    BY <2>1, <2>5, <2>7 DEF IInv, OpenIsLive
  <2>9. MissingFlag'
    BY <2>1, <2>5 DEF IInv, MissingFlag
  <2>10. f'.file = "live" => \/ f.file = "live" /\ f.flag_nonexistent
                             \/ f.file = "live" /\ f'.open_mode = f.open_mode
                             \/ f.file = "live" /\ f.open_mode \notin OpenOptions
    BY <2>1, <2>5 DEF ReallyCloses, OpenOptions
  <2>11. f'.file = "live" /\ f'.open_mode \notin OpenOptions => f.linage
    BY <2>1, <2>10 DEF IInv, NoHandleLost, MissingFlag
  <2>12. f'.file = "live" /\ f'.open_mode \in OpenOptions => cached
    BY <2>1, <2>7, <2>10 DEF IInv, NoHandleLost
  <2>13. NoHandleLost'
    BY <2>3, <2>5, <2>11, <2>12 DEF NoHandleLost
  <2> QED
    BY <2>3, <2>5, <2>6, <2>8, <2>9, <2>13 DEF IInv, ReadDoneFlag, EndFlags
<1> QED
  BY <1>1, <1>2, <1>3, <1>4 DEF Cob_file

(* When a READ comes to the driver. *)
LEMMA ReadCheckMeaning ==
  ASSUME NEW how \in DOMAIN ReadNames
  PROVE  /\ ReadCheck(f, how) = CallDriver => ~f.flag_nonexistent /\ ~Latched(f, how)
         /\ ReadCheck(f, how) = END_OF_FILE => f.flag_nonexistent
         /\ ReadCheck(f, how) # CallDriver => ReadCheck(f, how) \in 0..99 \ {SUCCESS}
BY DEF ReadCheck, KEY_NOT_EXISTS, END_OF_FILE, READ_ERROR, INPUT_DENIED, CallDriver, SUCCESS

(* READ keeps the invariant. *)
LEMMA ReadInv == IInv /\ Read => IInv'
<1> SUFFICES ASSUME IInv, NEW how \in ReadForms(f), ReadRefused(how) \/ ReadDriver(how)
             PROVE  IInv'
  BY DEF Read
<1>1. f \in Cob_file /\ how \in DOMAIN ReadNames /\ ReadNames[how] \in Calls
  BY DEF IInv, TypeOK, ReadForms, ReadNames, Calls
<1>2. /\ ReadNames[how] = "READ PREVIOUS" <=> how = "PREVIOUS"
      /\ ReadNames[how] = "READ NEXT" <=> how = "NEXT"
      /\ ReadNames[how] \in {ReadNames[h] : h \in DOMAIN ReadNames}
  <2>1. how \in {"NEXT", "PREVIOUS", "KEY"}
    BY <1>1 DEF ReadNames
  <2>2. /\ ReadNames[how] = "READ PREVIOUS" <=> how = "PREVIOUS"
        /\ ReadNames[how] = "READ NEXT" <=> how = "NEXT"
    <3>1. /\ ReadNames["NEXT"] = "READ NEXT" /\ ReadNames["PREVIOUS"] = "READ PREVIOUS"
          /\ ReadNames["KEY"] = "READ KEY"
      BY DEF ReadNames
    <3> QED
      BY <2>1, <3>1
  <2> QED
    BY <1>1, <2>2, Zenon
<1>3. CASE ReadRefused(how)
  <2>1. ReadCheck(f, how) \in 0..99 /\ (ReadCheck(f, how) = END_OF_FILE => f.flag_nonexistent)
    BY <1>1, <1>3, ReadCheckMeaning DEF ReadRefused
  <2>2. /\ f' = RefusedRead(f)
        /\ last' \in [op : Calls, status : 0..99, found : OpenModes]
        /\ last'.status = ReadCheck(f, how)
        /\ cached' = cached /\ running' = running /\ fault' \in BOOLEAN
    BY <1>1, <1>3, <2>1, CallRecorded, Zenon DEF ReadRefused
  <2>3. f' \in Cob_file
    BY <1>1, <2>2, ReadTyped, Zenon
  <2>4. /\ f'.flag_optional = f.flag_optional /\ f'.special = f.special /\ f'.linage = f.linage
        /\ f'.flag_nonexistent = f.flag_nonexistent
        /\ f'.file = f.file /\ f'.open_mode = f.open_mode /\ ~f'.flag_read_done
    BY <1>1, <2>2, RefusedReadFields
  <2> QED
    BY <2>1, <2>2, <2>3, <2>4 DEF IInv, TypeOK, OpenIsLive, MissingFlag, ReadDoneFlag,
       EndFlags, NoHandleLost
<1>4. CASE ReadDriver(how)
  <2>1. ReadCheck(f, how) = CallDriver /\ ~f.flag_nonexistent
    BY <1>1, <1>4, ReadCheckMeaning DEF ReadDriver
  <2>2. PICK answer \in ReadAnswers(f.organization, how) :
           Answered(ReadNames[how], answer, AfterRead(f, how, answer))
    BY <1>4 DEF ReadDriver
  <2>3. answer \in 0..99 /\ answer \in Nat
    <3>1. ReadAnswers(f.organization, how) \subseteq 0..99
      BY <1>1 DEF ReadAnswers, Cob_file, Organizations
    <3> QED BY <3>1
  <2>4. /\ f' = AfterRead(f, how, answer)
        /\ last' \in [op : Calls, status : 0..99, found : OpenModes]
        /\ last'.op = ReadNames[how] /\ last'.status = answer /\ last'.found = f.open_mode
        /\ cached' = cached /\ running' = running /\ fault' \in BOOLEAN
    BY <1>1, <2>2, <2>3, CallRecorded, Zenon
  <2>5. f' \in Cob_file
    BY <1>1, <2>3, <2>4, ReadTyped, Zenon
  <2>6. ReadEffect(f, f', how, answer)
    BY <1>1, <2>3, <2>4, ReadFields, Zenon
  <2>7. TypeOK' /\ NoHandleLost' /\ OpenIsLive'
    BY <2>4, <2>5, <2>6 DEF IInv, TypeOK, NoHandleLost, OpenIsLive, ReadEffect
  <2>8. MissingFlag'
    BY <2>1, <2>6 DEF MissingFlag, ReadEffect
  <2>9. ReadDoneFlag'
    BY <1>2, <2>4, <2>6 DEF ReadDoneFlag, ReadEffect, LastReadOk
  <2>10. EndFlags'
    BY <1>2, <2>4, <2>6 DEF EndFlags, ReadEffect
  <2> QED
    BY <2>7, <2>8, <2>9, <2>10 DEF IInv
<1> QED
  BY <1>3, <1>4

(* The end of the run unit keeps the invariant. *)
LEMMA ExitInv == IInv /\ (Unlock \/ ExitFileio \/ Crash) => IInv'
<1> SUFFICES ASSUME IInv, Unlock \/ ExitFileio \/ Crash PROVE IInv'
  OBVIOUS
<1>1. f \in Cob_file /\ f.open_mode \in OpenModes /\ "NORMAL" \in CloseOptions /\ SUCCESS \in Nat
  BY DEF IInv, TypeOK, Cob_file, CloseOptions, SUCCESS
<1>2. CASE Unlock
  BY <1>2 DEF Unlock, IInv, TypeOK, OpenIsLive, MissingFlag, ReadDoneFlag, EndFlags,
     NoHandleLost, LastReadOk
<1>3. CASE Crash
  BY <1>3 DEF Crash, IInv, TypeOK, OpenIsLive, MissingFlag, ReadDoneFlag, EndFlags,
     NoHandleLost, LastReadOk
<1>4. CASE ExitFileio /\ ~(cached /\ f.open_mode \in OpenOptions)
  <2>1. UNCHANGED <<f, last, fault, cached>> /\ running' = FALSE
    BY <1>4 DEF ExitFileio
  <2>2. f.file = "live" => f.linage \/ f.special # 0
    BY <1>4 DEF IInv, NoHandleLost
  <2> QED
    BY <2>1, <2>2 DEF IInv, TypeOK, OpenIsLive, MissingFlag, ReadDoneFlag, EndFlags,
       NoHandleLost, LastReadOk
<1>5. CASE ExitFileio /\ cached /\ f.open_mode \in OpenOptions
  <2>1. /\ f' = AfterClose(f, "NORMAL", SUCCESS)
        /\ last' = [op |-> "CLOSE", status |-> SUCCESS, found |-> f.open_mode]
        /\ running' = FALSE /\ cached' = cached
        /\ fault' = (fault \/ (CloseCheck(f) = CallDriver /\ f.file # "live"))
    BY <1>5 DEF ExitFileio, Record
  <2>2. f' \in Cob_file
    BY <1>1, <2>1, CloseTyped
  <2>3. CloseEffect(f, f', "NORMAL", SUCCESS)
    BY <1>1, <2>1, CloseFields, Zenon
  <2>4. TypeOK'
    <3>1. "CLOSE" \in Calls /\ SUCCESS \in 0..99
      BY DEF Calls, SUCCESS
    <3>2. last' \in [op : Calls, status : 0..99, found : OpenModes]
      BY <1>1, <2>1, <3>1
    <3> QED
      BY <2>1, <2>2, <3>2 DEF IInv, TypeOK
  <2>5. f'.open_mode \in {"CLOSED", "LOCKED"} /\ ~f'.flag_read_done
    BY <2>3 DEF CloseEffect
  <2>6. f'.file = "live" => f'.linage
    BY <2>3 DEF CloseEffect, ReallyCloses, IInv, MissingFlag
  <2>7. MissingFlag'
    BY <2>3, <2>5 DEF CloseEffect, IInv, MissingFlag
  <2>8. last'.op = "CLOSE"
    BY <2>1
  <2> QED
    BY <2>4, <2>5, <2>6, <2>7, <2>8 DEF IInv, OpenIsLive, ReadDoneFlag, EndFlags,
       NoHandleLost, OpenOptions
<1> QED
  BY <1>2, <1>3, <1>4, <1>5

(* The inductive invariant holds in every state of the connector. *)
THEOREM Invariant == Spec => []IInv
<1>1. IInv /\ [Next]_vars => IInv'
  <2>1. IInv /\ UNCHANGED vars => IInv'
    <3> SUFFICES ASSUME IInv, UNCHANGED vars PROVE IInv'
      OBVIOUS
    <3>1. f' = f /\ last' = last /\ cached' = cached /\ running' = running /\ fault' = fault
      BY DEF vars
    <3>2. TypeOK' /\ OpenIsLive' /\ MissingFlag'
      BY <3>1 DEF IInv, TypeOK, OpenIsLive, MissingFlag
    <3>3. ReadDoneFlag' /\ EndFlags'
      BY <3>1 DEF IInv, ReadDoneFlag, EndFlags, LastReadOk
    <3>4. NoHandleLost'
      BY <3>1 DEF IInv, NoHandleLost
    <3> QED
      BY <3>2, <3>3, <3>4 DEF IInv
  <2> QED
    BY <2>1, OpenInv, CloseInv, StartInv, ReadInv, UpdateInv, ExitInv DEF Next
<1> QED
  BY <1>1, InitInv, PTL DEF Spec

-----------------------------------------------------------------------------
(* The record and the variables keep their types, for every SELECT clause. *)
THEOREM TypeCorrect == Spec => []TypeOK
BY Invariant, PTL DEF IInv

(* A sequential REWRITE or DELETE reaches the driver only right after a    *)
(* READ that was answered 00 while the file was open I-O.                  *)
THEOREM UpdatesFollowReads == Spec => []UpdateFollowsRead
<1>1. IInv => UpdateFollowsRead
  <2> SUFFICES ASSUME IInv, f.access_mode = "SEQUENTIAL", UpdateCheck(f, TRUE) = CallDriver
               PROVE  LastReadOk /\ last.found = "I_O"
    BY DEF UpdateFollowsRead
  <2>1. f.open_mode = "I_O" /\ f.flag_read_done
    BY DEF UpdateCheck, CallDriver, I_O_DENIED, READ_NOT_DONE, IInv, TypeOK, Cob_file
  <2> QED
    BY <2>1 DEF IInv, ReadDoneFlag
<1> QED
  BY <1>1, Invariant, PTL

(* AT END is final in its direction: the next READ does not reach the driver. *)
THEOREM EndIsLatched == Spec => []NoReadPastEnd
<1>1. IInv => NoReadPastEnd
  <2> SUFFICES ASSUME IInv, NEW how \in {"NEXT", "PREVIOUS"},
                      last.op = ReadNames[how], last.status = END_OF_FILE
               PROVE  ReadCheck(f, how) # CallDriver
    BY DEF NoReadPastEnd
  <2>1. ReadNames["NEXT"] = "READ NEXT" /\ ReadNames["PREVIOUS"] = "READ PREVIOUS"
        /\ how \in DOMAIN ReadNames
    BY DEF ReadNames
  <2>2. f.flag_nonexistent \/ Latched(f, how)
    BY <2>1 DEF IInv, EndFlags, Latched
  <2> QED
    BY <2>1, <2>2, ReadCheckMeaning
<1> QED
  BY <1>1, Invariant, PTL

(* READ and START never position a file that was missing when it was opened. *)
THEOREM MissingFileNeverRead == Spec => []MissingNeverRead
<1>1. IInv => MissingNeverRead
  <2> SUFFICES ASSUME f.flag_nonexistent
               PROVE  Reaching \cap ({"START"} \cup {ReadNames[how] : how \in ReadForms(f)}) = {}
    BY DEF MissingNeverRead
  <2>1. \A how \in ReadForms(f) : ReadCheck(f, how) # CallDriver
    BY ReadCheckMeaning DEF ReadForms, ReadNames
  <2>2. StartCheck(f) # CallDriver
    BY DEF StartCheck, KEY_NOT_EXISTS, CallDriver
  <2>3. ReadNames["NEXT"] = "READ NEXT" /\ ReadNames["PREVIOUS"] = "READ PREVIOUS"
        /\ ReadNames["KEY"] = "READ KEY"
    BY DEF ReadNames
  <2>4. {ReadNames[how] : how \in ReadForms(f)} \subseteq {"READ NEXT", "READ PREVIOUS", "READ KEY"}
    BY <2>3 DEF ReadForms
  <2> QED
    BY <2>1, <2>2, <2>4 DEF Reaching
<1> QED
  BY <1>1, Invariant, PTL

(* A handle stays reachable, except one an OPEN refused for its LINAGE values left. *)
THEOREM HandlesKept == Spec => []NoHandleLost
BY Invariant, PTL DEF IInv

(* What the checks of WRITE, REWRITE, DELETE and CLOSE let pass. *)
LEMMA WriteCheckMeaning ==
  ASSUME f \in Cob_file, WriteCheck(f, TRUE) = CallDriver
  PROVE  /\ f.open_mode \notin {"CLOSED", "INPUT"}
         /\ f.open_mode = "I_O" => f.access_mode # "SEQUENTIAL"
BY DEF WriteCheck, OUTPUT_DENIED, CallDriver

(* When a REWRITE or DELETE comes to the driver. *)
LEMMA UpdateCheckMeaning ==
  ASSUME f \in Cob_file, UpdateCheck(f, TRUE) = CallDriver
  PROVE  /\ f.open_mode = "I_O"
         /\ f.access_mode = "SEQUENTIAL" => f.flag_read_done
BY DEF Cob_file, UpdateCheck, I_O_DENIED, READ_NOT_DONE, CallDriver

(* When a CLOSE comes to the driver. *)
LEMMA CloseCheckMeaning ==
  ASSUME f \in Cob_file, CloseCheck(f) = CallDriver
  PROVE  f.open_mode # "CLOSED" /\ ~f.flag_nonexistent
BY DEF Cob_file, CloseCheck, SUCCESS, NOT_OPEN, CallDriver

(* A driver is handed a handle that is not live only by the calls named: an *)
(* UNLOCK, or a WRITE, REWRITE or DELETE by key, of a missing OPTIONAL file, *)
(* and the calls on a file closed WITH LOCK that the checks let through.     *)
THEOREM DeadHandlesNamed == Spec => []DeadHandleCalls
<1>1. IInv => DeadHandleCalls
  <2> SUFFICES ASSUME IInv, f.file # "live", Reaching # {}
               PROVE  \/ /\ f.open_mode = "LOCKED"
                         /\ Reaching \cap {"REWRITE", "DELETE", "UNLOCK"} = {}
                      \/ /\ f.flag_nonexistent
                         /\ f.flag_optional
                         /\ f.open_mode \in {"INPUT", "I_O"}
                         /\ f.access_mode = "SEQUENTIAL" => Reaching = {"UNLOCK"}
    BY DEF DeadHandleCalls
  <2>1. f \in Cob_file /\ f.open_mode \in OpenModes
    BY DEF IInv, TypeOK, Cob_file
  <2> DEFINE Reads == {ReadNames[how] : how \in {h \in ReadForms(f) : ReadCheck(f, h) = CallDriver}}
  <2>2. Reads \subseteq {"READ NEXT", "READ PREVIOUS", "READ KEY"}
    <3>1. /\ ReadNames["NEXT"] = "READ NEXT" /\ ReadNames["PREVIOUS"] = "READ PREVIOUS"
          /\ ReadNames["KEY"] = "READ KEY"
      BY DEF ReadNames
    <3>2. ReadForms(f) \subseteq {"NEXT", "PREVIOUS", "KEY"}
      BY Zenon DEF ReadForms
    <3> QED
      BY <3>1, <3>2, Zenon
  <2>3. CASE f.open_mode = "LOCKED"
    <3>1. "UNLOCK" \notin Reaching
      BY <2>2, <2>3 DEF Reaching, OpenOptions
    <3>2. UpdateCheck(f, TRUE) # CallDriver
      BY <2>1, <2>3, UpdateCheckMeaning
    <3>3. "REWRITE" \notin Reaching /\ "DELETE" \notin Reaching
      BY <2>2, <3>2 DEF Reaching
    <3> QED
      BY <2>3, <3>1, <3>3
  <2>4. CASE f.open_mode = "CLOSED"
    <3>1. \A h \in ReadForms(f) : ReadCheck(f, h) # CallDriver
      BY <2>4 DEF ReadCheck, KEY_NOT_EXISTS, END_OF_FILE, READ_ERROR, INPUT_DENIED, CallDriver
    <3>2. StartCheck(f) # CallDriver
      BY <2>4 DEF StartCheck, KEY_NOT_EXISTS, INPUT_DENIED, CallDriver
    <3>3. CloseCheck(f) # CallDriver /\ WriteCheck(f, TRUE) # CallDriver /\ UpdateCheck(f, TRUE) # CallDriver
      BY <2>1, <2>4, CloseCheckMeaning, WriteCheckMeaning, UpdateCheckMeaning
    <3>4. Reaching = {}
      BY <2>4, <3>1, <3>2, <3>3 DEF Reaching, OpenOptions
    <3> QED
      BY <3>4
  <2>5. CASE f.open_mode \in OpenOptions
    <3>1. f.flag_nonexistent
      BY <2>5 DEF IInv, OpenIsLive
    <3>2. f.flag_optional /\ ~f.flag_read_done /\ f.open_mode \in {"INPUT", "I_O"}
      BY <2>5, <3>1 DEF IInv, MissingFlag, OpenOptions
    <3>3. ASSUME f.access_mode = "SEQUENTIAL"
          PROVE  Reaching = {"UNLOCK"}
      <4>1. \A h \in ReadForms(f) : ReadCheck(f, h) # CallDriver
        BY <3>1, ReadCheckMeaning DEF ReadForms, ReadNames
      <4>2. StartCheck(f) # CallDriver
        BY <3>1 DEF StartCheck, KEY_NOT_EXISTS, CallDriver
      <4>3. CloseCheck(f) # CallDriver /\ WriteCheck(f, TRUE) # CallDriver /\ UpdateCheck(f, TRUE) # CallDriver
        BY <2>1, <3>1, <3>2, <3>3, CloseCheckMeaning, WriteCheckMeaning, UpdateCheckMeaning
      <4> QED
        BY <2>5, <4>1, <4>2, <4>3 DEF Reaching
    <3> QED
      BY <3>1, <3>2, <3>3
  <2> QED
    BY <2>1, <2>3, <2>4, <2>5 DEF OpenModes
<1> QED
  BY <1>1, Invariant, PTL

-----------------------------------------------------------------------------
(***************************************************************************)
(* A file with a LINAGE clause goes through the same connector: the page   *)
(* that Linage keeps with it, for every set of values, every advance and   *)
(* files of any length.  The cursor is where LINAGE-COUNTER says only      *)
(* while the counter lies on the page and the values in effect are valid   *)
(* ones: PageInv adds that.                                                *)
(***************************************************************************)

PageTyped ==
  /\ items \in Items
  /\ lin \in Items
  /\ counter \in Int
  /\ needs_top \in BOOLEAN
  /\ row \in Int
  /\ base \in Int
  /\ zeros \in Int

(* the values in effect on a page that is being written *)
OnValidPage ==
  counter # 0 => /\ counter \in 1..lin.lines
                 /\ lin.top >= 0
                 /\ lin.bot >= 0

PageInv == PageTyped /\ OnValidPage /\ CursorAtCounter

(* what PageInv depends on *)
paper == <<items, lin, counter, needs_top, row, base, zeros>>

(* The first states satisfy the invariant. *)
LEMMA FirstPage == LinageInit => PageInv
<1> SUFFICES ASSUME LinageInit PROVE PageInv
  OBVIOUS
<1>1. needs_top \in BOOLEAN /\ counter = 0
  BY DEF LinageInit
<1>2. items \in Items /\ lin \in Items
  BY LinageAssumption DEF LinageInit, Items
<1>3. counter \in Int /\ row \in Int /\ base \in Int /\ zeros \in Int
  BY DEF LinageInit
<1> QED
  BY <1>1, <1>2, <1>3 DEF PageInv, PageTyped, OnValidPage, CursorAtCounter

(* A stuttering step keeps the invariant. *)
LEMMA SamePage == PageInv /\ UNCHANGED paper => PageInv'
  BY DEF paper, PageInv, PageTyped, OnValidPage, CursorAtCounter, StartLine, Newlines

(* A change of the data items of the clause keeps the invariant. *)
LEMMA ItemsChangePage == PageInv /\ ChangeItems => PageInv'
  BY LinageAssumption
  DEF ChangeItems, PageInv, PageTyped, OnValidPage, CursorAtCounter, StartLine, Newlines

(* What taking over the items leaves in lin and in the counter. *)
LEMMA TakenOver ==
  ASSUME items \in Items, TakeOver
  PROVE  /\ lin' \in Items
         /\ lin'.lines = items.lines /\ lin'.top = items.top /\ lin'.bot = items.bot
         /\ Valid => counter' = 1 /\ lin'.lines >= 1 /\ lin'.top >= 0 /\ lin'.bot >= 0
         /\ ~Valid => counter' = 0
  BY DEF TakeOver, Valid, Items

(* OPEN keeps the invariant. *)
LEMMA OpenPage == ASSUME NEW mode \in OpenOptions PROVE PageInv /\ OpenFile(mode) => PageInv'
<1> SUFFICES ASSUME PageInv, OpenFile(mode) PROVE PageInv'
  OBVIOUS
<1>1. /\ TakeOver /\ needs_top' = (Valid \/ needs_top)
      /\ row' = IF mode = "OUTPUT" THEN 0 ELSE row
      /\ base' = row' /\ zeros' = 0 /\ items' = items
  BY DEF OpenFile
<1>2. PageTyped'
  BY <1>1, TakenOver DEF PageInv, PageTyped, TakeOver
<1>3. OnValidPage'
  BY <1>1, <1>2, TakenOver DEF PageInv, PageTyped, OnValidPage, Items
<1>4. CursorAtCounter'
  <2>1. CASE Valid
    <3>1. needs_top'
      BY <1>1, <2>1
    <3>2. StartLine' = row' + Newlines(lin'.top)
      BY <3>1 DEF StartLine
    <3>3. Newlines(lin'.top) = lin'.top /\ counter' = 1
      BY <1>1, <2>1, TakenOver DEF PageInv, PageTyped, Newlines, Items
    <3> QED
      BY <1>1, <1>2, <3>2, <3>3 DEF PageTyped, CursorAtCounter, Items
  <2>2. CASE ~Valid
    BY <1>1, <2>2, TakenOver DEF PageInv, PageTyped, CursorAtCounter
  <2> QED
    BY <2>1, <2>2
<1> QED
  BY <1>2, <1>3, <1>4 DEF PageInv

(* A WRITE that stays on its page keeps the invariant. *)
LEMMA StayOnPage ==
  ASSUME NEW how \in {"BEFORE", "AFTER"}, NEW n \in Steps, NEW eop \in BOOLEAN
  PROVE  PageInv /\ WriteOnPage(how, n, eop) /\ needs_top' = FALSE => PageInv'
<1> SUFFICES ASSUME PageInv, WriteOnPage(how, n, eop), needs_top' = FALSE PROVE PageInv'
  OBVIOUS
<1>0. n \in Nat
  BY LinageAssumption
<1>1. /\ counter # 0 /\ ~(counter + n > lin.lines)
      /\ counter' = counter + n
      /\ row' = StartLine + Newlines(n - 1) + 1
      /\ zeros' = IF n = 0 THEN zeros + 1 ELSE zeros
      /\ items' = items /\ lin' = lin /\ base' = base
  BY DEF WriteOnPage, Overflow, Prints, OnPage
<1>2. StartLine \in Int
  BY DEF PageInv, PageTyped, StartLine, Newlines, Items
<1>3. PageTyped'
  <2>1. needs_top' \in BOOLEAN
    OBVIOUS
  <2>2. row' \in Int /\ counter' \in Int /\ zeros' \in Int
    BY <1>0, <1>1, <1>2 DEF PageInv, PageTyped, Newlines
  <2> QED
    BY <1>1, <2>1, <2>2 DEF PageInv, PageTyped
<1>4. OnValidPage'
  BY <1>0, <1>1 DEF PageInv, PageTyped, OnValidPage, Items
<1>5. CursorAtCounter'
  <2>0. ~needs_top'
    OBVIOUS
  <2>1. StartLine' = row'
    BY <2>0 DEF StartLine
  <2>2. StartLine = base + lin.top + counter - 1 + zeros
    BY <1>1 DEF PageInv, CursorAtCounter
  <2> QED
    BY <1>0, <1>1, <1>2, <2>1, <2>2
    DEF PageInv, PageTyped, CursorAtCounter, Newlines, Items
<1> QED
  BY <1>3, <1>4, <1>5 DEF PageInv

(* The next page begins where the rest of this one and its margin end. *)
LEMMA TurnPage ==
  ASSUME NEW how \in {"BEFORE", "AFTER"}, NEW op, NEW raised
  PROVE  PageInv /\ counter # 0 /\ NewPage(how, op, raised) /\ needs_top' = FALSE => PageInv'
<1> SUFFICES ASSUME PageInv, counter # 0, NewPage(how, op, raised), needs_top' = FALSE
             PROVE  PageInv'
  OBVIOUS
<1>1. /\ TakeOver /\ base' = base + lin.top + lin.lines + lin.bot
      /\ items' = items /\ zeros' = zeros
  BY DEF NewPage
<1>2. StartLine \in Int /\ RestOfPage = lin.lines - counter + lin.bot
  BY DEF PageInv, PageTyped, OnValidPage, StartLine, RestOfPage, Newlines, Items
<1>3. Valid => row' = StartLine + (lin.lines - counter + lin.bot + items.top) + 1
  <2>1. Valid => row' = StartLine + (RestOfPage + Newlines(items.top)) + 1
    BY DEF NewPage, Prints
  <2>2. Valid => Newlines(items.top) = items.top
    BY DEF Valid, Newlines, PageInv, PageTyped, Items
  <2> QED
    BY <1>2, <2>1, <2>2 DEF PageInv, PageTyped, Items
<1>4. row' \in Int
  <2>1. CASE Valid
    BY <1>2, <1>3, <2>1 DEF PageInv, PageTyped, Items
  <2>2. CASE ~Valid
    BY <1>2, <2>2 DEF NewPage, PrintFails, PageInv, PageTyped, Items
  <2> QED
    BY <2>1, <2>2
<1>5. PageTyped'
  <2>1. counter' \in Int
    BY <1>1 DEF TakeOver
  <2>2. needs_top' \in BOOLEAN
    OBVIOUS
  <2>3. base' \in Int /\ lin' \in Items
    BY <1>1, TakenOver DEF PageInv, PageTyped, Items
  <2> QED
    BY <1>1, <1>4, <2>1, <2>2, <2>3 DEF PageInv, PageTyped
<1>6. OnValidPage'
  BY <1>1, <1>5, TakenOver DEF PageInv, PageTyped, OnValidPage, Items
<1>7. CursorAtCounter'
  <2>0. ~needs_top'
    OBVIOUS
  <2>1. StartLine' = row'
    BY <2>0 DEF StartLine
  <2>2. StartLine = base + lin.top + counter - 1 + zeros
    BY DEF PageInv, CursorAtCounter
  <2>3. Valid => StartLine' = base' + lin'.top + counter' - 1 + zeros'
    BY <1>1, <1>3, <2>1, <2>2, TakenOver DEF PageInv, PageTyped, Items
  <2> QED
    BY <1>1, <2>3, TakenOver DEF PageInv, PageTyped, CursorAtCounter
<1> QED
  BY <1>5, <1>6, <1>7 DEF PageInv

(* WRITE keeps the invariant. *)
LEMMA WritesPage == PageInv /\ WriteLines => PageInv'
<1> SUFFICES ASSUME PageInv, WriteLines PROVE PageInv'
  OBVIOUS
<1>1. needs_top' = FALSE
  BY DEF WriteLines
<1>2. PICK how \in {"BEFORE", "AFTER"} :
        \/ \E n \in Steps, eop \in BOOLEAN :
             WriteOnPage(how, n, eop) \/ WriteOverflow(how, n, eop)
        \/ WritePage(how)
        \/ WriteDead(how)
  BY DEF WriteLines
<1>3. CASE \E n \in Steps, eop \in BOOLEAN : WriteOnPage(how, n, eop)
  BY <1>1, <1>3, StayOnPage
<1>4. CASE \E n \in Steps, eop \in BOOLEAN : WriteOverflow(how, n, eop)
  <2>1. counter # 0 /\ \E raised : NewPage(how, "WRITE", raised)
    BY <1>4 DEF WriteOverflow
  <2> QED
    BY <1>1, <2>1, TurnPage
<1>5. CASE WritePage(how)
  BY <1>1, <1>5, TurnPage DEF WritePage
<1>6. CASE WriteDead(how)
  <2>1. counter = 0 /\ UNCHANGED <<items, lin, counter, base, zeros>>
    BY <1>6 DEF WriteDead
  <2>2. row' \in Int
    BY <1>6 DEF WriteDead, PrintFails, StartLine, Newlines, PageInv, PageTyped, Items
  <2> QED
    BY <1>1, <2>1, <2>2 DEF PageInv, PageTyped, OnValidPage, CursorAtCounter
<1> QED
  BY <1>2, <1>3, <1>4, <1>5, <1>6

(* Every step keeps the invariant. *)
LEMMA StepsPage == PageInv /\ [LinageNext]_linage_vars => PageInv'
<1> SUFFICES ASSUME PageInv, [LinageNext]_linage_vars PROVE PageInv'
  OBVIOUS
<1>1. CASE ChangeItems
  BY <1>1, ItemsChangePage
<1>2. CASE \E mode \in OpenOptions : OpenFile(mode)
  BY <1>2, OpenPage
<1>3. CASE WriteLines
  BY <1>3, WritesPage
<1>4. CASE \/ \E mode \in OpenOptions : Refused("OPEN", OpenCheck(print_file, mode, FALSE))
           \/ CloseFile \/ Refused("CLOSE", CloseCheck(print_file))
           \/ Refused("WRITE", WriteCheck(print_file, TRUE)) \/ WriteOther
  <2>1. UNCHANGED paper
    BY <1>4 DEF Refused, CloseFile, WriteOther, paper
  <2> QED
    BY <2>1, SamePage
<1>5. CASE UNCHANGED linage_vars
  <2>1. UNCHANGED paper
    BY <1>5 DEF linage_vars, paper
  <2> QED
    BY <2>1, SamePage
<1> QED
  BY <1>1, <1>2, <1>3, <1>4, <1>5 DEF LinageNext

(***************************************************************************)
(* LINAGE-COUNTER names the line on which the file is positioned, whatever *)
(* the values of the clause become and however long the file gets          *)
(* (cob_linage_write_opt, lineseq_write).                                  *)
(***************************************************************************)
THEOREM CounterIsCursor == LinageSpec => []CursorAtCounter
<1>1. LinageSpec => []PageInv
  BY FirstPage, StepsPage, PTL DEF LinageSpec
<1>2. PageInv => CursorAtCounter
  BY DEF PageInv
<1> QED
  BY <1>1, <1>2, PTL

(***************************************************************************)
(* While nothing has advanced by 0 lines, every record that is written     *)
(* BEFORE ADVANCING stands in the body of a page, never in a margin.       *)
(***************************************************************************)
THEOREM RecordsStandInBody == LinageSpec => RecordInBody
<1> DEFINE InBody ==
      \A n \in Steps, eop \in BOOLEAN :
        zeros = 0 /\ (\/ WriteOnPage("BEFORE", n, eop)
                      \/ WriteOverflow("BEFORE", n, eop)
                      \/ WritePage("BEFORE"))
          => printed' - (base + lin.top) \in 0..(lin.lines - 1)
<1>1. LinageSpec => []PageInv
  BY FirstPage, StepsPage, PTL DEF LinageSpec
<1>2. PageInv => InBody
  <2> SUFFICES ASSUME PageInv, NEW n \in Steps, NEW eop \in BOOLEAN, zeros = 0,
                      \/ WriteOnPage("BEFORE", n, eop)
                      \/ WriteOverflow("BEFORE", n, eop)
                      \/ WritePage("BEFORE")
               PROVE  printed' - (base + lin.top) \in 0..(lin.lines - 1)
    BY DEF InBody
  <2>1. counter # 0 /\ printed' = StartLine
    BY DEF WriteOnPage, WriteOverflow, WritePage, NewPage, Prints, PrintFails
  <2>2. StartLine = base + lin.top + counter - 1
    BY <2>1 DEF PageInv, PageTyped, CursorAtCounter, Items
  <2> QED
    BY <2>1, <2>2 DEF PageInv, PageTyped, OnValidPage, Items
<1>3. PageInv /\ [LinageNext]_linage_vars => [InBody]_linage_vars
  BY <1>2
<1> QED
  BY <1>1, <1>2, PTL DEF LinageSpec, RecordInBody

(***************************************************************************)
(* A WRITE with AT END-OF-PAGE that takes the counter back to the start of *)
(* a page is answered 52 or with an error: no page is filled in silence,   *)
(* with a footing or without one and whatever the values of the next page. *)
(***************************************************************************)
THEOREM PagesAreReported == LinageSpec => EndOfPageTold
<1> DEFINE Told ==
      \A how \in {"BEFORE", "AFTER"}, n \in Steps :
        WriteOnPage(how, n, TRUE) \/ WriteOverflow(how, n, TRUE)
          => counter' > counter \/ n = 0 \/ told'.status \in {PAGE_EOP, LINAGE_ERROR}
<1>1. LinageSpec => []PageInv
  BY FirstPage, StepsPage, PTL DEF LinageSpec
<1>2. PageInv => Told
  <2> SUFFICES ASSUME PageInv, NEW how \in {"BEFORE", "AFTER"}, NEW n \in Steps,
                      WriteOnPage(how, n, TRUE) \/ WriteOverflow(how, n, TRUE)
               PROVE  counter' > counter \/ n = 0 \/ told'.status \in {PAGE_EOP, LINAGE_ERROR}
    BY DEF Told
  <2>1. CASE WriteOnPage(how, n, TRUE)
    <3>1. n \in Nat /\ counter \in Int /\ counter' = counter + n
      BY <2>1, LinageAssumption DEF WriteOnPage, PageInv, PageTyped
    <3> QED
      BY <3>1
  <2>2. CASE WriteOverflow(how, n, TRUE)
    <3>1. Raised(n) /\ NewPage(how, "WRITE", TRUE /\ Raised(n))
      BY <2>2 DEF WriteOverflow, Raised
    <3>2. \/ Reported("WRITE", TRUE /\ Raised(n))
          \/ Failed("WRITE", TRUE /\ Raised(n))
      BY <3>1 DEF NewPage
    <3> QED
      BY <3>1, <3>2 DEF Reported, Failed, Answer
  <2> QED
    BY <2>1, <2>2
<1>3. PageInv /\ [LinageNext]_linage_vars => [Told]_linage_vars
  BY <1>2
<1> QED
  BY <1>1, <1>3, PTL DEF LinageSpec, EndOfPageTold
=============================================================================
