---------------------------- MODULE RelativeFile -----------------------------
(***************************************************************************)
(* A RELATIVE file: the driver relative_* of libcob/fileio.c over a file   *)
(* of slots, under the checks of the public interface (Connector).         *)
(*                                                                         *)
(* A slot is a header, the size of the record or 0, and the record.  One   *)
(* stdio position serves every statement: it lies before a slot or, when   *)
(* a START has given up after reading a header, inside one.  A header read *)
(* from there is a piece of a record; the model stops at that point        *)
(* (adrift).                                                               *)
(*                                                                         *)
(* The file exists, and nobody else writes it.  The RELATIVE KEY is a      *)
(* DISPLAY field that holds 0..KeyMax; the file has at most N slots.       *)
(***************************************************************************)
EXTENDS Connector, Sequences, FiniteSets, FiniteSetsExt

CONSTANTS
  N,          \* bound on the slots of the file
  KeyMax,     \* the largest value of the RELATIVE KEY field
  Records,    \* the records a program writes
  NoRecord    \* a slot whose header is 0

ASSUME RelativeAssumption ==
  N \in Nat \ {0} /\ KeyMax \in Nat \ {0} /\ NoRecord \notin Records

VARIABLES
  f,          \* the cob_file record
  keyed,      \* the SELECT has a RELATIVE KEY
  slots,      \* the file
  pos,        \* the stdio position: before slot pos.slot, or inside it
  key,        \* the RELATIVE KEY field
  recno,      \* the slot of the record that the last successful READ gave
  scan,       \* nothing but READ NEXT and sequential REWRITE since OPEN or START
  seen,       \* the slots delivered or passed by since then
  last,       \* the last call: its name and its status
  state       \* "running", "adrift", "hung" in START, or "crashed"

vars == <<f, keyed, slots, pos, key, recno, scan, seen, last, state>>
file == <<f, keyed, slots, pos, key>>

Conditions == {"EQ", "LT", "LE", "GT", "GE", "NE"}
Occupied   == {i \in DOMAIN slots : slots[i] # NoRecord}
Stored(i)  == i % (KeyMax + 1)         \* cob_set_int of the key field truncates
Before(i)  == [slot |-> i, mid |-> FALSE]
Inside(i)  == [slot |-> i, mid |-> TRUE]
Padded(s, n) == s \o [i \in 1..(n - Len(s)) |-> NoRecord]

Init ==
  /\ \E a \in AccessModes :
       f = NewFile([organization |-> "RELATIVE", access_mode |-> a,
                    flag_optional |-> FALSE, special |-> 0, linage |-> FALSE])
  /\ keyed \in BOOLEAN
  /\ ~keyed => f.access_mode = "SEQUENTIAL"
  /\ slots = <<>>
  /\ pos = Before(1)
  /\ key = 0
  /\ recno = 0
  /\ scan = FALSE
  /\ seen = {}
  /\ last = [op |-> "none", status |-> SUCCESS]
  /\ state = "running"

Answer(op, status) ==
  /\ state = "running"
  /\ last' = [op |-> op, status |-> status]
  /\ UNCHANGED <<keyed, state>>

Refused(op, status, g) ==
  /\ status # CallDriver
  /\ f' = g
  /\ Answer(op, status)
  /\ UNCHANGED <<slots, pos, key, recno, scan, seen>>

(* The program moves a value to its RELATIVE KEY. *)
MoveToKey ==
  /\ state = "running"
  /\ keyed
  /\ key' \in 0..KeyMax
  /\ UNCHANGED <<f, keyed, slots, pos, recno, scan, seen, last, state>>

(* cob_open and cob_file_open: OUTPUT truncates, EXTEND goes to the end. *)
Open(mode) ==
  \/ Refused("OPEN", OpenCheck(f, mode, FALSE),
             IF f.open_mode = "CLOSED" THEN BeginOpen(f) ELSE Touch(f))
  \/ /\ OpenCheck(f, mode, FALSE) = CallDriver
     /\ f' = AfterOpen(f, mode, "ok")
     /\ slots' = IF mode = "OUTPUT" THEN <<>> ELSE slots
     /\ pos' = Before(IF mode = "EXTEND" THEN Len(slots) + 1 ELSE 1)
     /\ recno' = 0
     /\ scan' = (mode # "EXTEND")
     /\ seen' = {}
     /\ Answer("OPEN", SUCCESS)
     /\ UNCHANGED key

(* CLOSE without option; a closed connector answers by itself. *)
Close ==
  \/ Refused("CLOSE", CloseCheck(f), Touch(f))
  \/ /\ CloseCheck(f) = CallDriver
     /\ f' = AfterClose(f, "NORMAL", SUCCESS)
     /\ scan' = FALSE
     /\ Answer("CLOSE", SUCCESS)
     /\ UNCHANGED <<slots, pos, key, recno, seen>>

(***************************************************************************)
(* START.  Probe is the slot the loop of relative_start looks at first;    *)
(* LT and LE go down, GT and GE go up, EQ gives up at an empty slot, and   *)
(* NE has no case in the switch: the loop reads the same slot for ever.    *)
(***************************************************************************)
(* fault: START GREATER looks at the key itself first *)
Probe_GreaterOrEqual(cond, k) == IF cond = "LT" THEN k - 1 ELSE k

Probe(cond, k) == CASE cond = "LT" -> k - 1
                    [] cond = "GT" -> k + 1
                    [] OTHER       -> k

StartHit(cond, p) ==
  CASE cond \in {"EQ", "NE"} -> Occupied \cap {p}
    [] cond \in {"LT", "LE"} -> {i \in Occupied : i <= p}
    [] cond \in {"GT", "GE"} -> {i \in Occupied : i >= p}

Nearest(cond, S) == IF cond \in {"LT", "LE"} THEN Max(S) ELSE Min(S)

(* where the position is left by a START that finds nothing *)
StartMiss(cond, p) ==
  CASE p < 1                 -> pos
    [] p > Len(slots)        -> Before(p)
    [] p \in 1..Len(slots)   ->
         CASE cond \in {"EQ", "NE"} -> Inside(p)
           [] cond \in {"LT", "LE"} -> Inside(1)
           [] cond \in {"GT", "GE"} -> Before(Len(slots) + 1)

(* fault: START leaves the position behind the header it has read *)
StartFound_AfterHeader(cond) ==
  LET p == Probe(cond, key)
      h == Nearest(cond, StartHit(cond, p))
  IN  /\ p \in 1..Len(slots)
      /\ StartHit(cond, p) # {}
      /\ f' = AfterStart(f, SUCCESS)
      /\ key' = Stored(h)
      /\ pos' = Inside(h)
      /\ scan' = TRUE
      /\ seen' = {i \in Occupied : i < h}
      /\ Answer("START", SUCCESS)
      /\ UNCHANGED <<slots, recno>>

StartFound(cond) ==
  LET p == Probe(cond, key)
      h == Nearest(cond, StartHit(cond, p))
  IN  /\ p \in 1..Len(slots)
      /\ StartHit(cond, p) # {}
      /\ f' = AfterStart(f, SUCCESS)
      /\ key' = Stored(h)
      /\ pos' = Before(h)
      /\ scan' = TRUE
      /\ seen' = {i \in Occupied : i < h}
      /\ Answer("START", SUCCESS)
      /\ UNCHANGED <<slots, recno>>

StartNotFound(cond) ==
  LET p == Probe(cond, key)
  IN  /\ ~(p \in 1..Len(slots) /\ StartHit(cond, p) # {})
      /\ ~(p \in 1..Len(slots) /\ cond = "NE")
      /\ f' = AfterStart(f, KEY_NOT_EXISTS)
      /\ pos' = StartMiss(cond, p)
      /\ scan' = FALSE
      /\ Answer("START", KEY_NOT_EXISTS)
      /\ UNCHANGED <<slots, key, recno, seen>>

StartHangs ==
  /\ state = "running"
  /\ Probe("NE", key) \in DOMAIN slots \ Occupied
  /\ state' = "hung"
  /\ UNCHANGED <<file, recno, scan, seen, last>>

(* A START names the key field; without one it follows a null pointer. *)
Start(cond) ==
  \/ Refused("START", StartCheck(f), BeginStart(f))
  \/ /\ StartCheck(f) = CallDriver
     /\ keyed
     /\ \/ StartFound(cond)
        \/ StartNotFound(cond)
        \/ cond = "NE" /\ StartHangs

(***************************************************************************)
(* READ by key, relative_read.                                             *)
(***************************************************************************)
ReadKey ==
  /\ f.access_mode # "SEQUENTIAL"
  /\ \/ Refused("READ KEY", ReadCheck(f, "KEY"), RefusedRead(f))
     \/ /\ ReadCheck(f, "KEY") = CallDriver
        /\ scan' = FALSE
        /\ IF key \in Occupied
             THEN /\ f' = AfterRead(f, "KEY", SUCCESS)
                  /\ pos' = Before(key + 1)
                  /\ recno' = key
                  /\ Answer("READ KEY", SUCCESS)
             ELSE /\ f' = AfterRead(f, "KEY", KEY_NOT_EXISTS)
                  /\ pos' = IF key = 0 THEN pos ELSE Before(key)
                  /\ Answer("READ KEY", KEY_NOT_EXISTS)
                  /\ UNCHANGED recno
        /\ UNCHANGED <<slots, key, seen>>

(***************************************************************************)
(* READ NEXT, relative_read_next: the slots from the position on are read  *)
(* until one is occupied; the key field is set at every slot on the way.   *)
(***************************************************************************)
Ahead   == {i \in DOMAIN slots : i >= pos.slot}
Hits    == Ahead \cap Occupied
First   == f.flag_first_read # 0
(* the slots whose number does not fit the key field *)
Too_big == {i \in Ahead : keyed /\ i > KeyMax /\ ~(First /\ i = pos.slot)}

(* the key field after the header of slot i: the first slot read after an  *)
(* OPEN or a START is taken for the first of the file                      *)
KeyAt(i) == IF ~keyed THEN key ELSE IF First /\ i = pos.slot THEN 1 ELSE i

Examined(g) == IF keyed /\ Ahead # {} THEN [g EXCEPT !.flag_first_read = 0] ELSE g

NextFound ==
  LET h == Min(Hits)
  IN  /\ Hits # {}
      /\ \A i \in Too_big : h < i
      /\ f' = AfterRead(f, "NEXT", SUCCESS)
      /\ pos' = Before(h + 1)
      /\ key' = KeyAt(h)
      /\ recno' = h
      /\ seen' = seen \cup {h}
      /\ Answer("READ NEXT", SUCCESS)
      /\ UNCHANGED <<slots, scan>>

NextOutOfRange ==
  LET b == Min(Too_big)
  IN  /\ Too_big # {}
      /\ \A i \in Hits : b <= i
      /\ f' = Examined(AfterRead(f, "NEXT", OUT_OF_KEY_RANGE))
      /\ pos' = Before(b)
      /\ key' = 0
      /\ Answer("READ NEXT", OUT_OF_KEY_RANGE)
      /\ UNCHANGED <<slots, recno, scan, seen>>

NextAtEnd ==
  /\ Hits = {}
  /\ Too_big = {}
  /\ f' = Examined(AfterRead(f, "NEXT", END_OF_FILE))
  /\ pos' = Before(IF Ahead = {} THEN pos.slot ELSE Len(slots) + 1)
  /\ key' = IF Ahead = {} THEN key ELSE KeyAt(Len(slots))
  /\ Answer("READ NEXT", END_OF_FILE)
  /\ UNCHANGED <<slots, recno, scan, seen>>

(* the header is read from the middle of a slot *)
Drift ==
  /\ state = "running"
  /\ pos.mid
  /\ state' = "adrift"
  /\ UNCHANGED <<file, recno, scan, seen, last>>

ReadNext ==
  \/ Refused("READ NEXT", ReadCheck(f, "NEXT"), RefusedRead(f))
  \/ /\ ReadCheck(f, "NEXT") = CallDriver
     /\ \/ ~pos.mid /\ (NextFound \/ NextOutOfRange \/ NextAtEnd)
        \/ Drift

(***************************************************************************)
(* WRITE, relative_write: at the slot of the key field, or, in sequential  *)
(* access, at the position (which the open modes allowed keep at the end). *)
(***************************************************************************)
(* fault: WRITE does not look whether the slot is taken *)
WriteAt_Replaces(i, r) ==
  /\ i <= N
  /\ f' = Touch(f)
  /\ scan' = FALSE
  /\ slots' = [Padded(slots, i) EXCEPT ![i] = r]
  /\ pos' = Before(i + 1)
  /\ Answer("WRITE", SUCCESS)
  /\ UNCHANGED <<recno, seen>>

WriteAt(i, r) ==
  /\ i <= N
  /\ f' = Touch(f)
  /\ scan' = FALSE
  /\ IF i \in Occupied
       THEN /\ pos' = Before(i)
            /\ Answer("WRITE", KEY_EXISTS)
            /\ UNCHANGED slots
       ELSE /\ slots' = [Padded(slots, i) EXCEPT ![i] = r]
            /\ pos' = Before(i + 1)
            /\ Answer("WRITE", SUCCESS)
  /\ UNCHANGED <<recno, seen>>

Write(r) ==
  \/ Refused("WRITE", WriteCheck(f, TRUE), Touch(f))
  \/ /\ WriteCheck(f, TRUE) = CallDriver
     /\ f.access_mode # "SEQUENTIAL"
     /\ IF key = 0
          THEN /\ f' = Touch(f)
               /\ Answer("WRITE", KEY_INVALID)
               /\ UNCHANGED <<slots, pos, recno, scan, seen>>
          ELSE WriteAt(key, r)
     /\ UNCHANGED key
  \/ /\ WriteCheck(f, TRUE) = CallDriver
     /\ f.access_mode = "SEQUENTIAL"
     /\ WriteAt(pos.slot, r)
     /\ key' = IF keyed /\ pos.slot \notin Occupied THEN Stored(pos.slot) ELSE key

(***************************************************************************)
(* REWRITE, relative_rewrite.  Neither form writes the header: a record    *)
(* put into an empty slot stays invisible.                                 *)
(***************************************************************************)
PutRecord(i, r) == slots' = IF i \in Occupied THEN [slots EXCEPT ![i] = r] ELSE slots

Rewrite(r) ==
  \/ Refused("REWRITE", UpdateCheck(f, TRUE), Touch(f))
  \/ /\ UpdateCheck(f, TRUE) = CallDriver
     /\ f.access_mode = "SEQUENTIAL"
     /\ f' = Touch(f)
     /\ PutRecord(pos.slot - 1, r)
     /\ Answer("REWRITE", SUCCESS)
     /\ UNCHANGED <<pos, key, recno, scan, seen>>
  \/ /\ UpdateCheck(f, TRUE) = CallDriver
     /\ f.access_mode # "SEQUENTIAL"
     /\ f' = Touch(f)
     /\ scan' = FALSE
     /\ IF key \in DOMAIN slots
          THEN /\ PutRecord(key, r)
               /\ pos' = Before(key + 1)
               /\ Answer("REWRITE", SUCCESS)
          ELSE /\ pos' = IF key = 0 THEN pos ELSE Before(key)
               /\ Answer("REWRITE", KEY_NOT_EXISTS)
               /\ UNCHANGED slots
     /\ UNCHANGED <<key, recno, seen>>

(* DELETE, relative_delete: by the key field in every access mode *)
Delete ==
  \/ Refused("DELETE", UpdateCheck(f, TRUE), Touch(f))
  \/ /\ UpdateCheck(f, TRUE) = CallDriver
     /\ keyed
     /\ f' = Touch(f)
     /\ scan' = FALSE
     /\ IF key \in DOMAIN slots
          THEN /\ slots' = [slots EXCEPT ![key] = NoRecord]
               /\ pos' = Before(key + 1)
               /\ Answer("DELETE", SUCCESS)
          ELSE /\ pos' = IF key = 0 THEN pos ELSE Before(key)
               /\ Answer("DELETE", KEY_NOT_EXISTS)
               /\ UNCHANGED slots
     /\ UNCHANGED <<key, recno, seen>>

(* START and DELETE take the key field of a SELECT that has none. *)
NullKey ==
  /\ state = "running"
  /\ ~keyed
  /\ StartCheck(f) = CallDriver \/ UpdateCheck(f, TRUE) = CallDriver
  /\ state' = "crashed"
  /\ UNCHANGED <<file, recno, scan, seen, last>>

Next == \/ MoveToKey \/ Close \/ ReadKey \/ ReadNext \/ Delete \/ NullKey
        \/ \E mode \in OpenOptions : Open(mode)
        \/ \E cond \in Conditions : Start(cond)
        \/ \E r \in Records : Write(r) \/ Rewrite(r)

Spec == Init /\ [][Next]_vars

-----------------------------------------------------------------------------
(***************************************************************************)
(* Properties.                                                             *)
(***************************************************************************)
TypeOK ==
  /\ f \in Cob_file
  /\ keyed \in BOOLEAN
  /\ slots \in UNION {[1..n -> Records \cup {NoRecord}] : n \in 0..N}
  /\ pos \in [slot : 1..(N + KeyMax + 1), mid : BOOLEAN]
  /\ key \in 0..KeyMax
  /\ recno \in 0..N
  /\ scan \in BOOLEAN
  /\ seen \subseteq 1..N
  /\ last \in [op : {"none", "OPEN", "CLOSE", "START", "READ KEY", "READ NEXT",
                     "WRITE", "REWRITE", "DELETE"}, status : 0..99]
  /\ state \in {"running", "adrift", "hung", "crashed"}

(* relative_rewrite steps back over one record from wherever the file is   *)
(* positioned.  In sequential access, whenever a REWRITE can reach it,     *)
(* that record is the one the last READ delivered, and it is still there.  *)
RewriteTarget ==
  (f.access_mode = "SEQUENTIAL" /\ UpdateCheck(f, TRUE) = CallDriver)
    => recno \in Occupied /\ pos = Before(recno + 1)

(* From an OPEN or a successful START on, relative_read_next skips no      *)
(* record and delivers none twice: at every moment the records delivered,  *)
(* or passed over by the START, are those below the position - through     *)
(* sequential REWRITEs, a key field too small for a slot, and the end of   *)
(* the file.                                                               *)
ScanIsExact == scan => ~pos.mid /\ seen = {i \in Occupied : i < pos.slot}

(* the records a START asks for, by the meaning of its condition *)
Wanted(cond) == {i \in Occupied : CASE cond = "EQ" -> i = key
                                     [] cond = "LT" -> i < key
                                     [] cond = "LE" -> i <= key
                                     [] cond = "GT" -> i > key
                                     [] cond = "GE" -> i >= key
                                     [] cond = "NE" -> i # key}

(* relative_start against that meaning, for the conditions its loop        *)
(* handles: it stops at the nearest wanted record and moves its number to  *)
(* the key field; when the first slot it looks at lies in the file it      *)
(* gives up only if no record is wanted.                                   *)
StartIsExact ==
  [][\A cond \in Conditions \ {"NE"} :
       /\ Start(cond) /\ last'.status = SUCCESS /\ last'.op = "START"
            => /\ pos'.slot \in Wanted(cond)
               /\ key' = Stored(pos'.slot)
               /\ \A i \in Wanted(cond) :
                    IF cond \in {"LT", "LE"} THEN i <= pos'.slot ELSE i >= pos'.slot
       /\ StartNotFound(cond) /\ Probe(cond, key) \in DOMAIN slots
            => Wanted(cond) = {}]_vars

(* The record store that the slots implement: contents change only by the  *)
(* WRITE, REWRITE, DELETE or OPEN OUTPUT that reports success, one record  *)
(* at a time, and a WRITE never replaces a record.                         *)
Store == INSTANCE RecordStore WITH
           Keys     <- 1..N,
           contents <- [i \in 1..N |-> IF i \in Occupied THEN slots[i] ELSE NoRecord],
           reply    <- [op |-> last.op, done |-> last.status = SUCCESS]
ImplementsStore == Store!Spec

(* Every READ NEXT that delivers a record moves its number to the key      *)
(* field, except the first after a START, or after an OPEN that another    *)
(* statement followed: while flag_first_read stands the code moves 1,      *)
(* whatever record it reads.                                               *)
KeyNamesRecord ==
  [][keyed /\ NextFound /\ (f.flag_first_read = 0 \/ (f.flag_first_read = 2 /\ scan))
       => key' = recno']_vars

(* The position is kept through every order of statements: a REWRITE finds *)
(* the record read, a scan gives every record once.                        *)
PositionSound == TypeOK /\ RewriteTarget /\ ScanIsExact

(* What a START finds and a READ NEXT has read is what the key field says. *)
ReportsExact == StartIsExact /\ KeyNamesRecord
=============================================================================
