------------------------------ MODULE Connector ------------------------------
(***************************************************************************)
(* The file connector: the cob_file record of libcob/common.h and the part *)
(* of every public I-O routine of libcob/fileio.c (cob_open, cob_close,    *)
(* cob_start, cob_read, cob_write, cob_rewrite, cob_delete) that is the    *)
(* same for the four organizations - the checks made before the driver of  *)
(* the organization is called and what its answer does to the record.      *)
(*                                                                         *)
(* The module has no variables.  FileConnector runs it against a driver    *)
(* that may answer anything; RelativeFile and Linage run it against the    *)
(* drivers of the code.                                                    *)
(***************************************************************************)
EXTENDS Naturals

Organizations == {"SEQUENTIAL", "LINE_SEQUENTIAL", "RELATIVE", "INDEXED"}
AccessModes   == {"SEQUENTIAL", "DYNAMIC", "RANDOM"}
OpenOptions   == {"INPUT", "OUTPUT", "I_O", "EXTEND"}
OpenModes     == OpenOptions \cup {"CLOSED", "LOCKED"}
CloseOptions  == {"NORMAL", "LOCK", "NO_REWIND", "UNIT"}

(* I-O status, COB_STATUS_* *)
SUCCESS            == 0
SUCCESS_DUPLICATE  == 2
SUCCESS_INCOMPLETE == 4
SUCCESS_OPTIONAL   == 5
SUCCESS_NO_UNIT    == 7
END_OF_FILE        == 10
OUT_OF_KEY_RANGE   == 14
KEY_INVALID        == 21
KEY_EXISTS         == 22
KEY_NOT_EXISTS     == 23
PERMANENT_ERROR    == 30
NOT_EXISTS         == 35
PERMISSION_DENIED  == 37
CLOSED_WITH_LOCK   == 38
ALREADY_OPEN       == 41
NOT_OPEN           == 42
READ_NOT_DONE      == 43
RECORD_OVERFLOW    == 44
READ_ERROR         == 46
INPUT_DENIED       == 47
OUTPUT_DENIED      == 48
I_O_DENIED         == 49
RECORD_LOCKED      == 51
PAGE_EOP           == 52
LINAGE_ERROR       == 57
FILE_SHARING       == 61
NOT_AVAILABLE      == 91

(* what the driver's open may return besides 0: an errno or a status *)
OpenAnswers == {"ok", "ENOENT", "EACCES", "EAGAIN", "LINAGE_INVALID", "other"}

(* The routine does not answer by itself: the driver is called. *)
CallDriver == 100

(* The part of cob_file the public interface reads and writes.  `file' is  *)
(* the state of the handle (FILE or indexed_file) the record holds: never   *)
(* set, live, or already given back by a close.                            *)
Cob_file ==
  [ organization : Organizations, access_mode : AccessModes,
    flag_optional : BOOLEAN, special : 0..2, linage : BOOLEAN,
    open_mode : OpenModes, file : {"null", "live", "dead"},
    flag_nonexistent : BOOLEAN, flag_end_of_file : BOOLEAN,
    flag_begin_of_file : BOOLEAN, flag_first_read : 0..2,
    flag_read_done : BOOLEAN ]

(* The SELECT and FD clauses of a file, as far as the compiler restricts   *)
(* them: ASSIGN TO KEYBOARD (special = 1) or DISPLAY (2) and the LINAGE     *)
(* clause make the file LINE SEQUENTIAL.  Any ACCESS MODE is accepted with  *)
(* any organization.                                                       *)
Selects ==
  { s \in [organization : Organizations, access_mode : AccessModes,
           flag_optional : BOOLEAN, special : 0..2, linage : BOOLEAN] :
      /\ s.special # 0 \/ s.linage => s.organization = "LINE_SEQUENTIAL"
      /\ s.special # 0 => ~s.linage }

(* The record as the generated program initialises it. *)
NewFile(s) ==
  [ organization |-> s.organization, access_mode |-> s.access_mode,
    flag_optional |-> s.flag_optional, special |-> s.special, linage |-> s.linage,
    open_mode |-> "CLOSED", file |-> "null",
    flag_nonexistent |-> FALSE, flag_end_of_file |-> FALSE,
    flag_begin_of_file |-> FALSE, flag_first_read |-> 0,
    flag_read_done |-> FALSE ]

(***************************************************************************)
(* What each routine answers before it calls the driver, in the order of   *)
(* its checks.  CallDriver when none of them holds.                        *)
(***************************************************************************)
OpenCheck(f, mode, missing) ==
  CASE f.open_mode = "LOCKED"                            -> CLOSED_WITH_LOCK
    [] f.open_mode \in OpenOptions                       -> ALREADY_OPEN
    [] f.open_mode = "CLOSED" /\ f.special # 0           ->
         IF mode = (IF f.special = 1 THEN "INPUT" ELSE "OUTPUT")
           THEN SUCCESS ELSE PERMANENT_ERROR
    [] f.open_mode = "CLOSED" /\ f.special = 0 /\ missing
         /\ mode # "OUTPUT" /\ ~f.flag_optional          -> NOT_EXISTS
    [] OTHER                                             -> CallDriver

CloseCheck(f) ==
  CASE f.special # 0                                     -> SUCCESS
    [] f.special = 0 /\ f.open_mode = "CLOSED"           -> NOT_OPEN
    [] f.special = 0 /\ f.open_mode # "CLOSED"
         /\ f.flag_nonexistent                           -> SUCCESS
    [] OTHER                                             -> CallDriver

(* fault: cob_start does not test flag_nonexistent *)
StartCheck_IgnoresMissing(f) ==
  IF f.open_mode \in {"CLOSED", "OUTPUT", "EXTEND"} \/ f.access_mode = "RANDOM"
    THEN INPUT_DENIED ELSE CallDriver

StartCheck(f) ==
  CASE f.flag_nonexistent                                -> KEY_NOT_EXISTS
    [] ~f.flag_nonexistent
         /\ \/ f.open_mode \in {"CLOSED", "OUTPUT", "EXTEND"}
            \/ f.access_mode = "RANDOM"                  -> INPUT_DENIED
    [] OTHER                                             -> CallDriver

(* how \in {"NEXT", "PREVIOUS", "KEY"} *)
Latched(f, how) == \/ how = "NEXT" /\ f.flag_end_of_file
                   \/ how = "PREVIOUS" /\ f.flag_begin_of_file

ReadCheck(f, how) ==
  CASE f.flag_nonexistent                                ->
         IF f.flag_first_read = 0 THEN KEY_NOT_EXISTS ELSE END_OF_FILE
    [] ~f.flag_nonexistent /\ Latched(f, how)            -> READ_ERROR
    [] ~f.flag_nonexistent /\ ~Latched(f, how)
         /\ f.open_mode \in {"CLOSED", "OUTPUT", "EXTEND"} -> INPUT_DENIED
    [] OTHER                                             -> CallDriver

(* fits: record_min <= size of the record to write <= record_max *)
(* fault: cob_write does not test COB_OPEN_CLOSED *)
WriteCheck_WhenClosed(f, fits) ==
  CASE f.open_mode \in {"INPUT"} \cup
         (IF f.access_mode = "SEQUENTIAL" THEN {"I_O"} ELSE {"EXTEND"})
                                                         -> OUTPUT_DENIED
    [] OTHER -> IF fits THEN CallDriver ELSE RECORD_OVERFLOW

WriteCheck(f, fits) ==
  CASE f.open_mode \in {"CLOSED", "INPUT"} \cup
         (IF f.access_mode = "SEQUENTIAL" THEN {"I_O"} ELSE {"EXTEND"})
                                                         -> OUTPUT_DENIED
    [] OTHER -> IF fits THEN CallDriver ELSE RECORD_OVERFLOW

(* REWRITE and DELETE.  sameSize: the record has the size of the one read  *)
(* (only the SEQUENTIAL organization asks, and only for REWRITE).          *)
UpdateCheck(f, sameSize) ==
  CASE f.open_mode # "I_O"                               -> I_O_DENIED
    [] f.open_mode = "I_O" /\ f.access_mode = "SEQUENTIAL"
         /\ ~f.flag_read_done                            -> READ_NOT_DONE
    [] OTHER -> IF f.organization = "SEQUENTIAL" /\ ~sameSize
                  THEN RECORD_OVERFLOW ELSE CallDriver

(***************************************************************************)
(* What the routines do to the record.                                     *)
(***************************************************************************)
(* fault: the routine keeps flag_read_done *)
Touch_KeepsRead(f) == f

(* every routine begins by forgetting the last READ *)
Touch(f) == [f EXCEPT !.flag_read_done = FALSE]

(* cob_open, once the record is known to be closed *)
BeginOpen(f) ==
  [f EXCEPT !.flag_read_done = FALSE, !.flag_nonexistent = FALSE,
            !.flag_end_of_file = FALSE, !.flag_begin_of_file = FALSE,
            !.flag_first_read = 2]

OpenSpecial(f, mode) == [BeginOpen(f) EXCEPT !.open_mode = mode, !.file = "live"]

(* ENOENT of the driver, for INPUT and I-O of an OPTIONAL file *)
OpenNonexistent(f, mode) ==
  [BeginOpen(f) EXCEPT !.open_mode = mode, !.flag_nonexistent = TRUE,
                       !.flag_end_of_file = TRUE, !.flag_begin_of_file = TRUE]

OpenStatus(f, mode, missing, answer) ==
  CASE answer = "ok" -> IF f.flag_optional /\ missing
                          THEN SUCCESS_OPTIONAL ELSE SUCCESS
    [] answer = "ENOENT" -> IF mode \in {"EXTEND", "OUTPUT"} THEN PERMANENT_ERROR
                            ELSE IF f.flag_optional THEN SUCCESS_OPTIONAL
                            ELSE NOT_EXISTS
    [] answer = "EACCES" -> PERMISSION_DENIED
    [] answer = "EAGAIN" -> FILE_SHARING
    [] answer = "LINAGE_INVALID" -> LINAGE_ERROR
    [] answer = "other" -> PERMANENT_ERROR

(* The record after the driver's open: cob_file_open has stored the FILE*  *)
(* before it checks the LINAGE values, and leaves it open when they are    *)
(* wrong.                                                                  *)
AfterOpen(f, mode, answer) ==
  CASE answer = "ok" -> [BeginOpen(f) EXCEPT !.open_mode = mode, !.file = "live"]
    [] answer = "LINAGE_INVALID" -> [BeginOpen(f) EXCEPT !.file = "live"]
    [] answer = "ENOENT" /\ mode \in {"INPUT", "I_O"} /\ f.flag_optional
         -> OpenNonexistent(f, mode)
    [] OTHER -> BeginOpen(f)

(* The driver's close: UNIT only flushes; an INDEXED file ignores the      *)
(* option; NO REWIND closes and answers 07.                                *)
ReallyCloses(f, opt) == f.organization = "INDEXED" \/ opt # "UNIT"

CloseAnswer(f, opt) ==
  IF f.organization # "INDEXED" /\ opt \in {"NO_REWIND", "UNIT"}
    THEN SUCCESS_NO_UNIT ELSE SUCCESS

AfterClose(f, opt, answer) ==
  [Touch(f) EXCEPT
     !.file = IF ReallyCloses(f, opt) /\ ~f.flag_nonexistent THEN "dead" ELSE @,
     !.open_mode = CASE answer = SUCCESS /\ opt = "LOCK" -> "LOCKED"
                     [] answer = SUCCESS /\ opt # "LOCK" -> "CLOSED"
                     [] answer # SUCCESS ->
                          IF opt = "NO_REWIND" THEN "CLOSED" ELSE @]

BeginStart(f) == [f EXCEPT !.flag_read_done = FALSE, !.flag_first_read = 0]

AfterStart(f, answer) ==
  IF answer = SUCCESS
    THEN [BeginStart(f) EXCEPT !.flag_end_of_file = FALSE,
                               !.flag_begin_of_file = FALSE, !.flag_first_read = 1]
    ELSE BeginStart(f)

(* A refused READ of a missing OPTIONAL file uses up its one AT END. *)
RefusedRead(f) ==
  IF f.flag_nonexistent THEN [Touch(f) EXCEPT !.flag_first_read = 0] ELSE Touch(f)

(* fault: AT END is reported but not latched *)
AfterRead_NoLatch(f, how, answer) ==
  IF answer = SUCCESS
    THEN [f EXCEPT !.flag_first_read = 0, !.flag_read_done = TRUE]
    ELSE Touch(f)

AfterRead(f, how, answer) ==
  CASE answer = SUCCESS ->
         [f EXCEPT !.flag_first_read = 0, !.flag_read_done = TRUE,
                   !.flag_end_of_file = FALSE, !.flag_begin_of_file = FALSE]
    [] answer = END_OF_FILE ->
         IF how = "PREVIOUS" THEN [Touch(f) EXCEPT !.flag_begin_of_file = TRUE]
                             ELSE [Touch(f) EXCEPT !.flag_end_of_file = TRUE]
    [] OTHER -> Touch(f)
=============================================================================
