---------------------------- MODULE FileConnector ----------------------------
(***************************************************************************)
(* One file connector of a COBOL program against a driver that may give    *)
(* any answer the drivers of its organization can give, in any order of    *)
(* OPEN, CLOSE, START, READ, WRITE, REWRITE, DELETE and UNLOCK calls.      *)
(*                                                                         *)
(* A driver that is handed a record whose handle is null stops the         *)
(* process; one that is handed a handle already closed may stop it or      *)
(* answer anything.                                                        *)
(***************************************************************************)
EXTENDS Connector

VARIABLES
  f,         \* the cob_file record
  cached,    \* cob_cache_file has put it in file_cache
  last,      \* the last call: its name, its status, the open mode it found
  running,   \* the run unit has neither ended nor been stopped by the system
  fault      \* a driver has been given a handle that is not live

vars == <<f, cached, last, running, fault>>

ReadNames == [NEXT |-> "READ NEXT", PREVIOUS |-> "READ PREVIOUS", KEY |-> "READ KEY"]
Calls == {"none", "OPEN", "CLOSE", "START", "WRITE", "REWRITE", "DELETE"}
           \cup {ReadNames[how] : how \in DOMAIN ReadNames}

(***************************************************************************)
(* The drivers: what each organization may answer.                         *)
(***************************************************************************)
StartAnswers(org) == IF org = "INDEXED" THEN {0, 23, 51} ELSE {0, 23}

ReadAnswers(org, how) ==
  CASE org = "SEQUENTIAL"      -> {0, 4, 10, 30}
    [] org = "LINE_SEQUENTIAL" -> {0, 10, 30}
    [] org = "RELATIVE"        -> IF how = "KEY" THEN {0, 23, 30} ELSE {0, 10, 14, 30}
    [] org = "INDEXED"         -> IF how = "KEY" THEN {0, 23, 51} ELSE {0, 10, 23, 51}

WriteAnswers(org) ==
  CASE org = "SEQUENTIAL"      -> {0, 30}
    [] org = "LINE_SEQUENTIAL" -> {0, 30, 52, 57}
    [] org = "RELATIVE"        -> {0, 21, 22, 30}
    [] org = "INDEXED"         -> {0, 21, 22, 30, 51}

RewriteAnswers(org) ==
  CASE org = "SEQUENTIAL"      -> {0, 30}
    [] org = "LINE_SEQUENTIAL" -> {91}
    [] org = "RELATIVE"        -> {0, 23, 30}
    [] org = "INDEXED"         -> {0, 21, 22, 23, 30, 51}

DeleteAnswers(org) ==
  CASE org \in {"SEQUENTIAL", "LINE_SEQUENTIAL"} -> {91}
    [] org = "RELATIVE"        -> {0, 23, 30}
    [] org = "INDEXED"         -> {0, 21, 23, 30, 51}

(* READ PREVIOUS is compiled for INDEXED files only; READ without NEXT is  *)
(* a READ by key where the file has a key and is not accessed sequentially. *)
ReadForms(s) ==
  {"NEXT"} \cup (IF s.organization = "INDEXED" THEN {"PREVIOUS"} ELSE {})
           \cup (IF s.access_mode # "SEQUENTIAL" /\ s.organization \in {"RELATIVE", "INDEXED"}
                    THEN {"KEY"} ELSE {})

KeyedFile == f.organization \in {"RELATIVE", "INDEXED"}

(***************************************************************************)
(* The calls that reach the driver in the present state.                   *)
(***************************************************************************)
Reaching ==
       {ReadNames[how] : how \in {h \in ReadForms(f) : ReadCheck(f, h) = CallDriver}}
  \cup {op \in {"START"}   : KeyedFile /\ StartCheck(f) = CallDriver}
  \cup {op \in {"CLOSE"}   : CloseCheck(f) = CallDriver}
  \cup {op \in {"WRITE"}   : WriteCheck(f, TRUE) = CallDriver}
  \cup {op \in {"REWRITE", "DELETE"} : UpdateCheck(f, TRUE) = CallDriver}
  \cup {op \in {"UNLOCK"}  : f.open_mode \in OpenOptions}

(* The system stops a process whose driver follows a handle that is not live. *)
Crash ==
  /\ running
  /\ f.file # "live"
  /\ Reaching # {}
  /\ running' = FALSE
  /\ fault' = TRUE
  /\ UNCHANGED <<f, cached, last>>

Record(op, status) == last' = [op |-> op, status |-> status, found |-> f.open_mode]

(* the call is answered by the public interface *)
Refuse(op, status, g) ==
  /\ running
  /\ f' = g
  /\ Record(op, status)
  /\ UNCHANGED <<cached, running, fault>>

(* the call is answered by the driver *)
Answered(op, status, g) ==
  /\ running
  /\ f.file # "null"
  /\ f' = g
  /\ Record(op, status)
  /\ fault' = (fault \/ f.file = "dead")
  /\ UNCHANGED <<cached, running>>

Init ==
  /\ \E s \in Selects : f = NewFile(s)
  /\ cached = FALSE
  /\ last = [op |-> "none", status |-> SUCCESS, found |-> "CLOSED"]
  /\ running = TRUE
  /\ fault = FALSE

(***************************************************************************)
(* OPEN.  Between the stat of cob_open and the open of the driver another  *)
(* process may create or remove the file.                                  *)
(***************************************************************************)
OpenRefused(mode, missing) ==
  LET status == OpenCheck(f, mode, missing)
  IN  /\ status \notin {CallDriver, SUCCESS}
      /\ Refuse("OPEN", status,
                IF f.open_mode = "CLOSED" THEN BeginOpen(f) ELSE Touch(f))

OpenTerminal(mode) ==
  /\ OpenCheck(f, mode, FALSE) = SUCCESS
  /\ Refuse("OPEN", SUCCESS, OpenSpecial(f, mode))

OpenDriver(mode, missing) ==
  /\ running
  /\ OpenCheck(f, mode, missing) = CallDriver
  /\ \E answer \in OpenAnswers :
       /\ answer = "LINAGE_INVALID" => f.linage
       /\ f' = AfterOpen(f, mode, answer)
       /\ Record("OPEN", OpenStatus(f, mode, missing, answer))
  /\ cached' = TRUE
  /\ UNCHANGED <<running, fault>>

CloseRefused(opt) ==
  LET status == CloseCheck(f)
  IN  /\ status # CallDriver
      /\ Refuse("CLOSE", status,
                CASE f.special # 0 -> [Touch(f) EXCEPT !.open_mode = "CLOSED"]
                  [] f.special = 0 /\ status = NOT_OPEN -> Touch(f)
                  [] f.special = 0 /\ status = SUCCESS -> AfterClose(f, opt, SUCCESS))

CloseDriver(opt) ==
  /\ CloseCheck(f) = CallDriver
  /\ Answered("CLOSE", CloseAnswer(f, opt), AfterClose(f, opt, CloseAnswer(f, opt)))

StartRefused ==
  /\ KeyedFile
  /\ StartCheck(f) # CallDriver
  /\ Refuse("START", StartCheck(f), BeginStart(f))

StartDriver ==
  /\ KeyedFile
  /\ StartCheck(f) = CallDriver
  /\ \E answer \in StartAnswers(f.organization) :
       Answered("START", answer, AfterStart(f, answer))

ReadRefused(how) ==
  /\ ReadCheck(f, how) # CallDriver
  /\ Refuse(ReadNames[how], ReadCheck(f, how), RefusedRead(f))

ReadDriver(how) ==
  /\ ReadCheck(f, how) = CallDriver
  /\ \E answer \in ReadAnswers(f.organization, how) :
       Answered(ReadNames[how], answer, AfterRead(f, how, answer))

WriteRefused(fits) ==
  /\ WriteCheck(f, fits) # CallDriver
  /\ Refuse("WRITE", WriteCheck(f, fits), Touch(f))

WriteDriver ==
  /\ WriteCheck(f, TRUE) = CallDriver
  /\ \E answer \in WriteAnswers(f.organization) : Answered("WRITE", answer, Touch(f))

RewriteRefused(sameSize) ==
  /\ UpdateCheck(f, sameSize) # CallDriver
  /\ Refuse("REWRITE", UpdateCheck(f, sameSize), Touch(f))

RewriteDriver ==
  /\ UpdateCheck(f, TRUE) = CallDriver
  /\ \E answer \in RewriteAnswers(f.organization) : Answered("REWRITE", answer, Touch(f))

DeleteRefused ==
  /\ UpdateCheck(f, TRUE) # CallDriver
  /\ Refuse("DELETE", UpdateCheck(f, TRUE), Touch(f))

DeleteDriver ==
  /\ UpdateCheck(f, TRUE) = CallDriver
  /\ \E answer \in DeleteAnswers(f.organization) : Answered("DELETE", answer, Touch(f))

(* cob_file_unlock, from UNLOCK and, for the files of file_cache, COMMIT   *)
(* and ROLLBACK: it flushes the handle and changes no field of the record. *)
Unlock ==
  /\ running
  /\ f.open_mode \in OpenOptions
  /\ f.file # "null"
  /\ fault' = (fault \/ f.file = "dead")
  /\ UNCHANGED <<f, cached, last, running>>

(* fault: STOP RUN does not close what the program left open *)
ExitFileio_LeavesOpen ==
  /\ running
  /\ running' = FALSE
  /\ UNCHANGED <<f, last, fault, cached>>

(* cob_exit_fileio: the implicit CLOSE of a file in file_cache that is open *)
ExitFileio ==
  /\ running
  /\ running' = FALSE
  /\ IF cached /\ f.open_mode \in OpenOptions
       THEN /\ f' = AfterClose(f, "NORMAL", SUCCESS)
            /\ Record("CLOSE", SUCCESS)
            /\ fault' = (fault \/ (CloseCheck(f) = CallDriver /\ f.file # "live"))
       ELSE UNCHANGED <<f, last, fault>>
  /\ UNCHANGED cached

Open  == \E mode \in OpenOptions, missing \in BOOLEAN :
           \/ OpenRefused(mode, missing)
           \/ OpenTerminal(mode)
           \/ OpenDriver(mode, missing)
Close == \E opt \in CloseOptions : CloseRefused(opt) \/ CloseDriver(opt)
Start == StartRefused \/ StartDriver
Read  == \E how \in ReadForms(f) : ReadRefused(how) \/ ReadDriver(how)
Write == (\E fits \in BOOLEAN : WriteRefused(fits)) \/ WriteDriver
Rewrite == (\E sameSize \in BOOLEAN : RewriteRefused(sameSize)) \/ RewriteDriver
Delete == DeleteRefused \/ DeleteDriver

Next == \/ Open \/ Close \/ Start \/ Read \/ Write \/ Rewrite \/ Delete
        \/ Unlock \/ ExitFileio \/ Crash

Spec == Init /\ [][Next]_vars

-----------------------------------------------------------------------------
(***************************************************************************)
(* Properties.                                                             *)
(***************************************************************************)
(* The variables keep their types. *)
TypeOK ==
  /\ f \in Cob_file
  /\ cached \in BOOLEAN
  /\ last \in [op : Calls, status : 0..99, found : OpenModes]
  /\ running \in BOOLEAN
  /\ fault \in BOOLEAN

LastReadOk == /\ last.op \in {ReadNames[how] : how \in DOMAIN ReadNames}
              /\ last.status = SUCCESS

(* In sequential access cob_rewrite and cob_delete let the driver replace  *)
(* the record under the file position, which is the record of the last     *)
(* READ only if nothing has been called since: a REWRITE or DELETE that    *)
(* can reach the driver directly follows a READ that was answered 00 while *)
(* the file was open I-O.                                                  *)
UpdateFollowsRead ==
  (f.access_mode = "SEQUENTIAL" /\ UpdateCheck(f, TRUE) = CallDriver)
    => LastReadOk /\ last.found = "I_O"

(* A program that has been told AT END is not given a record by reading on *)
(* in the same direction: the call is refused before it reaches the        *)
(* driver, whatever was done to the file by others in between.             *)
NoReadPastEnd ==
  \A how \in {"NEXT", "PREVIOUS"} :
    (last.op = ReadNames[how] /\ last.status = END_OF_FILE)
      => ReadCheck(f, how) # CallDriver

(* cob_read and cob_start never position a file that was missing when it   *)
(* was opened, in particular not after it has been closed, with or without *)
(* lock, while its flag is still set.                                      *)
MissingNeverRead ==
  f.flag_nonexistent
    => Reaching \cap ({"START"} \cup {ReadNames[how] : how \in ReadForms(f)}) = {}

(* The only calls that hand a driver a handle that is not live: any call   *)
(* but OPEN, REWRITE, DELETE and UNLOCK on a file closed WITH LOCK;        *)
(* UNLOCK, COMMIT and the non-sequential WRITE, REWRITE and DELETE on an   *)
(* OPTIONAL file that was missing when it was opened.                      *)
DeadHandleCalls ==
  (f.file # "live" /\ Reaching # {})
    => \/ /\ f.open_mode = "LOCKED"
          /\ Reaching \cap {"REWRITE", "DELETE", "UNLOCK"} = {}
       \/ /\ f.flag_nonexistent
          /\ f.flag_optional
          /\ f.open_mode \in {"INPUT", "I_O"}
          /\ f.access_mode = "SEQUENTIAL" => Reaching = {"UNLOCK"}

(* A handle that cob_file_open has opened is found again by a CLOSE, by    *)
(* the implicit CLOSE of cob_exit_fileio or stays the terminal's, except   *)
(* for the OPEN that is refused because of its LINAGE values.              *)
NoHandleLost ==
  /\ (f.file = "live" /\ f.open_mode \notin OpenOptions)
       => f.linage \/ f.special # 0
  /\ (f.file = "live" /\ f.open_mode \in OpenOptions)
       => cached \/ f.special # 0
  /\ (f.file = "live" /\ ~running) => f.linage \/ f.special # 0
=============================================================================
