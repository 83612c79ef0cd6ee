------------------------------- MODULE Linage --------------------------------
(***************************************************************************)
(* A print file with a LINAGE clause: the logical page that file_linage_   *)
(* check, cob_linage_write_opt and lineseq_write of libcob/fileio.c keep   *)
(* with LINAGE-COUNTER, against the lines that really go into the file.    *)
(*                                                                         *)
(* The file is the number of lines written (row) and where its pages begin *)
(* (base).  The values of the clause are data items that the program may   *)
(* change at any moment; the run time takes them over at OPEN and at every *)
(* new page.  Another LINE SEQUENTIAL file of the run unit is there        *)
(* because both use the static eop_status.                                 *)
(***************************************************************************)
EXTENDS Connector, Integers

CONSTANTS
  Values,     \* what the items of LINAGE, FOOTING, TOP and BOTTOM may hold
  Steps,      \* what a program may ADVANCE by, in lines
  MaxRow      \* bound on the lines of the file

Items == [lines : Int, foot : Int, top : Int, bot : Int]

ASSUME LinageAssumption ==
  /\ Values \subseteq Items
  /\ Steps \subseteq Nat
  /\ MaxRow \in Nat

VARIABLES
  print_file, \* the cob_file record
  footing,    \* the clause has FOOTING
  items,      \* the data items of the clause, now
  lin,        \* lin_lines, lin_foot, lin_top, lin_bot
  counter,    \* LINAGE-COUNTER
  needs_top,  \* flag_needs_top
  eop_status, \* the static flag of fileio.c
  row,        \* lines written: the line on which the next character goes
  base,       \* the line on which the current page begins, its top margin first
  zeros,      \* WRITEs since OPEN that advanced by 0 lines
  printed,    \* the line of the last record, or -1
  told        \* the last statement and its status

linage_vars == <<print_file, footing, items, lin, counter, needs_top, eop_status, row,
                 base, zeros, printed, told>>

LinageInit ==
  /\ print_file = NewFile([organization |-> "LINE_SEQUENTIAL", access_mode |-> "SEQUENTIAL",
                  flag_optional |-> FALSE, special |-> 0, linage |-> TRUE])
  /\ footing \in BOOLEAN
  /\ items \in Values
  /\ lin = [lines |-> 0, foot |-> 0, top |-> 0, bot |-> 0]
  /\ counter = 0
  /\ needs_top = FALSE
  /\ eop_status = FALSE
  /\ row = 0
  /\ base = 0
  /\ zeros = 0
  /\ printed = -1
  /\ told = [op |-> "none", status |-> SUCCESS]

Answer(op, status) ==
  /\ told' = [op |-> op, status |-> status]
  /\ UNCHANGED footing

(* The program moves other values to the items of the clause. *)
ChangeItems ==
  /\ items' \in Values
  /\ UNCHANGED <<print_file, footing, lin, counter, needs_top, eop_status, row, base,
                 zeros, printed, told>>

(***************************************************************************)
(* file_linage_check.  After a failure the counter is 0, and nothing looks *)
(* at lin until the next OPEN takes the items over again.                  *)
(***************************************************************************)
Valid ==
  /\ items.lines >= 1
  /\ footing => items.foot \in 1..items.lines
  /\ items.top >= 0
  /\ items.bot >= 0

TakeOver ==
  /\ lin' = [items EXCEPT !.foot = IF footing THEN @ ELSE 0]
  /\ counter' = IF Valid THEN 1 ELSE 0

(***************************************************************************)
(* OPEN and CLOSE.  An OPEN whose values are wrong fails after the file    *)
(* has been opened, and truncated for OUTPUT.                              *)
(***************************************************************************)
OpenAnswer == IF Valid THEN "ok" ELSE "LINAGE_INVALID"

OpenFile(mode) ==
  /\ OpenCheck(print_file, mode, FALSE) = CallDriver
  /\ print_file' = AfterOpen(print_file, mode, OpenAnswer)
  /\ TakeOver
  /\ needs_top' = (Valid \/ needs_top)
  /\ row' = IF mode = "OUTPUT" THEN 0 ELSE row
  /\ base' = row'
  /\ zeros' = 0
  /\ printed' = -1
  /\ Answer("OPEN", OpenStatus(print_file, mode, FALSE, OpenAnswer))
  /\ UNCHANGED <<items, eop_status>>

CloseFile ==
  /\ CloseCheck(print_file) = CallDriver
  /\ print_file' = AfterClose(print_file, "NORMAL", SUCCESS)
  /\ Answer("CLOSE", SUCCESS)
  /\ UNCHANGED <<items, lin, counter, needs_top, eop_status, row, base, zeros, printed>>

(* An OPEN of an open file, a CLOSE of a closed one, a WRITE that the mode forbids. *)
Refused(op, status) ==
  /\ status # CallDriver
  /\ print_file' = Touch(print_file)
  /\ Answer(op, status)
  /\ UNCHANGED <<items, lin, counter, needs_top, eop_status, row, base, zeros, printed>>

(***************************************************************************)
(* WRITE.  The top margin of the first page, then the record on the line   *)
(* reached and the advance, or the advance first; where the record ends    *)
(* lineseq_write puts a newline of its own.                                *)
(***************************************************************************)
Writes == WriteCheck(print_file, TRUE) = CallDriver /\ row < MaxRow

Newlines(n) == IF n > 0 THEN n ELSE 0      \* for (i = n; i > 0; i--) putc ('\n')

StartLine == IF needs_top THEN row + Newlines(lin.top) ELSE row

(* how: BEFORE or AFTER ADVANCING; the advance has put n newlines *)
Prints(how, n) ==
  /\ row' = StartLine + n + 1
  /\ printed' = IF how = "BEFORE" THEN StartLine ELSE StartLine + n

(* the advance has put n newlines and failed: AFTER prints no record *)
PrintFails(how, n) ==
  /\ row' = StartLine + n + (IF how = "BEFORE" THEN 1 ELSE 0)
  /\ printed' = IF how = "BEFORE" THEN StartLine ELSE printed

(* the end of lineseq_write, and what is left of it after an error *)
Reported(op, raised) ==
  /\ Answer(op, IF eop_status \/ raised THEN PAGE_EOP ELSE SUCCESS)
  /\ eop_status' = FALSE

Failed(op, raised) ==
  /\ Answer(op, LINAGE_ERROR)
  /\ eop_status' = (eop_status \/ raised)

(* fault: the counter may pass the last line by one *)
Overflow_ByOne(n) == counter + n > lin.lines + 1

Overflow(n) == counter + n > lin.lines

(* fault: only the footing raises the condition *)
Raised_AtFooting(n) == lin.foot # 0 /\ counter + n >= lin.foot

Raised(n) == Raised_AtFooting(n) \/ Overflow(n)

(* fault: an advance of n lines puts n newlines *)
OnPage_CountsRecord(n) == Newlines(n)

(* newlines of an advance on the page: the record's own is one of them *)
OnPage(n) == Newlines(n - 1)

RestOfPage == Newlines(lin.lines - counter) + Newlines(lin.bot)

(* WRITE ... ADVANCING n LINES; eop: it has an AT END-OF-PAGE phrase *)
WriteOnPage(how, n, eop) ==
  /\ Writes
  /\ counter # 0
  /\ ~Overflow(n)
  /\ counter' = counter + n
  /\ Prints(how, OnPage(n))
  /\ zeros' = IF n = 0 THEN zeros + 1 ELSE zeros
  /\ Reported("WRITE", eop /\ Raised(n))
  /\ UNCHANGED <<items, lin, base>>

(* the rest of the page and the bottom margin, then the next page, if its values are valid *)
NewPage(how, op, raised) ==
  /\ TakeOver
  /\ base' = base + lin.top + lin.lines + lin.bot
  /\ \/ /\ Valid
        /\ Prints(how, RestOfPage + Newlines(items.top))
        /\ Reported(op, raised)
     \/ /\ ~Valid
        /\ PrintFails(how, RestOfPage)
        /\ Failed(op, raised)
  /\ UNCHANGED <<items, zeros>>

WriteOverflow(how, n, eop) ==
  /\ Writes
  /\ counter # 0
  /\ Overflow(n)
  /\ NewPage(how, "WRITE", eop /\ Raised(n))

(* WRITE ... ADVANCING PAGE *)
WritePage(how) ==
  /\ Writes
  /\ counter # 0
  /\ NewPage(how, "WRITE PAGE", FALSE)

(* the values of the page were wrong *)
WriteDead(how) ==
  /\ Writes
  /\ counter = 0
  /\ PrintFails(how, 0)
  /\ Failed("WRITE", FALSE)
  /\ UNCHANGED <<items, lin, counter, base, zeros>>

WriteLines ==
  /\ \E how \in {"BEFORE", "AFTER"} :
       \/ \E n \in Steps, eop \in BOOLEAN :
            WriteOnPage(how, n, eop) \/ WriteOverflow(how, n, eop)
       \/ WritePage(how)
       \/ WriteDead(how)
  /\ print_file' = Touch(print_file)
  /\ needs_top' = FALSE

(* A plain WRITE to another LINE SEQUENTIAL file. *)
WriteOther ==
  /\ Reported("WRITE OTHER", FALSE)
  /\ UNCHANGED <<print_file, items, lin, counter, needs_top, row, base, zeros, printed>>

LinageNext ==
  \/ ChangeItems
  \/ \E mode \in OpenOptions : OpenFile(mode) \/ Refused("OPEN", OpenCheck(print_file, mode, FALSE))
  \/ CloseFile
  \/ Refused("CLOSE", CloseCheck(print_file))
  \/ WriteLines
  \/ Refused("WRITE", WriteCheck(print_file, TRUE))
  \/ WriteOther

LinageSpec == LinageInit /\ [][LinageNext]_linage_vars
-----------------------------------------------------------------------------
(***************************************************************************)
(* Properties.                                                             *)
(***************************************************************************)
LinageTypeOK ==
  /\ print_file \in Cob_file
  /\ footing \in BOOLEAN
  /\ items \in Values
  /\ lin \in Items
  /\ counter \in Nat
  /\ counter # 0 => counter \in 1..lin.lines
  /\ needs_top \in BOOLEAN
  /\ eop_status \in BOOLEAN
  /\ row \in Nat
  /\ base \in Nat
  /\ zeros \in Nat
  /\ printed \in Nat \cup {-1}
  /\ told \in [op : {"none", "OPEN", "CLOSE", "WRITE", "WRITE PAGE", "WRITE OTHER"},
               status : 0..99]

(* LINAGE-COUNTER is where the file is: between two WRITEs the next line   *)
(* of the file is line LINAGE-COUNTER of the body of the current page,     *)
(* whose top margin, body and bottom margin all earlier pages have had in  *)
(* full - through BEFORE and AFTER, PAGE, overflow and changed values.     *)
(* Each WRITE that advances by 0 lines puts the file one line behind, as   *)
(* lineseq_write ends every record with a newline (fileio.c 1283).         *)
CursorAtCounter ==
  counter # 0 => StartLine = base + lin.top + counter - 1 + zeros

(* A record written BEFORE ADVANCING stands in the body of its page: never *)
(* in a margin (cob_linage_write_opt, fileio.c 930-962).                   *)
RecordInBody ==
  [][\A n \in Steps, eop \in BOOLEAN :
       zeros = 0 /\ (\/ WriteOnPage("BEFORE", n, eop)
                     \/ WriteOverflow("BEFORE", n, eop)
                     \/ WritePage("BEFORE"))
         => printed' - (base + lin.top) \in 0..(lin.lines - 1)]_linage_vars

(* A program that writes with AT END-OF-PAGE is told of every page that it *)
(* fills: the counter starts again only under 52 or an error.              *)
EndOfPageTold ==
  [][\A how \in {"BEFORE", "AFTER"}, n \in Steps :
       WriteOnPage(how, n, TRUE) \/ WriteOverflow(how, n, TRUE)
         => counter' > counter \/ n = 0 \/ told'.status \in {PAGE_EOP, LINAGE_ERROR}]_linage_vars
=============================================================================
