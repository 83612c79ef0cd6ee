------------------------------- MODULE RunUnit -------------------------------
(***************************************************************************)
(* The run unit: programs that CALL each other, return, CANCEL each other  *)
(* and stop, as the code that cobc generates for them does it together     *)
(* with the call table of libcob.                                          *)
(*                                                                         *)
(* A program is one C function with static data.  The C stack holds its    *)
(* activations; beside it the run time threads its own stack of modules    *)
(* through one static record for each program (module.next), so the two    *)
(* stacks agree only while no program is active twice.                     *)
(*                                                                         *)
(* Each program has one item of WORKING-STORAGE and one file, standing for *)
(* all it has.  The source programs are free to do anything in any order.  *)
(***************************************************************************)
EXTENDS Naturals, Sequences

CONSTANTS
  Programs,       \* the programs of the run unit
  Main,           \* the one that main () calls
  Initial,        \* those with the INITIAL or the RECURSIVE clause
  Recursive,      \* those that may be called while they are active
  CancelsActive,  \* whether a program may CANCEL one that is active
  Null,           \* the null module pointer
  MaxArgs,        \* bound on the number of parameters of a CALL
  MaxDepth        \* bound on the depth of the C stack

ASSUME ProgramsAssumption ==
  /\ Main \in Programs
  /\ Null \notin Programs
  /\ Initial \subseteq Programs
  /\ Recursive \subseteq Programs
  /\ CancelsActive \in BOOLEAN
  /\ MaxArgs \in Nat
  /\ MaxDepth \in Nat

VARIABLES
  frames,       \* the C stack: one record for each activation, the last on top
  current,      \* cob_current_module
  next,         \* module.next of each program
  initialized,  \* the static flag of the generated function; its decimals are live
  entry,        \* call_table: "none", "found" or, with a cancel function, "cancel"
  storage,      \* WORKING-STORAGE: "initial" or "changed"
  file,         \* open_mode and handle of the program's file: "closed" or "open"
  lost,         \* programs that have dropped the handle of an open file
  args,         \* how many cob_procedure_parameters each program last set
  params,       \* cob_call_params
  saved         \* cob_save_call_params

vars == <<frames, current, next, initialized, entry, storage, file, lost, args, params, saved>>

Frames == [prog : Programs, nargs : 0..MaxArgs, called : BOOLEAN]

TypeOK ==
  /\ frames \in Seq(Frames)
  /\ current \in Programs \cup {Null}
  /\ next \in [Programs -> Programs \cup {Null}]
  /\ initialized \in [Programs -> BOOLEAN]
  /\ entry \in [Programs -> {"none", "found", "cancel"}]
  /\ storage \in [Programs -> {"initial", "changed"}]
  /\ file \in [Programs -> {"closed", "open"}]
  /\ lost \in SUBSET Programs
  /\ args \in [Programs -> 0..MaxArgs]
  /\ params \in 0..MaxArgs
  /\ saved \in 0..MaxArgs

running == frames # <<>>
top     == frames[Len(frames)]
Active  == {frames[i].prog : i \in DOMAIN frames}

Frame(p, n, c) == [prog |-> p, nargs |-> n, called |-> c]

(***************************************************************************)
(* main () has called cob_init and entered the main program.               *)
(***************************************************************************)
Init ==
  /\ frames = <<Frame(Main, 0, FALSE)>>
  /\ current = Main
  /\ next = [p \in Programs |-> Null]
  /\ initialized = [p \in Programs |-> p = Main]
  /\ entry = [p \in Programs |-> "none"]
  /\ storage = [p \in Programs |-> "initial"]
  /\ file = [p \in Programs |-> "closed"]
  /\ lost = {}
  /\ args = [p \in Programs |-> 0]
  /\ params = 0
  /\ saved = 0

(***************************************************************************)
(* CALL.  The caller's module records the parameters, the call table gives *)
(* the function, and the function pushes its module, initializes itself    *)
(* if it must and saves the number of parameters.                          *)
(***************************************************************************)
Pass(n) == args' = [args EXCEPT ![top.prog] = n] /\ params' = n

Save == saved' = params'

Push_Backwards(p) == next' = [next EXCEPT ![current] = p] /\ current' = p
Push_NoLink(p)    == current' = p /\ UNCHANGED next
Push(p) == next' = [next EXCEPT ![p] = current] /\ current' = p

Registers_BeforePush(p) == p # Main /\ next[p] # Null
Registers(p) == p # Main /\ next'[p] # Null

Entry(p) ==
  IF ~initialized[p] /\ Registers(p) THEN "cancel"
  ELSE IF entry[p] = "none" THEN "found" ELSE entry[p]

Mark(p) == initialized' = [initialized EXCEPT ![p] = TRUE]

Resets(p) == p \in Initial \/ ~initialized[p]

(* cob_set_cancel, when the program has a caller; then, for an INITIAL     *)
(* program at every entry and for the others the first time, the values of *)
(* WORKING-STORAGE and a record of the file that says closed.              *)
Initialize(p) ==
  /\ Mark(p)
  /\ entry' = [entry EXCEPT ![p] = Entry(p)]
  /\ storage' = [storage EXCEPT ![p] = IF Resets(p) THEN "initial" ELSE @]
  /\ file' = [file EXCEPT ![p] = IF Resets(p) THEN "closed" ELSE @]
  /\ lost' = IF Resets(p) /\ file[p] = "open" THEN lost \cup {p} ELSE lost

Enter(p, n) ==
  frames' = Append([frames EXCEPT ![Len(frames)] = Frame(top.prog, top.nargs, TRUE)],
                   Frame(p, n, FALSE))

Call(p, n) ==
  /\ running
  /\ Len(frames) < MaxDepth
  /\ p \in Active => p \in Recursive
  /\ Pass(n)
  /\ Push(p)
  /\ Initialize(p)
  /\ Enter(p, n)
  /\ Save

(* A CALL that enters no program: a routine of the run time (C$NARG and    *)
(* C$PARAMSIZE are two), or ON EXCEPTION of a program that was not found.  *)
CallElsewhere(n) ==
  /\ running
  /\ Pass(n)
  /\ UNCHANGED <<frames, current, next, initialized, entry, storage, file, lost, saved>>

(***************************************************************************)
(* The end of the run unit: cob_exit_fileio closes the files whose record  *)
(* says that they are open.                                                *)
(***************************************************************************)
CloseAll == file' = [p \in Programs |-> "closed"]

StopRun ==
  /\ running
  /\ frames' = <<>>
  /\ CloseAll
  /\ UNCHANGED <<current, next, initialized, entry, storage, lost, args, params, saved>>

(* The parameters of the CALL have been recorded when cob_call_error stops.*)
CallError(n) ==
  /\ running
  /\ Pass(n)
  /\ frames' = <<>>
  /\ CloseAll
  /\ UNCHANGED <<current, next, initialized, entry, storage, lost, saved>>

(***************************************************************************)
(* The return of a program pops the module that is current, whichever it   *)
(* is.  The return of the main program ends the run unit.                  *)
(***************************************************************************)
Pop == current' = next[current]

Return ==
  /\ running
  /\ current # Null
  /\ Pop
  /\ frames' = SubSeq(frames, 1, Len(frames) - 1)
  /\ IF Len(frames) = 1 THEN CloseAll ELSE UNCHANGED file
  /\ UNCHANGED <<next, initialized, entry, storage, lost, args, params, saved>>

(* GOBACK, and the end of the PROCEDURE DIVISION.                          *)
Goback == Return

(* EXIT PROGRAM returns from a called program; in another it does nothing. *)
ExitProgram ==
  /\ running
  /\ next[top.prog] # Null
  /\ Return

(***************************************************************************)
(* CANCEL.  cobcancel runs the cancel function the table has, if any; its  *)
(* flag_is_active is never set.  The function closes the files and clears  *)
(* the decimals of a program that has been initialized.                    *)
(***************************************************************************)
MayCancel(p) == CancelsActive \/ p \notin Active

Cancels(p) == entry[p] = "cancel" /\ initialized[p]

CloseFiles_All(p) == file' = [q \in Programs |-> "closed"]
CloseFiles(p) == file' = [file EXCEPT ![p] = "closed"]

Cancel(p) ==
  /\ running
  /\ MayCancel(p)
  /\ IF Cancels(p)
        THEN /\ initialized' = [initialized EXCEPT ![p] = FALSE]
             /\ CloseFiles(p)
        ELSE UNCHANGED <<initialized, file>>
  /\ UNCHANGED <<frames, current, next, entry, storage, lost, args, params, saved>>

(***************************************************************************)
(* What the program on top does to its own data.                           *)
(***************************************************************************)
Change ==
  /\ running
  /\ storage' = [storage EXCEPT ![top.prog] = "changed"]
  /\ UNCHANGED <<frames, current, next, initialized, entry, file, lost, args, params, saved>>

Open ==
  /\ running
  /\ file[top.prog] = "closed"
  /\ file' = [file EXCEPT ![top.prog] = "open"]
  /\ UNCHANGED <<frames, current, next, initialized, entry, storage, lost, args, params, saved>>

Close ==
  /\ running
  /\ file[top.prog] = "open"
  /\ file' = [file EXCEPT ![top.prog] = "closed"]
  /\ UNCHANGED <<frames, current, next, initialized, entry, storage, lost, args, params, saved>>

Next ==
  \/ \E p \in Programs, n \in 0..MaxArgs : Call(p, n)
  \/ \E n \in 0..MaxArgs : CallElsewhere(n) \/ CallError(n)
  \/ Goback
  \/ ExitProgram
  \/ StopRun
  \/ \E p \in Programs : Cancel(p)
  \/ Change
  \/ Open
  \/ Close

Spec == Init /\ [][Next]_vars

(***************************************************************************)
(* Properties.                                                             *)
(***************************************************************************)

(* The modules threaded through module.next from cob_current_module are    *)
(* the programs on the C stack, in its order, and the main program's link  *)
(* is null (codegen.c 4055, 4318).                                         *)
ChainIsStack ==
  running =>
    /\ current = top.prog
    /\ next[frames[1].prog] = Null
    /\ \A i \in 2..Len(frames) : next[frames[i].prog] = frames[i - 1].prog

(* EXIT PROGRAM tests module.next to know whether the program was called:  *)
(* it returns from every called program and never ends the main program    *)
(* (codegen.c 2690-2698).                                                  *)
ExitProgramKnows == running => (next[top.prog] # Null <=> Len(frames) > 1)

(* The decimals and the storage of a program that is executing have been   *)
(* initialized and not been cleared since (codegen.c 4008-4014).           *)
ActiveInitialized == \A p \in Active : initialized[p]

(* C$NARG gives a program the number of its own parameters until it calls  *)
(* another program, which overwrites cob_save_call_params (codegen.c 4230, *)
(* common.c 2179).                                                         *)
NargUntilCall == running => (top.called \/ saved = top.nargs)

(* C$PARAMSIZE reads the parameter array of the caller: while a program is *)
(* active its caller's array still holds the parameters of this very call  *)
(* (common.c 2195-2197).                                                   *)
CallerParamsKept ==
  \A i \in 2..Len(frames) : args[frames[i - 1].prog] = frames[i].nargs

(* Only an INITIAL program, entered again after it returned with its file  *)
(* open, drops the handle of an open file (codegen.c 4179-4203, 3423).     *)
LostOnlyInitial == lost \subseteq Initial

(* A program that waits for a program it called finds its storage and its  *)
(* file as it left them, whatever the called ones CALL or CANCEL.          *)
SuspendedKept ==
  [][running' => \A i \in 1..(Len(frames) - 1) :
       LET p == frames[i].prog IN storage'[p] = storage[p] /\ file'[p] = file[p]]_vars

(* CANCEL finds what there is to undo: a called program that has been      *)
(* initialized has its cancel function in the call table, whoever called   *)
(* it first, and one that has not been has no file open (call.c 499-505).  *)
CancelTakesEffect ==
  \A p \in Programs \ {Main} :
    IF initialized[p] THEN entry[p] = "cancel" ELSE file[p] = "closed"

(* What programs find of their own data, parameters and CANCEL functions.  *)
OwnDataKept ==
  /\ ActiveInitialized /\ NargUntilCall /\ CallerParamsKept
  /\ CancelTakesEffect /\ LostOnlyInitial
=============================================================================
