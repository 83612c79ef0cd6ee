---------------------------- MODULE PerformStack ----------------------------
(***************************************************************************)
(* PERFORM, GO TO and the ends of paragraphs and sections, as cobc turns   *)
(* them into C: labels, gotos and a stack of frames in the C function of   *)
(* the program.  A frame holds the label whose end gives control back and  *)
(* the address to go back to.  Every label that some PERFORM names as its  *)
(* end is followed by a test of the frame on top; with perform-osvs, of    *)
(* all frames from the top.                                                *)
(*                                                                         *)
(* Paragraphs are numbered as they stand in the source.  Control is at a   *)
(* spot <<p, k>>: in the statements of paragraph p (k = 0), at the test at *)
(* its end (k = 1), or, when p closes a section, at the test at the end of *)
(* the section (k = 2).  A label is named by the spot of its test.  Source *)
(* programs are free to execute the statements of a paragraph in any order *)
(* and number; a program is its set of PERFORM statements and the options  *)
(* of the compiler.                                                        *)
(***************************************************************************)
EXTENDS Integers, Sequences, FiniteSets

CONSTANTS
  N,             \* number of paragraphs
  LastOf,        \* the paragraphs that close a section
  Declaratives,  \* number of paragraphs in DECLARATIVES, in front of the entry
  StackSize,     \* COB_STACK_SIZE
  MaxTimes,      \* bound on the number of turns a PERFORM TIMES asks for
  Programs       \* the programs: [sites, osvs, check, nested]

Paragraphs == 1..N
Bodies     == {<<p, 0>> : p \in Paragraphs}
Labels     == {<<p, 1>> : p \in Paragraphs} \cup {<<p, 2>> : p \in LastOf}
End        == <<N + 1, 0>>    \* the program has come to its end
Fatal      == <<N + 2, 0>>    \* cob_fatal_error (COB_FERROR_STACK)
Overrun    == <<N + 3, 0>>    \* a frame has been written behind frame_stack
Spots      == Bodies \cup Labels \cup {End, Fatal, Overrun}
NoLabel    == <<0, 0>>

\* The order of the spots in the generated code.
Place(x) == 3 * x[1] + x[2]

\* All PERFORM statements whose range does not end before it begins.
Statements ==
  {s \in [at : Paragraphs, first : Paragraphs, through : Labels, kind : {"once", "times", "until"}] :
     s.first <= s.through[1]}

Program == [sites : SUBSET Statements, osvs : BOOLEAN, check : BOOLEAN, nested : BOOLEAN]

ASSUME PerformAssumption ==
  /\ N \in Nat \ {0}
  /\ LastOf \subseteq Paragraphs /\ N \in LastOf
  /\ Declaratives \in {0} \cup (LastOf \ {N})
  /\ StackSize \in Nat /\ StackSize > 2
  /\ MaxTimes \in Nat
  /\ Programs \subseteq Program

VARIABLES
  prog,    \* the program that runs
  spot,    \* where control is
  frames,  \* frame_stack up to frame_ptr: [through, site]; site is the return address
  count    \* the loop counters: one C variable for each PERFORM TIMES

vars == <<prog, spot, frames, count>>

NoSite == [at |-> 0, first |-> 0, through |-> NoLabel, kind |-> "once"]
Base   == [through |-> NoLabel, site |-> NoSite]
Frame  == [through : Labels \cup {NoLabel}, site : Statements \cup {NoSite}]

TypeOK ==
  /\ prog \in Program
  /\ spot \in Spots
  /\ frames \in Seq(Frame)
  /\ Len(frames) \in 1..StackSize
  /\ frames[1] = Base
  /\ \A i \in 2..Len(frames) : frames[i].site \in prog.sites /\ frames[i].through = frames[i].site.through
  /\ count \in [prog.sites -> -StackSize..MaxTimes]

Init ==
  /\ prog \in Programs
  /\ spot = <<Declaratives + 1, 0>>
  /\ frames = <<Base>>
  /\ count = [s \in prog.sites |-> 0]

(***************************************************************************)
(* What a nested program does not do: execute a PERFORM that is being      *)
(* executed, leave by GO TO or EXIT SECTION the range that is performed    *)
(* and, where the ends of all active ranges are recognized, perform a      *)
(* range inside of which another active one ends.                          *)
(***************************************************************************)
Top == frames[Len(frames)]

Within(x, s) == Place(x) \in Place(<<s.first, 0>>)..Place(s.through)

MayPerform(s) ==
  prog.nested =>
    \A i \in 2..Len(frames) :
      /\ frames[i].site # s
      /\ prog.osvs => ~Within(frames[i].through, s) \/ frames[i].through = s.through

MayGo(x) == prog.nested /\ Len(frames) > 1 => Within(x, Top.site)

(***************************************************************************)
(* output_perform_call: the call pushes a frame on those below and jumps.  *)
(***************************************************************************)
Limit == IF prog.check THEN StackSize - 1 ELSE StackSize

Push(s, below) ==
  IF Len(below) < Limit
  THEN /\ frames' = Append(below, [through |-> s.through, site |-> s])
       /\ spot' = <<s.first, 0>>
  ELSE /\ frames' = below
       /\ spot' = IF prog.check THEN Fatal ELSE Overrun

\* Whether the loop around a call has another turn, the counter being n.
Turn(s, n) == CASE s.kind = "once"  -> {FALSE}
                [] s.kind = "times" -> {n > 0}
                [] s.kind = "until" -> BOOLEAN

\* A PERFORM statement, from the head of its loop.  The handler of a file is
\* performed in the same way, by an input-output statement that failed.
Perform(s) ==
  /\ spot = <<s.at, 0>>
  /\ MayPerform(s)
  /\ \E n \in IF s.kind = "times" THEN 0..MaxTimes ELSE {count[s]} :
       /\ count' = [count EXCEPT ![s] = n]
       /\ \/ (s.kind = "once" \/ TRUE \in Turn(s, n)) /\ Push(s, frames)
          \/ s.kind # "once" /\ FALSE \in Turn(s, n) /\ UNCHANGED <<spot, frames>>
  /\ UNCHANGED prog

GoTo ==
  /\ spot \in Bodies
  /\ \E x \in Bodies : MayGo(x) /\ spot' = x
  /\ UNCHANGED <<prog, frames, count>>

\* EXIT PARAGRAPH, and the end of the statements of a paragraph.
ExitParagraph ==
  /\ spot \in Bodies
  /\ spot' = <<spot[1], 1>>
  /\ UNCHANGED <<prog, frames, count>>

ExitSection ==
  /\ spot \in Bodies
  /\ LET x == <<CHOOSE p \in LastOf : p >= spot[1] /\ \A q \in LastOf : q >= spot[1] => q >= p, 2>>
     IN MayGo(x) /\ spot' = x
  /\ UNCHANGED <<prog, frames, count>>

(***************************************************************************)
(* output_perform_exit: the frame that label x ends, 0 when there is none. *)
(***************************************************************************)
\* mutant: the search begins at the bottom
Ended_FromBase(x) ==
  LET found == {i \in 2..Len(frames) :
                  frames[i].through = x /\ (prog.osvs \/ i = Len(frames))}
  IN IF found = {} THEN 0 ELSE CHOOSE i \in found : \A j \in found : i <= j

Ended(x) ==
  LET found == {i \in 2..Len(frames) :
                  frames[i].through = x /\ (prog.osvs \/ i = Len(frames))}
  IN IF found = {} THEN 0 ELSE CHOOSE i \in found : \A j \in found : j <= i

\* Control goes back behind the call, to the loop around it.
Return ==
  /\ spot \in Labels
  /\ Ended(spot) # 0
  /\ LET i == Ended(spot)
         s == frames[i].site
         n == IF s.kind = "times" THEN count[s] - 1 ELSE count[s]
         below == SubSeq(frames, 1, i - 1)
     IN /\ count' = [count EXCEPT ![s] = n]
        /\ \/ TRUE \in Turn(s, n) /\ Push(s, below)
           \/ FALSE \in Turn(s, n) /\ spot' = <<s.at, 0>> /\ frames' = below
  /\ UNCHANGED prog

\* mutant: the end of a section is not tested
Following_NoSection(x) == <<x[1] + 1, 0>>

\* What follows the test at the end of a label.
Following(x) ==
  IF x[2] = 1 /\ x[1] \in LastOf THEN <<x[1], 2>> ELSE <<x[1] + 1, 0>>

FallThrough ==
  /\ spot \in Labels
  /\ Ended(spot) = 0
  /\ spot' = Following(spot)
  /\ UNCHANGED <<prog, frames, count>>

Next ==
  \/ \E s \in prog.sites : Perform(s)
  \/ GoTo
  \/ ExitParagraph
  \/ ExitSection
  \/ Return
  \/ FallThrough

Spec == Init /\ [][Next]_vars

-----------------------------------------------------------------------------
(***************************************************************************)
(* Properties.                                                             *)
(***************************************************************************)

\* The activations that the frames and the loop counters stand for.
Active ==
  [i \in 1..Len(frames) - 1 |->
     LET s == frames[i + 1].site
     IN [site |-> s, left |-> CASE s.kind = "once"  -> 1
                                [] s.kind = "until" -> 0
                                [] s.kind = "times" -> count[s]]]

C == INSTANCE PerformContract WITH Sites <- Statements, active <- Active

\* In a nested program every step of the generated code is a step of nested
\* activations: with and without perform-osvs the frames and the shared loop
\* counters send control back to the PERFORM that was executed last, after as
\* many turns as it asked for, and never at the end of another range.
Structured ==
  [][prog.nested /\ spot' \notin {Fatal, Overrun} => C!Next \/ UNCHANGED <<spot, Active>>]_vars

\* In a nested program control stays inside the range performed last: it
\* cannot fall through the end of a range, and the program does not come to
\* its end in the middle of a PERFORM.
ControlInRange ==
  prog.nested /\ Len(frames) > 1 /\ spot \notin {Fatal, Overrun} => Within(spot, Top.site)

\* Nothing is written behind frame_stack: with stack checking whatever the
\* program does, without it by no nested program that has fewer PERFORM
\* statements than the stack has frames.
NoOverrun == spot = Overrun => ~prog.check /\ (prog.nested => Cardinality(prog.sites) >= StackSize)

\* Stack checking stops no nested program that would have fitted, but for the
\* last frame, which the check never lets a program use.
NoFalseAlarm ==
  spot = Fatal => prog.check /\ (prog.nested => Cardinality(prog.sites) >= StackSize - 1)

\* A nested program needs no more frames than it has PERFORM statements, and
\* the base: GO TO and returns leave none behind.
NestedFits == prog.nested => Len(frames) <= Cardinality(prog.sites) + 1

\* The frames are those of the ranges that are being performed: none is left
\* behind, none is missed, none is written behind the stack.
StackSound == TypeOK /\ ControlInRange /\ NoOverrun /\ NoFalseAlarm /\ NestedFits
=============================================================================
