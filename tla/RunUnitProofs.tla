---------------------------- MODULE RunUnitProofs ----------------------------
(***************************************************************************)
(* What RunUnit guarantees to every run unit, of any number of programs at *)
(* any depth, whose programs neither call nor CANCEL an active one.        *)
(* The second part is about Shutdown, how a run unit ends.                 *)
(***************************************************************************)
EXTENDS RunUnit, Shutdown, SequenceTheorems, FiniteSetTheorems, TLAPS

Conforming == Recursive = {} /\ CancelsActive = FALSE

(***************************************************************************)
(* The inductive invariant.  ChainIsStack needs every link to be written   *)
(* once on the stack (Distinct); NargUntilCall needs the callers to know   *)
(* that they have called; LostOnlyInitial needs CANCEL to have closed the  *)
(* file of what it has reset, and the main program never to be entered.    *)
(***************************************************************************)
Distinct ==
  \A i, j \in DOMAIN frames : frames[i].prog = frames[j].prog => i = j

CallersCalled == \A i \in 1..(Len(frames) - 1) : frames[i].called

MainFirst == running => frames[1].prog = Main

IInv ==
  /\ TypeOK
  /\ Distinct
  /\ MainFirst
  /\ CallersCalled
  /\ ChainIsStack
  /\ ActiveInitialized
  /\ NargUntilCall
  /\ CallerParamsKept
  /\ CancelTakesEffect
  /\ LostOnlyInitial

(***************************************************************************)
(* Sequences of one element, and without the last one.                     *)
(***************************************************************************)
LEMMA OneElement ==
  ASSUME NEW S, NEW e \in S
  PROVE  <<e>> \in Seq(S)
OBVIOUS

(* A sequence without its last element. *)
LEMMA OneLess ==
  ASSUME NEW S, NEW s \in Seq(S), Len(s) \in Nat \ {0}
  PROVE  /\ SubSeq(s, 1, Len(s) - 1) \in Seq(S)
         /\ Len(SubSeq(s, 1, Len(s) - 1)) = Len(s) - 1
         /\ \A i \in 1..(Len(s) - 1) : SubSeq(s, 1, Len(s) - 1)[i] = s[i]
<1> DEFINE m == 1
           n == Len(s) - 1
<1>1. n \in Nat /\ Len(s) = n + 1 /\ \A i \in m..n : s[i] \in S
  BY LenProperties, ElementOfSeq
<1> HIDE DEF n
<1>2. m \in Int /\ n \in Int
  BY <1>1
<1> HIDE DEF m
<1>3. /\ SubSeq(s, m, n) \in Seq(S)
      /\ Len(SubSeq(s, m, n)) = IF m <= n THEN n - m + 1 ELSE 0
      /\ \A i \in 1..(n - m + 1) : SubSeq(s, m, n)[i] = s[m + i - 1]
  BY <1>1, <1>2, SubSeqProperties
<1> USE DEF m
<1>4. Len(SubSeq(s, 1, n)) = n
  <2>1. n - 1 + 1 = n /\ (~(1 <= n) => n = 0)
    BY <1>1
  <2> QED
    BY <1>3, <2>1, Zenon
<1>5. ASSUME NEW i \in 1..n PROVE SubSeq(s, 1, n)[i] = s[i]
  <2>1. i \in 1..(n - 1 + 1) /\ 1 + i - 1 = i
    BY <1>1
  <2> QED
    BY <1>3, <2>1, Zenon
<1> QED
  BY <1>3, <1>4, <1>5 DEF n

(* The initial state satisfies the invariant.                              *)
LEMMA InitIInv == Init => IInv
<1> SUFFICES ASSUME Init PROVE IInv
  OBVIOUS
<1>1. Len(frames) = 1 /\ DOMAIN frames = {1} /\ frames[1] = Frame(Main, 0, FALSE) /\ running
  BY DEF Init, running
<1>2. top = Frame(Main, 0, FALSE) /\ 1..(Len(frames) - 1) = {} /\ 2..Len(frames) = {}
  BY <1>1 DEF top
<1>3. Frame(Main, 0, FALSE) \in Frames
  BY ProgramsAssumption DEF Frame, Frames
<1>4. TypeOK
  <2>1. frames = <<Frame(Main, 0, FALSE)>>
    BY DEF Init
  <2>3. frames \in Seq(Frames)
    BY <1>3, <2>1, OneElement, Zenon
  <2>2. 0 \in 0..MaxArgs
    BY ProgramsAssumption
  <2> QED
    BY <2>2, <2>3, ProgramsAssumption DEF TypeOK, Init
<1>5. Distinct /\ MainFirst /\ CallersCalled /\ CallerParamsKept
  BY <1>1, <1>2 DEF Distinct, MainFirst, CallersCalled, CallerParamsKept, Frame
<1>6. ChainIsStack /\ NargUntilCall
  BY <1>1, <1>2, ProgramsAssumption DEF Init, ChainIsStack, NargUntilCall, Frame
<1>7. ActiveInitialized
  <2>1. Active = {Main}
    BY <1>1 DEF Active, Frame
  <2> QED
    BY <2>1, ProgramsAssumption DEF Init, ActiveInitialized
<1>8. CancelTakesEffect /\ LostOnlyInitial
  BY ProgramsAssumption DEF Init, CancelTakesEffect, LostOnlyInitial
<1> QED
  BY <1>4, <1>5, <1>6, <1>7, <1>8 DEF IInv

(* What the C stack is after a CALL, after a return, and its top.          *)
LEMMA TopInFrames ==
  ASSUME TypeOK, running
  PROVE  /\ Len(frames) \in Nat \ {0}
         /\ DOMAIN frames = 1..Len(frames)
         /\ top \in Frames
         /\ top.prog \in Programs
         /\ top.nargs \in 0..MaxArgs
         /\ top.prog \in Active
<1>1. Len(frames) \in Nat \ {0} /\ DOMAIN frames = 1..Len(frames)
  BY EmptySeq DEF TypeOK, running
<1>2. top \in Frames
  BY <1>1 DEF TypeOK, top
<1>3. Len(frames) \in DOMAIN frames
  BY <1>1
<1>4. top.prog \in Active
  BY <1>3 DEF Active, top
<1> QED
  BY <1>1, <1>2, <1>4 DEF Frames

(* The frames after a CALL. *)
LEMMA FramesAfterCall ==
  ASSUME TypeOK, running, NEW p \in Programs, NEW n \in 0..MaxArgs, Enter(p, n)
  PROVE  /\ frames' \in Seq(Frames)
         /\ Len(frames') = Len(frames) + 1
         /\ \A i \in 1..Len(frames) :
              frames'[i].prog = frames[i].prog /\ frames'[i].nargs = frames[i].nargs
         /\ \A i \in 1..(Len(frames) - 1) : frames'[i] = frames[i]
         /\ frames'[Len(frames)].called
         /\ frames'[Len(frames) + 1] = Frame(p, n, FALSE)
<1> DEFINE caller == Frame(top.prog, top.nargs, TRUE)
           fs == [frames EXCEPT ![Len(frames)] = caller]
<1>1. Len(frames) \in Nat \ {0} /\ \A i \in 1..Len(frames) : frames[i] \in Frames
  BY TopInFrames DEF TypeOK
<1>2. caller \in Frames /\ Frame(p, n, FALSE) \in Frames
  BY TopInFrames DEF Frame, Frames
<1>3. caller.called /\ caller.prog = top.prog /\ caller.nargs = top.nargs
  BY DEF Frame
<1> HIDE DEF caller
<1>4. fs \in Seq(Frames) /\ Len(fs) = Len(frames)
  <2>1. frames \in Seq(Frames) /\ Len(frames) \in 1..Len(frames)
    BY <1>1 DEF TypeOK
  <2> QED
    BY <1>2, <2>1, ExceptSeq
<1>5. (\A i \in 1..(Len(frames) - 1) : fs[i] = frames[i]) /\ fs[Len(frames)] = caller
  BY <1>1 DEF TypeOK
<1>6. frames' = Append(fs, Frame(p, n, FALSE))
  BY DEF Enter, caller
<1> HIDE DEF fs
<1> DEFINE callee == Frame(p, n, FALSE)
<1> HIDE DEF callee
<1>7. /\ frames' \in Seq(Frames)
      /\ Len(frames') = Len(frames) + 1
      /\ \A i \in 1..Len(frames) : frames'[i] = fs[i]
      /\ frames'[Len(frames) + 1] = callee
  <2>0. callee \in Frames /\ frames' = Append(fs, callee)
    BY <1>2, <1>6 DEF callee
  <2>1. /\ frames' \in Seq(Frames)
        /\ Len(frames') = Len(fs) + 1
        /\ \A i \in 1..Len(fs) : frames'[i] = fs[i]
        /\ frames'[Len(fs) + 1] = callee
    BY <1>4, <2>0, AppendProperties
  <2> QED
    BY <1>4, <2>1
<1>8. frames'[Len(frames)] = caller
  BY <1>1, <1>5, <1>7
<1>9. \A i \in 1..(Len(frames) - 1) : frames'[i] = frames[i]
  BY <1>1, <1>5, <1>7
<1> QED
  BY <1>1, <1>3, <1>5, <1>7, <1>8, <1>9 DEF top, callee

(* The frames after a return. *)
LEMMA FramesAfterReturn ==
  ASSUME TypeOK, running, Return
  PROVE  /\ frames' \in Seq(Frames)
         /\ Len(frames') = Len(frames) - 1
         /\ \A i \in 1..(Len(frames) - 1) : frames'[i] = frames[i]
<1>1. Len(frames) \in Nat \ {0} /\ frames' = SubSeq(frames, 1, Len(frames) - 1)
  BY TopInFrames DEF Return
<1>2. frames \in Seq(Frames)
  BY DEF TypeOK
<1> QED
  BY <1>1, <1>2, OneLess, Zenon
(***************************************************************************)
(* Facts about a state of the invariant that several steps use.            *)
(***************************************************************************)
LEMMA TopFacts ==
  ASSUME IInv, running
  PROVE  /\ current = top.prog
         /\ current \in Programs
         /\ current # Null
         /\ initialized[current]
BY TopInFrames, ProgramsAssumption DEF IInv, ChainIsStack, ActiveInitialized

(* The types are kept by every step.                                       *)
LEMMA TypeStep == TypeOK /\ [Next]_vars => TypeOK'
<1> SUFFICES ASSUME TypeOK, [Next]_vars PROVE TypeOK'
  OBVIOUS
<1> USE DEF TypeOK
<1>1. ASSUME NEW p \in Programs, NEW n \in 0..MaxArgs, Call(p, n) PROVE TypeOK'
  <2>0. running /\ Enter(p, n) /\ Pass(n) /\ Push(p) /\ Initialize(p) /\ Save
    BY <1>1 DEF Call
  <2>1. frames' \in Seq(Frames)
    BY <2>0, FramesAfterCall
  <2>2. args' \in [Programs -> 0..MaxArgs] /\ params' \in 0..MaxArgs /\ saved' \in 0..MaxArgs
    BY <2>0 DEF Pass, Save
  <2>3. next' \in [Programs -> Programs \cup {Null}] /\ current' \in Programs
    BY <2>0 DEF Push
  <2>4. initialized' \in [Programs -> BOOLEAN] /\ entry' \in [Programs -> {"none", "found", "cancel"}]
    BY <2>0 DEF Initialize, Mark, Entry
  <2>5. /\ storage' \in [Programs -> {"initial", "changed"}]
        /\ file' \in [Programs -> {"closed", "open"}]
        /\ lost' \in SUBSET Programs
    BY <2>0 DEF Initialize
  <2> QED
    BY <2>1, <2>2, <2>3, <2>4, <2>5
<1>2. ASSUME NEW n \in 0..MaxArgs, CallElsewhere(n) PROVE TypeOK'
  BY <1>2 DEF CallElsewhere, Pass
<1>3. ASSUME NEW n \in 0..MaxArgs, CallError(n) PROVE TypeOK'
  <2>1. frames' \in Seq(Frames)
    BY <1>3, EmptySeq DEF CallError
  <2> QED
    BY <1>3, <2>1 DEF CallError, Pass, CloseAll
<1>4. ASSUME Return PROVE TypeOK'
  <2>1. frames' \in Seq(Frames)
    BY <1>4, FramesAfterReturn DEF Return
  <2>2. current' \in Programs \cup {Null} /\ file' \in [Programs -> {"closed", "open"}]
    BY <1>4 DEF Return, Pop, CloseAll
  <2> QED
    BY <1>4, <2>1, <2>2 DEF Return
<1>5. CASE StopRun
  BY <1>5 DEF StopRun, CloseAll
<1>6. ASSUME NEW p \in Programs, Cancel(p) PROVE TypeOK'
  BY <1>6 DEF Cancel, CloseFiles
<1>7. CASE Change
  BY <1>7 DEF Change
<1>8. CASE Open
  BY <1>8 DEF Open
<1>9. CASE Close
  BY <1>9 DEF Close
<1>10. CASE UNCHANGED vars
  BY <1>10 DEF vars
<1> QED
  BY <1>1, <1>2, <1>3, <1>4, <1>5, <1>6, <1>7, <1>8, <1>9, <1>10
  DEF Next, Goback, ExitProgram

(***************************************************************************)
(* A CALL keeps the invariant: the callee is not on the stack, so pushing  *)
(* its module overwrites no link that is in use.                           *)
(***************************************************************************)
LEMMA CallStep ==
  ASSUME Conforming, IInv, TypeOK', NEW p \in Programs, NEW n \in 0..MaxArgs, Call(p, n)
  PROVE  IInv'
<1> DEFINE k == Len(frames)
<1>0. /\ running /\ p \notin Active
      /\ Enter(p, n) /\ Pass(n) /\ Push(p) /\ Initialize(p) /\ Save
  BY DEF Call, Conforming
<1>1. k \in Nat \ {0} /\ DOMAIN frames = 1..k /\ top = frames[k]
  BY <1>0, TopInFrames DEF IInv, top
<1>2. /\ Len(frames') = k + 1
      /\ \A i \in 1..k : frames'[i].prog = frames[i].prog /\ frames'[i].nargs = frames[i].nargs
      /\ \A i \in 1..(k - 1) : frames'[i] = frames[i]
      /\ frames'[k].called
      /\ frames'[k + 1] = Frame(p, n, FALSE)
      /\ frames' \in Seq(Frames)
  BY <1>0, FramesAfterCall DEF IInv
<1>3. frames'[k + 1].prog = p /\ frames'[k + 1].nargs = n
  BY <1>2 DEF Frame
<1>4. DOMAIN frames' = 1..(k + 1) /\ running' /\ top' = frames'[k + 1]
  <2>1. DOMAIN frames' = 1..Len(frames')
    BY <1>2, LenProperties
  <2>2. frames' # <<>>
    BY <1>1, <1>2, EmptySeq
  <2> QED
    BY <1>2, <2>1, <2>2 DEF running, top
<1>5. \A i \in 1..k : frames[i].prog # p /\ frames[i].prog \in Programs
  <2>1. ASSUME NEW i \in 1..k PROVE frames[i] \in Frames /\ frames[i].prog \in Active
    <3>1. frames \in Seq(Frames) /\ i \in 1..Len(frames) /\ i \in DOMAIN frames
      BY <1>1 DEF IInv, TypeOK
    <3> QED
      BY <3>1, ElementOfSeq DEF Active
  <2> QED
    BY <1>0, <2>1 DEF Frames
<1>6. current = top.prog /\ current # p /\ current \in Programs /\ current # Null
  BY <1>0, <1>1, <1>5, TopFacts
<1> HIDE DEF k
<1>7. Distinct'
  <2>1. ASSUME NEW i \in 1..(k + 1), NEW j \in 1..(k + 1), frames'[i].prog = frames'[j].prog
        PROVE  i = j
    <3>1. CASE i \in 1..k /\ j \in 1..k
      BY <1>1, <1>2, <2>1, <3>1 DEF IInv, Distinct
    <3>2. CASE i = k + 1 /\ j \in 1..k
      BY <1>2, <1>3, <1>5, <2>1, <3>2
    <3>3. CASE i \in 1..k /\ j = k + 1
      BY <1>2, <1>3, <1>5, <2>1, <3>3
    <3> QED
      BY <1>1, <3>1, <3>2, <3>3
  <2> QED
    BY <1>4, <2>1 DEF Distinct
<1>8. MainFirst' /\ p # Main
  BY <1>0, <1>1, <1>2, <1>5 DEF IInv, MainFirst
<1>9. CallersCalled'
  <2>1. \A i \in 1..k : frames'[i].called
    BY <1>1, <1>2 DEF IInv, CallersCalled, k
  <2> QED
    BY <1>1, <1>2, <2>1 DEF CallersCalled
<1>10. ChainIsStack'
  <2>1. next' = [next EXCEPT ![p] = current] /\ current' = p
    BY <1>0 DEF Push
  <2>2. \A i \in 1..k : next'[frames[i].prog] = next[frames[i].prog]
    BY <1>5, <2>1 DEF IInv, TypeOK
  <2>3. next'[p] = frames'[k].prog
    BY <1>1, <1>2, <1>6, <2>1 DEF IInv, TypeOK
  <2>4. next'[frames'[1].prog] = Null
    BY <1>0, <1>1, <1>2, <2>2 DEF IInv, ChainIsStack
  <2>5. ASSUME NEW i \in 2..k PROVE next'[frames'[i].prog] = frames'[i - 1].prog
    <3>1. i \in 1..k /\ i - 1 \in 1..k
      BY <1>1
    <3> QED
      BY <1>0, <1>2, <2>2, <3>1 DEF IInv, ChainIsStack, k
  <2>6. \A i \in 2..(k + 1) : i \in 2..k \/ i = k + 1
    BY <1>1
  <2>7. (k + 1) - 1 = k
    BY <1>1
  <2> QED
    BY <1>2, <1>3, <1>4, <2>1, <2>3, <2>4, <2>5, <2>6, <2>7 DEF ChainIsStack
<1>11. ActiveInitialized'
  <2>1. \A q \in Programs : initialized[q] => initialized'[q]
    BY <1>0 DEF Initialize, Mark, IInv, TypeOK
  <2>2. initialized'[p]
    BY <1>0 DEF Initialize, Mark, IInv, TypeOK
  <2>3. ASSUME NEW i \in 1..(k + 1) PROVE initialized'[frames'[i].prog]
    <3>1. CASE i = k + 1
      BY <1>3, <2>2, <3>1
    <3>2. CASE i \in 1..k
      BY <1>1, <1>2, <1>5, <2>1, <3>2 DEF IInv, ActiveInitialized, Active
    <3> QED
      BY <1>1, <3>1, <3>2
  <2> QED
    BY <1>4, <2>3 DEF ActiveInitialized, Active
<1>12. NargUntilCall'
  BY <1>0, <1>3, <1>4 DEF NargUntilCall, Save, Pass
<1>13. CallerParamsKept'
  <2>1. args' = [args EXCEPT ![top.prog] = n] /\ args \in [Programs -> 0..MaxArgs]
    BY <1>0 DEF Pass, IInv, TypeOK
  <2>2. args'[frames'[k].prog] = n
    BY <1>1, <1>2, <1>5, <2>1
  <2>3. ASSUME NEW i \in 2..k PROVE args'[frames'[i - 1].prog] = frames'[i].nargs
    <3>1. i \in 1..k /\ i - 1 \in 1..k /\ i - 1 # k /\ k \in 1..k
      BY <1>1
    <3>2. frames[i - 1].prog # top.prog /\ frames[i - 1].prog \in Programs
      BY <1>1, <1>5, <3>1 DEF IInv, Distinct
    <3> QED
      BY <1>2, <2>1, <3>1, <3>2 DEF IInv, CallerParamsKept, k
  <2>4. (\A i \in 2..(k + 1) : i \in 2..k \/ i = k + 1) /\ (k + 1) - 1 = k
    BY <1>1
  <2> QED
    BY <1>2, <1>3, <2>2, <2>3, <2>4 DEF CallerParamsKept
<1>14. CancelTakesEffect'
  <2>1. ~initialized[p] => entry'[p] = "cancel"
    <3>1. next'[p] = current
      BY <1>0 DEF Push, IInv, TypeOK
    <3> QED
      BY <1>0, <1>6, <1>8, <3>1 DEF Initialize, Entry, Registers, IInv, TypeOK
  <2>2. initialized[p] => entry'[p] = "cancel"
    BY <1>0, <1>8 DEF Initialize, Entry, IInv, TypeOK, CancelTakesEffect
  <2>3. initialized'[p]
    BY <1>0 DEF Initialize, Mark, IInv, TypeOK
  <2>4. \A q \in Programs \ {p} :
          initialized'[q] = initialized[q] /\ entry'[q] = entry[q] /\ file'[q] = file[q]
    BY <1>0 DEF Initialize, Mark, IInv, TypeOK
  <2> QED
    BY <2>1, <2>2, <2>3, <2>4 DEF IInv, CancelTakesEffect
<1>15. LostOnlyInitial'
  <2>1. Resets(p) /\ file[p] = "open" => p \in Initial
    BY <1>8 DEF Resets, IInv, CancelTakesEffect
  <2> QED
    BY <1>0, <2>1 DEF Initialize, IInv, LostOnlyInitial
<1> QED
  BY <1>7, <1>8, <1>9, <1>10, <1>11, <1>12, <1>13, <1>14, <1>15 DEF IInv

(***************************************************************************)
(* A return keeps the invariant: the module that is current is the top     *)
(* one, so the pop makes the caller's current.                             *)
(***************************************************************************)
LEMMA ReturnStep ==
  ASSUME IInv, TypeOK', Return
  PROVE  IInv'
<1> DEFINE k == Len(frames)
<1>0. /\ running /\ current' = next[current]
      /\ UNCHANGED <<next, initialized, entry, storage, lost, args, params, saved>>
      /\ file' = file \/ file' = [p \in Programs |-> "closed"]
  BY DEF Return, Pop, CloseAll
<1>1. k \in Nat \ {0} /\ DOMAIN frames = 1..k /\ top = frames[k]
  BY <1>0, TopInFrames DEF IInv, top
<1>2. Len(frames') = k - 1 /\ frames' \in Seq(Frames) /\ \A i \in 1..(k - 1) : frames'[i] = frames[i]
  BY <1>0, FramesAfterReturn DEF IInv
<1>3. DOMAIN frames' = 1..(k - 1) /\ (running' => k - 1 \in 1..(k - 1))
  <2>1. DOMAIN frames' = 1..Len(frames')
    BY <1>2, LenProperties
  <2>2. frames' # <<>> => Len(frames') \in Nat \ {0}
    BY <1>2, EmptySeq
  <2> QED
    BY <1>1, <1>2, <2>1, <2>2 DEF running
<1>4. top' = frames'[k - 1]
  BY <1>2 DEF top
<1> HIDE DEF k
<1>5. Distinct'
  BY <1>1, <1>2, <1>3 DEF IInv, Distinct
<1>6. MainFirst'
  BY <1>0, <1>1, <1>2, <1>3 DEF IInv, MainFirst
<1>7. CallersCalled' /\ (running' => top'.called)
  <2>1. \A i \in 1..(k - 1) : frames[i].called
    BY DEF IInv, CallersCalled, k
  <2> QED
    BY <1>1, <1>2, <1>3, <1>4, <2>1 DEF CallersCalled
<1>8. ChainIsStack'
  <2>1. SUFFICES ASSUME running' PROVE ChainIsStack'
    BY DEF ChainIsStack
  <2>2. k \in 2..k /\ 1 \in 1..(k - 1) /\ k - 1 \in 1..(k - 1)
    BY <1>1, <1>3, <2>1
  <2>3. current' = top'.prog
    BY <1>0, <1>1, <1>2, <1>4, <2>2, TopFacts DEF IInv, ChainIsStack, k
  <2>4. next'[frames'[1].prog] = Null
    BY <1>0, <1>2, <2>2 DEF IInv, ChainIsStack
  <2>5. ASSUME NEW i \in 2..(k - 1) PROVE next'[frames'[i].prog] = frames'[i - 1].prog
    <3>1. i \in 1..(k - 1) /\ i - 1 \in 1..(k - 1) /\ i \in 2..k
      BY <1>1
    <3> QED
      BY <1>0, <1>2, <3>1 DEF IInv, ChainIsStack, k
  <2> QED
    BY <1>2, <2>3, <2>4, <2>5 DEF ChainIsStack
<1>9. ActiveInitialized'
  <2>1. \A i \in 1..(k - 1) : initialized[frames[i].prog]
    BY <1>1 DEF IInv, ActiveInitialized, Active
  <2> QED
    BY <1>0, <1>2, <1>3, <2>1 DEF ActiveInitialized, Active
<1>10. NargUntilCall'
  BY <1>7 DEF NargUntilCall
<1>11. CallerParamsKept'
  <2>1. ASSUME NEW i \in 2..(k - 1) PROVE args'[frames'[i - 1].prog] = frames'[i].nargs
    <3>1. i \in 1..(k - 1) /\ i - 1 \in 1..(k - 1) /\ i \in 2..k
      BY <1>1
    <3> QED
      BY <1>0, <1>2, <3>1 DEF IInv, CallerParamsKept, k
  <2> QED
    BY <1>2, <2>1 DEF CallerParamsKept
<1>12. CancelTakesEffect'
  BY <1>0 DEF IInv, CancelTakesEffect
<1>13. LostOnlyInitial'
  BY <1>0 DEF IInv, LostOnlyInitial
<1> QED
  BY <1>5, <1>6, <1>7, <1>8, <1>9, <1>10, <1>11, <1>12, <1>13 DEF IInv

(* A CANCEL resets a program that is not on the stack, and closes its file.*)
LEMMA CancelStep ==
  ASSUME Conforming, IInv, TypeOK', NEW p \in Programs, Cancel(p)
  PROVE  IInv'
<1>0. /\ running /\ p \notin Active
      /\ UNCHANGED <<frames, current, next, entry, storage, lost, args, params, saved>>
  BY DEF Cancel, MayCancel, Conforming
<1>1. \/ UNCHANGED <<initialized, file>>
      \/ /\ initialized' = [initialized EXCEPT ![p] = FALSE]
         /\ file' = [file EXCEPT ![p] = "closed"]
  BY DEF Cancel, CloseFiles
<1>2. Active' = Active
  BY <1>0 DEF Active
<1>3. \A q \in Programs \ {p} : initialized'[q] = initialized[q] /\ file'[q] = file[q]
  BY <1>1 DEF IInv, TypeOK
<1>4. Active \subseteq Programs
  <2>1. \A i \in DOMAIN frames : frames[i] \in Frames
    BY <1>0, TopInFrames, ElementOfSeq DEF IInv, TypeOK
  <2> QED
    BY <2>1 DEF Active, Frames
<1>5. ActiveInitialized'
  BY <1>0, <1>2, <1>3, <1>4 DEF IInv, ActiveInitialized
<1>6. CancelTakesEffect'
  <2>1. \/ initialized' = initialized /\ file' = file
        \/ ~initialized'[p] /\ file'[p] = "closed"
    BY <1>1 DEF IInv, TypeOK
  <2> QED
    BY <1>0, <1>3, <2>1 DEF IInv, CancelTakesEffect
<1>7. /\ Distinct' /\ MainFirst' /\ CallersCalled' /\ ChainIsStack'
      /\ NargUntilCall' /\ CallerParamsKept' /\ LostOnlyInitial'
  BY <1>0 DEF IInv, Distinct, MainFirst, CallersCalled, ChainIsStack, NargUntilCall,
              CallerParamsKept, LostOnlyInitial, running, top
<1> QED
  BY <1>5, <1>6, <1>7 DEF IInv

(* A CALL of something else changes the parameters of the top module only. *)
LEMMA CallElsewhereStep ==
  ASSUME IInv, TypeOK', NEW n \in 0..MaxArgs, CallElsewhere(n)
  PROVE  IInv'
<1>0. /\ running
      /\ args' = [args EXCEPT ![top.prog] = n]
      /\ UNCHANGED <<frames, current, next, initialized, entry, storage, file, lost, saved>>
  BY DEF CallElsewhere, Pass
<1>1. CallerParamsKept'
  <2>1. ASSUME NEW i \in 2..Len(frames) PROVE args'[frames[i - 1].prog] = frames[i].nargs
    <3>1. Len(frames) \in Nat \ {0} /\ DOMAIN frames = 1..Len(frames)
      BY <1>0, TopInFrames DEF IInv
    <3>2. i - 1 \in 1..Len(frames) /\ Len(frames) \in 1..Len(frames) /\ i - 1 # Len(frames)
      BY <3>1
    <3>3. frames[i - 1].prog # top.prog
      BY <3>1, <3>2 DEF IInv, Distinct, top
    <3> QED
      BY <1>0, <3>3 DEF IInv, TypeOK, CallerParamsKept
  <2> QED
    BY <1>0, <2>1 DEF CallerParamsKept
<1>2. /\ Distinct' /\ MainFirst' /\ CallersCalled' /\ ChainIsStack' /\ ActiveInitialized'
      /\ NargUntilCall' /\ CancelTakesEffect' /\ LostOnlyInitial'
  BY <1>0 DEF IInv, Distinct, MainFirst, CallersCalled, ChainIsStack, ActiveInitialized, Active,
              NargUntilCall, CancelTakesEffect, LostOnlyInitial, running, top
<1> QED
  BY <1>1, <1>2 DEF IInv

(* The end of the run unit leaves no activation and no open file.          *)
LEMMA EndStep ==
  ASSUME IInv, TypeOK', frames' = <<>>, CloseAll, UNCHANGED <<initialized, entry, lost>>
  PROVE  IInv'
<1>1. ~running' /\ Len(frames') = 0 /\ DOMAIN frames' = {}
  BY DEF running
<1>2. (\A i \in 1..(Len(frames') - 1) : FALSE) /\ (\A i \in 2..Len(frames') : FALSE)
  BY <1>1
<1>3. Distinct' /\ MainFirst' /\ CallersCalled' /\ ChainIsStack' /\ NargUntilCall' /\ CallerParamsKept'
  BY <1>1, <1>2
  DEF Distinct, MainFirst, CallersCalled, ChainIsStack, NargUntilCall, CallerParamsKept
<1>4. ActiveInitialized'
  BY <1>1 DEF ActiveInitialized, Active
<1>5. CancelTakesEffect' /\ LostOnlyInitial'
  BY DEF IInv, CancelTakesEffect, LostOnlyInitial, CloseAll
<1> QED
  BY <1>3, <1>4, <1>5 DEF IInv

(* A program that is executing may open its file: it has been initialized. *)
LEMMA OwnDataStep ==
  ASSUME IInv, TypeOK', Change \/ Open \/ Close
  PROVE  IInv'
<1>0. /\ running
      /\ UNCHANGED <<frames, current, next, initialized, entry, lost, args, saved>>
      /\ \A q \in Programs \ {top.prog} : file'[q] = file[q]
  BY DEF Change, Open, Close, IInv, TypeOK
<1>1. initialized[top.prog]
  BY <1>0, TopFacts
<1>2. CancelTakesEffect'
  BY <1>0, <1>1 DEF IInv, CancelTakesEffect
<1>3. /\ Distinct' /\ MainFirst' /\ CallersCalled' /\ ChainIsStack' /\ ActiveInitialized'
      /\ NargUntilCall' /\ CallerParamsKept' /\ LostOnlyInitial'
  BY <1>0 DEF IInv, Distinct, MainFirst, CallersCalled, ChainIsStack, ActiveInitialized, Active,
              NargUntilCall, CallerParamsKept, LostOnlyInitial, running, top
<1> QED
  BY <1>2, <1>3 DEF IInv

(* Every step keeps the invariant. *)
LEMMA NextIInv == Conforming /\ IInv /\ [Next]_vars => IInv'
<1> SUFFICES ASSUME Conforming, IInv, [Next]_vars PROVE IInv'
  OBVIOUS
<1>0. TypeOK'
  BY TypeStep DEF IInv
<1>1. ASSUME NEW p \in Programs, NEW n \in 0..MaxArgs, Call(p, n) PROVE IInv'
  BY <1>0, <1>1, CallStep
<1>2. ASSUME NEW n \in 0..MaxArgs, CallElsewhere(n) PROVE IInv'
  BY <1>0, <1>2, CallElsewhereStep
<1>3. ASSUME NEW n \in 0..MaxArgs, CallError(n) PROVE IInv'
  BY <1>0, <1>3, EndStep DEF CallError
<1>4. ASSUME Return PROVE IInv'
  BY <1>0, <1>4, ReturnStep
<1>5. CASE StopRun
  BY <1>0, <1>5, EndStep DEF StopRun
<1>6. ASSUME NEW p \in Programs, Cancel(p) PROVE IInv'
  BY <1>0, <1>6, CancelStep
<1>7. CASE Change \/ Open \/ Close
  BY <1>0, <1>7, OwnDataStep
<1>8. CASE UNCHANGED vars
  BY <1>8 DEF vars, IInv, TypeOK, Distinct, MainFirst, CallersCalled, ChainIsStack,
              ActiveInitialized, Active, NargUntilCall, CallerParamsKept, CancelTakesEffect,
              LostOnlyInitial, running, top
<1> QED
  BY <1>1, <1>2, <1>3, <1>4, <1>5, <1>6, <1>7, <1>8 DEF Next, Goback, ExitProgram

(***************************************************************************)
(* The theorems.                                                           *)
(***************************************************************************)

(* The types hold in every run unit, conforming or not.                    *)
THEOREM TypeCorrect == Spec => []TypeOK
<1>1. Init => TypeOK
  BY InitIInv DEF IInv
<1> QED
  BY <1>1, TypeStep, PTL DEF Spec

(* The inductive invariant holds in every conforming run unit.             *)
THEOREM Invariance == Conforming /\ Spec => []IInv
<1>1. Conforming => Conforming'
  BY DEF Conforming
<1> QED
  BY <1>1, InitIInv, NextIInv, PTL DEF Spec

(* The modules from cob_current_module through module.next are the         *)
(* programs on the C stack (codegen.c 4055, 4318).                         *)
THEOREM ChainOfModules == Conforming /\ Spec => []ChainIsStack
<1>1. IInv => ChainIsStack
  BY DEF IInv
<1> QED
  BY <1>1, Invariance, PTL

(* EXIT PROGRAM returns from every called program and is ignored in the    *)
(* main one (codegen.c 2690-2698).                                         *)
THEOREM ExitProgramTest == Conforming /\ Spec => []ExitProgramKnows
<1>1. IInv => ExitProgramKnows
  <2> SUFFICES ASSUME IInv, running
               PROVE  next[top.prog] # Null <=> Len(frames) > 1
    BY DEF ExitProgramKnows
  <2>1. Len(frames) \in Nat \ {0} /\ frames \in Seq(Frames)
    BY TopInFrames DEF IInv, TypeOK
  <2>2. CASE Len(frames) = 1
    BY <2>1, <2>2 DEF IInv, ChainIsStack, top
  <2>3. CASE Len(frames) > 1
    <3>1. Len(frames) \in 2..Len(frames) /\ Len(frames) - 1 \in 1..Len(frames)
      BY <2>1, <2>3
    <3>2. frames[Len(frames) - 1] \in Frames
      BY <2>1, <3>1, ElementOfSeq
    <3>3. next[top.prog] = frames[Len(frames) - 1].prog
      BY <3>1 DEF IInv, ChainIsStack, top
    <3> QED
      BY <2>3, <3>2, <3>3, ProgramsAssumption DEF Frames
  <2>4. (Len(frames) = 1 /\ ~(Len(frames) > 1)) \/ Len(frames) > 1
    <3> DEFINE k == Len(frames)
    <3>1. k \in Nat \ {0}
      BY <2>1
    <3> HIDE DEF k
    <3>2. (k = 1 /\ ~(k > 1)) \/ k > 1
      BY <3>1
    <3> QED
      BY <3>2 DEF k
  <2> QED
    BY <2>2, <2>3, <2>4, Zenon
<1> QED
  BY <1>1, Invariance, PTL

(* What the programs find of their own data and parameters: initialized    *)
(* storage and live decimals, the C$NARG of their own CALL, the parameters *)
(* their caller passed; CANCEL finds what it must undo, and only INITIAL   *)
(* programs lose a file.                                                   *)
THEOREM OwnData == Conforming /\ Spec => []OwnDataKept
<1>1. IInv => OwnDataKept
  BY DEF IInv, OwnDataKept
<1> QED
  BY <1>1, Invariance, PTL

(* A program that waits for another finds its storage and its file as it   *)
(* left them.                                                              *)
THEOREM SuspendedIsKept == Conforming /\ Spec => SuspendedKept
<1> DEFINE Kept == running' => \A i \in 1..(Len(frames) - 1) :
                     LET p == frames[i].prog IN storage'[p] = storage[p] /\ file'[p] = file[p]
<1>1. Conforming /\ IInv /\ [Next]_vars => [Kept]_vars
  <2> SUFFICES ASSUME Conforming, IInv, Next, running',
                      NEW i \in 1..(Len(frames) - 1)
               PROVE  storage'[frames[i].prog] = storage[frames[i].prog]
                      /\ file'[frames[i].prog] = file[frames[i].prog]
    BY DEF vars
  <2>0. running
    BY DEF Next, Call, CallElsewhere, CallError, Goback, ExitProgram, Return, StopRun, Cancel,
           Change, Open, Close
  <2>1. Len(frames) \in Nat \ {0} /\ DOMAIN frames = 1..Len(frames) /\ top.prog \in Programs
    BY <2>0, TopInFrames DEF IInv
  <2>2. i \in DOMAIN frames /\ Len(frames) \in DOMAIN frames /\ i # Len(frames) /\ Len(frames) # 1
    <3> DEFINE k == Len(frames)
    <3>1. k \in Nat \ {0} /\ DOMAIN frames = 1..k /\ i \in 1..(k - 1)
      BY <2>1
    <3> HIDE DEF k
    <3>2. i \in 1..k /\ k \in 1..k /\ i # k /\ k # 1
      BY <3>1
    <3> QED
      BY <3>1, <3>2 DEF k
  <2>3. frames[i].prog \in Active /\ frames[i].prog # top.prog
    BY <2>2 DEF Active, IInv, Distinct, top
  <2> DEFINE q == frames[i].prog
  <2>10. q \in Active /\ q # top.prog /\ q \in Programs
    <3>1. frames[i] \in Frames
      BY <2>1, <2>2, ElementOfSeq DEF IInv, TypeOK
    <3> QED
      BY <2>3, <3>1 DEF Frames
  <2> HIDE DEF q
  <2>4. ASSUME NEW p \in Programs, NEW n \in 0..MaxArgs, Call(p, n)
        PROVE  storage'[frames[i].prog] = storage[frames[i].prog]
               /\ file'[frames[i].prog] = file[frames[i].prog]
    BY <2>3, <2>4 DEF Call, Conforming, Initialize, IInv, TypeOK
  <2>5. ASSUME NEW p \in Programs, Cancel(p)
        PROVE  storage'[frames[i].prog] = storage[frames[i].prog]
               /\ file'[frames[i].prog] = file[frames[i].prog]
    <3>1. p # q /\ storage' = storage
      BY <2>10, <2>5 DEF Cancel, MayCancel, Conforming
    <3>2. file' = file \/ file' = [file EXCEPT ![p] = "closed"]
      BY <2>5 DEF Cancel, CloseFiles
    <3>3. file'[q] = file[q]
      BY <2>10, <3>1, <3>2 DEF IInv, TypeOK
    <3> QED
      BY <3>1, <3>3 DEF q
  <2>6. CASE Change \/ Open \/ Close
    <3>1. storage'[q] = storage[q] /\ file'[q] = file[q]
      BY <2>10, <2>1, <2>6 DEF Change, Open, Close, IInv, TypeOK
    <3> QED
      BY <3>1 DEF q
  <2>7. CASE Return
    BY <2>2, <2>7 DEF Return
  <2>8. ASSUME NEW n \in 0..MaxArgs, CallElsewhere(n)
        PROVE  storage' = storage /\ file' = file
    BY <2>8 DEF CallElsewhere
  <2>9. ~StopRun /\ \A n \in 0..MaxArgs : ~CallError(n)
    BY DEF StopRun, CallError, running
  <2> QED
    BY <2>4, <2>5, <2>6, <2>7, <2>8, <2>9 DEF Next, Goback, ExitProgram
<1>2. Conforming => Conforming'
  BY DEF Conforming
<1> QED
  BY <1>1, <1>2, Invariance, PTL DEF Spec, SuspendedKept

-----------------------------------------------------------------------------
(***************************************************************************)
(* How a run unit ends (Shutdown), for any number of handlers, list nodes, *)
(* files and calls, where only the newest handler is removed or registered *)
(* again.                                                                  *)
(*                                                                         *)
(* The invariant, EndInv, keeps each list as the chain of distinct nodes,  *)
(* none of them freed, that leads from its head to the null pointer        *)
(* (Listed); orders what is on the C stack by how far the end has come     *)
(* (Stacked); and says of a walk under way that the handlers it has run    *)
(* and those it has still before it are the handlers that were due         *)
(* (Walked), although a handler may unlink its own node meanwhile.         *)
(***************************************************************************)

(***************************************************************************)
(* The activations of C, and how far the end has come in each of them.     *)
(***************************************************************************)
Who == Procs \cup {NULL}

Activations ==
  [walk : Kinds, at : Nodes \cup {NULL}] \cup [walk : {"code"}, kind : Kinds, proc : Who]
    \cup [walk : {"close"}, at : Files] \cup [walk : {"files"}, at : {"stop", "signal"}]

IsHandler(x) == x.walk = "code" /\ x.kind # "main"

Level(x) ==
  IF x.walk = "code" THEN IF x.kind = "main" THEN 0 ELSE IF x.kind = "error" THEN 2 ELSE 4
  ELSE IF x.walk = "error" THEN 1
  ELSE IF x.walk = "exit" THEN 3
  ELSE IF x = Walk("files", "signal") THEN 6 ELSE 5

\* In the cells c, s are the nodes from a on to the null pointer, none of them freed.
Chain(c, l, s, a) ==
  /\ s \in Seq(l) /\ IsInjective(s)
  /\ IF s = <<>> THEN a = NULL
     ELSE /\ s[1] = a
          /\ \A i \in 1..Len(s) - 1 : c[s[i]].next = s[i + 1]
          /\ c[s[Len(s)]].next = NULL

Named(c, l, W) == \A x \in l : c[x].proc \in W

ProcsOf(c, s) == [i \in DOMAIN s |-> c[s[i]].proc]

\* What the walk x has run, r, and what it has still to run is what was due, d.
Goes(c, l, x, r, d, handled) ==
  \E s : /\ Chain(c, l, s, x.at)
         /\ d = r \o (IF handled THEN Tail(ProcsOf(c, s)) ELSE ProcsOf(c, s))

Types ==
  /\ head \in [Kinds -> Nodes \cup {NULL}]
  /\ cell \in [Nodes -> [next : Nodes \cup {NULL}, proc : Who]]
  /\ live \subseteq Nodes
  /\ stack \in Seq(Activations \cup {MainProgram})
  /\ mode \in [Files -> {"closed", "open", "handle"}]
  /\ wanted \in [Kinds -> Seq(Who)]
  /\ due \in [Kinds -> Seq(Who)]
  /\ ran \in [Kinds -> Seq(Who)]
  /\ closed \in [Files -> Nat]

Stacked ==
  /\ stack # <<>> /\ stack[1] = MainProgram
  /\ \A i, j \in DOMAIN stack :
       i < j => Level(stack[i]) < Level(stack[j]) \/ stack[j].walk = "close"
  /\ \A i \in DOMAIN stack :
       IsHandler(stack[i]) => i > 1 /\ stack[i - 1].walk = stack[i].kind /\ stack[i - 1].at # NULL

Listed == \A k \in Kinds :
  IsInjective(wanted[k]) /\ \E s : Chain(cell, live, s, head[k]) /\ ProcsOf(cell, s) = wanted[k]

Handled(i) == i < Len(stack) /\ stack[i + 1].walk = "code"

Walked == \A i \in DOMAIN stack :
  stack[i].walk \in Kinds =>
    Goes(cell, live, stack[i], ran[stack[i].walk], due[stack[i].walk], Handled(i))

ErrorsRun == (Len(stack) > 1 => stack[2].walk # "error") => ran["error"] = due["error"]

ExitsRun == (\E i \in DOMAIN stack : stack[i] = Walk("files", "stop")) => ran["exit"] = due["exit"]

Signalled == \E i \in DOMAIN stack : stack[i] = Walk("files", "signal")

Handles == Signalled \/ \A f \in Files :
  /\ closed[f] <= 1
  /\ mode[f] = "open" => closed[f] = 0
  /\ mode[f] = "handle" => Top = Walk("close", f)

Ended ==
  /\ end \in {"no", "stop", "signal"}
  /\ end # "no" => Top = Walk("files", end) /\ \A f \in Files : mode[f] = "closed"

EndInv == Types /\ Stacked /\ Listed /\ Walked /\ ErrorsRun /\ ExitsRun /\ Handles /\ Ended

-----------------------------------------------------------------------------
(* The lists. *)

(* A nonempty set of numbers has a least one. *)
LEMMA LeastOf ==
  ASSUME NEW S \in SUBSET Nat, S # {}
  PROVE  \E n \in S : \A m \in S : n <= m
<1> DEFINE R == OpToRel(<, Nat)
<1>1. PICK n \in S : \A m \in S : ~ (<<m, n>> \in R)
  BY NatLessThanWellFounded, WFMin, Zenon
<1>2. ASSUME NEW m \in S PROVE n <= m
  <2>1. <<m, n>> \notin {pair \in Nat \X Nat : pair[1] < pair[2]}
    BY <1>1 DEF OpToRel
  <2>2. <<m, n>> \in Nat \X Nat
    OBVIOUS
  <2>3. ~(m < n)
    BY <2>1, <2>2
  <2> QED
    BY <2>3
<1> QED
  BY <1>2

(* A list without repetition is no longer than there are nodes. *)
LEMMA ChainBound ==
  ASSUME IsFiniteSet(Nodes), NEW s \in Seq(Nodes), IsInjective(s)
  PROVE  Len(s) \in Nat /\ Cardinality(Nodes) \in Nat /\ Len(s) <= Cardinality(Nodes)
<1>1. Len(s) \in Nat /\ s \in [1..Len(s) -> Nodes]
  OBVIOUS
<1>2. s \in Injection(1..Len(s), Nodes)
  BY <1>1 DEF Injection
<1>3. Cardinality(1..Len(s)) <= Cardinality(Nodes)
  BY <1>2, FS_Injection
<1>4. Cardinality(1..Len(s)) = Len(s)
  BY <1>1, FS_Interval
<1> QED
  BY <1>1, <1>3, <1>4, FS_CardinalityType

(* A list that ends with the null pointer is the one that the walk finds. *)
LEMMA WalkFinds ==
  ASSUME ShutdownAssumption, live \subseteq Nodes, NEW k, NEW s, Chain(cell, live, s, head[k])
  PROVE  NodesOf(k) = s
<1> DEFINE N == Cardinality(Nodes)
           L == Len(s)
           Next1(t) == IF t = <<>> THEN head[k] ELSE cell[t[Len(t)]].next
           Step(t) == LET a == Next1(t) IN IF a = NULL \/ a \in Range(t) THEN t ELSE Append(t, a)
           Body(h) == [n \in 0..N |-> IF n = 0 THEN <<>> ELSE Step(h[n - 1])]
           g == [n \in 0..N |-> IF n <= L THEN SubSeq(s, 1, n) ELSE s]
           from == CHOOSE from : from = Body(from)
<1>1. /\ s \in Seq(live) /\ s \in Seq(Nodes) /\ IsInjective(s) /\ L \in Nat /\ N \in Nat /\ L <= N
      /\ DOMAIN s = 1..L /\ NULL \notin Nodes /\ \A i \in 1..L : s[i] \in Nodes
  <2>1. s \in Seq(live) /\ IsInjective(s) /\ IsFiniteSet(Nodes) /\ NULL \notin Nodes
    BY DEF Chain, ShutdownAssumption
  <2>2. s \in Seq(Nodes)
    BY <2>1, SeqMonotonic
  <2> QED
    BY <2>1, <2>2, ChainBound
<1>2. NodesOf(k) = from[N]
  BY DEF NodesOf
<1>3. ASSUME NEW n \in 0..L, n < L
      PROVE  Step(SubSeq(s, 1, n)) = SubSeq(s, 1, n + 1)
  <2>0. n \in Nat /\ n + 1 \in 1..L
    BY <1>1, <1>3
  <2> DEFINE t == SubSeq(s, 1, n)
  <2>1. /\ t \in Seq(Nodes) /\ Len(t) = n /\ \A i \in 1..n : t[i] = s[i]
    BY <1>1, <1>3
  <2>2. Next1(t) = s[n + 1]
    <3>1. CASE n = 0
      <4>1. t = <<>> /\ s # <<>>
        BY <2>1, <3>1, <1>1, <1>3
      <4> QED
        BY <4>1, <3>1 DEF Chain
    <3>2. CASE n # 0
      <4>1. t # <<>> /\ t[Len(t)] = s[n] /\ n \in 1..L - 1 /\ s # <<>>
        BY <2>1, <2>0, <3>2, <1>1, <1>3
      <4> HIDE DEF t
      <4> QED
        BY <4>1 DEF Chain
    <3> QED
      BY <3>1, <3>2
  <2>3. s[n + 1] \in Nodes /\ s[n + 1] # NULL
    BY <1>1, <2>0
  <2>4. s[n + 1] \notin Range(t)
    <3>1. \A i \in 1..n : s[i] # s[n + 1]
      BY <1>1, <2>0 DEF IsInjective
    <3> HIDE DEF t
    <3> QED
      BY <3>1, <2>1 DEF Range
  <2>5. Append(t, s[n + 1]) = SubSeq(s, 1, n + 1)
    <3>1. /\ SubSeq(s, 1, n + 1) \in Seq(Nodes) /\ Len(SubSeq(s, 1, n + 1)) = n + 1
          /\ \A i \in 1..(n + 1) : SubSeq(s, 1, n + 1)[i] = s[i]
      BY <1>1, <2>0
    <3> DEFINE u == SubSeq(s, 1, n + 1)
    <3> HIDE DEF t, u
    <3>2. /\ Append(t, s[n + 1]) \in Seq(Nodes) /\ Len(Append(t, s[n + 1])) = n + 1
          /\ \A i \in 1..(n + 1) : Append(t, s[n + 1])[i] = IF i = n + 1 THEN s[n + 1] ELSE t[i]
      BY <2>0, <2>1, <2>3
    <3>3. \A i \in 1..(n + 1) : Append(t, s[n + 1])[i] = u[i]
      BY <2>0, <2>1, <3>1, <3>2 DEF u
    <3>4. u \in Seq(Nodes) /\ Len(u) = n + 1
      BY <3>1 DEF u
    <3>5. Append(t, s[n + 1]) = u
      BY <3>2, <3>3, <3>4, SeqEqual
    <3> QED
      BY <3>5 DEF u
  <2> HIDE DEF t
  <2>6. Step(t) = Append(t, s[n + 1])
    BY <2>2, <2>3, <2>4
  <2> QED
    BY <2>5, <2>6 DEF t
<1>4. Step(s) = s
  <2>1. Next1(s) = NULL
    BY DEF Chain
  <2> QED
    BY <2>1
<1>5. SubSeq(s, 1, L) = s /\ SubSeq(s, 1, 0) = <<>>
  BY <1>1, SubSeqFull, SubSeqEmpty
<1> HIDE DEF Step, L, N
<1>6. g = Body(g)
  <2>1. ASSUME NEW n \in 0..N
        PROVE  g[n] = IF n = 0 THEN <<>> ELSE Step(g[n - 1])
    <3>1. n \in Nat /\ (n # 0 => n - 1 \in 0..N /\ n - 1 \in Nat)
      BY <1>1
    <3>2. CASE n = 0
      BY <1>1, <1>5, <3>2
    <3>3. CASE n # 0 /\ n <= L
      <4>1. n - 1 \in 0..L /\ n - 1 < L /\ (n - 1) + 1 = n
        BY <3>1, <3>3, <1>1
      <4>2. Step(SubSeq(s, 1, n - 1)) = SubSeq(s, 1, (n - 1) + 1)
        BY <4>1, <1>3
      <4>3. g[n - 1] = SubSeq(s, 1, n - 1) /\ g[n] = SubSeq(s, 1, n)
        BY <3>1, <3>3, <4>1, <1>1
      <4> QED
        BY <3>3, <4>1, <4>2, <4>3
    <3>4. CASE n # 0 /\ ~(n <= L)
      <4>1. g[n] = s
        BY <3>4
      <4>2. g[n - 1] = s
        <5>1. CASE n - 1 <= L
          <6>1. n - 1 = L
            BY <3>1, <3>4, <5>1, <1>1
          <6>2. g[n - 1] = SubSeq(s, 1, L)
            BY <6>1, <3>1, <3>4, <5>1
          <6> QED
            BY <6>2, <1>5
        <5>2. CASE ~(n - 1 <= L)
          BY <3>1, <3>4, <5>2
        <5> QED
          BY <5>1, <5>2
      <4> HIDE DEF g
      <4> QED
        BY <4>1, <4>2, <1>4, <3>4
    <3> QED
      BY <3>2, <3>3, <3>4
  <2>2. DOMAIN g = 0..N /\ g = [n \in 0..N |-> g[n]]
    OBVIOUS
  <2> HIDE DEF g
  <2> QED
    BY <2>1, <2>2
<1>7. from = Body(from)
  <2> HIDE DEF Body, g
  <2> QED
    BY <1>6
<1> HIDE DEF from
<1>8. \A n \in 0..N : from[n] = IF n = 0 THEN <<>> ELSE Step(from[n - 1])
  BY <1>7
<1>9. \A n \in 0..N : g[n] = IF n = 0 THEN <<>> ELSE Step(g[n - 1])
  <2> HIDE DEF g
  <2> QED
    BY <1>6
<1> HIDE DEF g, Body
<1>10. ASSUME {n \in 0..N : from[n] # g[n]} # {}
       PROVE  FALSE
  <2>1. PICK m \in {n \in 0..N : from[n] # g[n]} : \A n \in {n \in 0..N : from[n] # g[n]} : m <= n
    <3> DEFINE D == {n \in 0..N : from[n] # g[n]}
    <3>1. D \in SUBSET Nat /\ D # {}
      BY <1>1, <1>10
    <3> HIDE DEF D
    <3>2. \E m \in D : \A n \in D : m <= n
      BY <3>1, LeastOf
    <3> QED
      BY <3>2 DEF D
  <2>2. m \in 0..N /\ from[m] # g[m]
    BY <2>1
  <2>3. m # 0
    BY <2>2, <1>8, <1>9
  <2>4. m \in Nat /\ m - 1 \in 0..N /\ ~(m <= m - 1)
    BY <2>2, <2>3, <1>1
  <2>5. from[m - 1] = g[m - 1]
    BY <2>1, <2>4
  <2> QED
    BY <2>2, <2>3, <2>5, <1>8, <1>9
<1>11. N \in 0..N
  BY <1>1
<1>12. from[N] = g[N]
  BY <1>10, <1>11
<1>13. g[N] = s
  BY <1>1, <1>5, <1>11 DEF g
<1> QED
  BY <1>2, <1>12, <1>13

(* A list stands while its nodes do. *)
LEMMA ChainStands ==
  ASSUME NEW c, NEW l, NEW d, NEW m, l \subseteq m, \A x \in l : d[x] = c[x],
         NEW s, NEW a, Chain(c, l, s, a)
  PROVE  Chain(d, m, s, a) /\ ProcsOf(d, s) = ProcsOf(c, s)
<1>1. s \in Seq(l) /\ IsInjective(s) /\ Len(s) \in Nat /\ DOMAIN s = 1..Len(s)
      /\ \A i \in 1..Len(s) : s[i] \in l
  BY DEF Chain
<1>2. s \in Seq(m)
  BY <1>1, SeqMonotonic
<1>3. \A i \in 1..Len(s) : d[s[i]] = c[s[i]]
  BY <1>1
<1>4. s # <<>> => Len(s) \in 1..Len(s)
  BY <1>1
<1>5. \A i \in 1..Len(s) - 1 : i \in 1..Len(s)
  BY <1>1
<1>6. s # <<>> => /\ s[1] = a
                  /\ \A i \in 1..Len(s) - 1 : d[s[i]].next = s[i + 1]
                  /\ d[s[Len(s)]].next = NULL
  BY <1>3, <1>4, <1>5 DEF Chain
<1>7. s = <<>> => a = NULL
  BY DEF Chain
<1>8. Chain(d, m, s, a)
  BY <1>1, <1>2, <1>6, <1>7 DEF Chain
<1>9. ProcsOf(d, s) = ProcsOf(c, s)
  BY <1>1, <1>3 DEF ProcsOf
<1> QED
  BY <1>8, <1>9

(* A list without its first node. *)
LEMMA ChainTail ==
  ASSUME NEW c, NEW l, NEW s, NEW a, NEW W, Chain(c, l, s, a), a # NULL, Named(c, l, W)
  PROVE  /\ s # <<>> /\ a \in l
         /\ Chain(c, l, Tail(s), c[a].next)
         /\ ProcsOf(c, s) \in Seq(W) /\ ProcsOf(c, s) # <<>>
         /\ ProcsOf(c, s)[1] = c[a].proc
         /\ ProcsOf(c, Tail(s)) = Tail(ProcsOf(c, s))
<1> DEFINE L == Len(s)
           t == Tail(s)
<1>1. /\ s \in Seq(l) /\ IsInjective(s) /\ L \in Nat /\ DOMAIN s = 1..L /\ L > 0
      /\ \A i \in 1..L : s[i] \in l
      /\ s # <<>> /\ s[1] = a /\ (\A i \in 1..L - 1 : c[s[i]].next = s[i + 1]) /\ c[s[L]].next = NULL
  BY DEF Chain
<1>2. /\ t \in Seq(l) /\ Len(t) = L - 1 /\ DOMAIN t = 1..(L - 1) /\ (\A i \in 1..(L - 1) : t[i] = s[i + 1])
  BY <1>1
<1>3. a \in l
  BY <1>1
<1> HIDE DEF L, t
<1>4. IsInjective(t)
  <2>1. ASSUME NEW i \in 1..(L - 1), NEW j \in 1..(L - 1), t[i] = t[j] PROVE i = j
    <3>1. i + 1 \in 1..L /\ j + 1 \in 1..L /\ s[i + 1] = s[j + 1]
      BY <2>1, <1>1, <1>2
    <3>2. i + 1 = j + 1
      BY <3>1, <1>1 DEF IsInjective
    <3> QED
      BY <3>2
  <2> QED
    BY <2>1, <1>2 DEF IsInjective
<1>7. Chain(c, l, t, c[a].next)
  <2>1. CASE L = 1
    <3>1. t = <<>>
      BY <1>2, <2>1
    <3>2. Chain(c, l, t, c[a].next)
      BY <3>1, <1>1, <1>2, <1>4, <2>1 DEF Chain
    <3> QED
      BY <3>2
  <2>2. CASE L # 1
    <3>1. t # <<>> /\ 1 \in 1..(L - 1) /\ L - 1 \in 1..(L - 1) /\ Len(t) = L - 1
      BY <1>1, <1>2, <2>2
    <3>2. t[1] = c[a].next
      BY <3>1, <1>1, <1>2
    <3>3. t[Len(t)] = s[L]
      BY <3>1, <1>1, <1>2
    <3>4. \A i \in 1..(Len(t) - 1) : c[t[i]].next = t[i + 1]
      <4>1. ASSUME NEW i \in 1..(Len(t) - 1) PROVE c[t[i]].next = t[i + 1]
        <5>1. i \in 1..(L - 1) /\ i + 1 \in 1..(L - 1)
          BY <3>1, <1>1
        <5> QED
          BY <5>1, <1>1, <1>2
      <4> QED
        BY <4>1
    <3> QED
      BY <3>1, <3>2, <3>3, <3>4, <1>1, <1>2, <1>4 DEF Chain
  <2> QED
    BY <2>1, <2>2
<1> DEFINE q == ProcsOf(c, s)
<1>8. q = [i \in 1..L |-> c[s[i]].proc]
  BY <1>1 DEF ProcsOf
<1> HIDE DEF q
<1>9. /\ q \in Seq(W) /\ Len(q) = L /\ q # <<>> /\ q[1] = c[a].proc /\ \A i \in 1..L : q[i] = c[s[i]].proc
  <2>1. q \in [1..L -> W] /\ 1 \in 1..L
    BY <1>1, <1>8 DEF Named
  <2>2. q \in Seq(W)
    BY <2>1, <1>1, SeqDef
  <2> QED
    BY <2>1, <2>2, <1>1, <1>8
<1>10. ProcsOf(c, t) = Tail(q)
  <2>1. Tail(q) \in Seq(W) /\ Len(Tail(q)) = L - 1 /\ \A i \in 1..(L - 1) : Tail(q)[i] = q[i + 1]
    BY <1>1, <1>9
  <2>2. ProcsOf(c, t) = [i \in 1..(L - 1) |-> c[t[i]].proc]
    BY <1>2 DEF ProcsOf
  <2>3. \A i \in 1..(L - 1) : c[t[i]].proc = q[i + 1]
    BY <1>1, <1>2, <1>9
  <2>4. ProcsOf(c, t) \in Seq(W) /\ Len(ProcsOf(c, t)) = L - 1
    <3>1. ProcsOf(c, t) \in [1..(L - 1) -> W] /\ L - 1 \in Nat
      BY <1>1, <1>2, <2>2 DEF Named
    <3> QED
      BY <3>1, SeqDef
  <2>5. \A i \in 1..(L - 1) : ProcsOf(c, t)[i] = Tail(q)[i]
    BY <2>1, <2>2, <2>3
  <2> QED
    BY <2>1, <2>4, <2>5, SeqEqual
<1> QED
  BY <1>1, <1>3, <1>7, <1>9, <1>10 DEF t, q

(* In the cells d the nodes t, m all told, are those of s behind a node a    *)
(* that has the handler p; q are their handlers.                            *)
Fronted(c, l, s, h, a, p, d, m, t, q) ==
  /\ Chain(c, l, s, h) /\ a \notin l /\ d[a] = [next |-> h, proc |-> p] /\ (\A x \in l : d[x] = c[x])
  /\ m = l \cup {a} /\ t = <<a>> \o s /\ q = <<p>> \o ProcsOf(c, s)

(* A list with a new node in front. *)
LEMMA ChainCons ==
  ASSUME NEW c, NEW l, NEW s, NEW h, NEW a, NEW p, NEW d, NEW m, NEW t, NEW q,
         Fronted(c, l, s, h, a, p, d, m, t, q)
  PROVE  Chain(d, m, t, a) /\ ProcsOf(d, t) = q
<1> DEFINE L == Len(s)
<1>1. /\ s \in Seq(l) /\ IsInjective(s) /\ L \in Nat /\ DOMAIN s = 1..L
      /\ (\A i \in 1..L : s[i] \in l /\ d[s[i]] = c[s[i]] /\ s[i] # a)
  BY DEF Chain, Fronted
<1>0. /\ s = <<>> => h = NULL
      /\ s # <<>> => s[1] = h /\ (\A i \in 1..L - 1 : c[s[i]].next = s[i + 1]) /\ c[s[L]].next = NULL
  BY DEF Chain, Fronted
<1>2. s \in Seq(l \cup {a}) /\ <<a>> \in Seq(l \cup {a}) /\ Len(<<a>>) = 1 /\ <<a>>[1] = a
  BY <1>1, SeqMonotonic
<1>3. /\ t \in Seq(l \cup {a}) /\ Len(t) = L + 1 /\ DOMAIN t = 1..(L + 1)
      /\ t[1] = a /\ (\A i \in 1..L : t[i + 1] = s[i])
  <2>1. t = <<a>> \o s
    BY DEF Fronted
  <2> QED
    BY <1>1, <1>2, <2>1
<1>00. d[a] = [next |-> h, proc |-> p] /\ m = l \cup {a} /\ q = <<p>> \o ProcsOf(c, s)
  BY DEF Fronted
<1>4. s = <<>> <=> L = 0
  BY <1>1
<1> HIDE DEF L
<1>5. \A i \in 1..(L + 1) : i = 1 \/ (i - 1 \in 1..L /\ t[i] = s[i - 1])
  BY <1>1, <1>3
<1>6. IsInjective(t)
  <2>1. ASSUME NEW i \in 1..(L + 1), NEW j \in 1..(L + 1), t[i] = t[j] PROVE i = j
    <3>1. CASE i = 1 /\ j = 1
      BY <3>1
    <3>2. CASE i # 1 /\ j # 1
      <4>1. i - 1 \in 1..L /\ j - 1 \in 1..L /\ s[i - 1] = s[j - 1]
        BY <2>1, <3>2, <1>5
      <4>2. i - 1 = j - 1
        BY <4>1, <1>1 DEF IsInjective
      <4> QED
        BY <4>2
    <3>3. CASE i = 1 /\ j # 1
      BY <3>3, <2>1, <1>1, <1>3, <1>5
    <3>4. CASE i # 1 /\ j = 1
      BY <3>4, <2>1, <1>1, <1>3, <1>5
    <3> QED
      BY <3>1, <3>2, <3>3, <3>4
  <2> QED
    BY <2>1, <1>3 DEF IsInjective
<1>7. t # <<>> /\ d[t[Len(t)]].next = NULL
  <2>1. CASE L = 0
    <3>1. h = NULL /\ t # <<>>
      <4>1. s = <<>>
        BY <2>1, <1>4
      <4>2. t \in Seq(l \cup {a}) /\ Len(t) = 1
        BY <2>1, <1>3
      <4> QED
        BY <4>1, <4>2, <1>0
    <3>2. Len(t) = 1
      BY <2>1, <1>3
    <3>3. t[Len(t)] = a
      BY <3>2, <1>3
    <3> QED
      BY <3>1, <3>3, <1>00
  <2>2. CASE L # 0
    <3>1. L \in 1..L /\ t[L + 1] = s[L]
      BY <2>2, <1>1, <1>3
    <3> QED
      BY <3>1, <2>2, <1>0, <1>1, <1>3, <1>4
  <2> QED
    BY <2>1, <2>2
<1>8. ASSUME NEW i \in 1..(Len(t) - 1) PROVE d[t[i]].next = t[i + 1]
  <2>1. i \in 1..L /\ t[i + 1] = s[i]
    BY <1>1, <1>3
  <2>2. CASE i = 1
    BY <2>1, <2>2, <1>0, <1>00, <1>3, <1>4, <1>1
  <2>3. CASE i # 1
    <3>1. i - 1 \in 1..L /\ i - 1 \in 1..L - 1 /\ (i - 1) + 1 = i /\ t[i] = s[i - 1] /\ s # <<>>
      BY <2>1, <2>3, <1>1, <1>3, <1>4, <1>5
    <3> QED
      BY <2>1, <3>1, <1>0, <1>1
  <2> QED
    BY <2>2, <2>3
<1>9. Chain(d, m, t, a)
  BY <1>00, <1>3, <1>6, <1>7, <1>8 DEF Chain
<1>10. ProcsOf(d, t) = <<p>> \o ProcsOf(c, s)
  <2> DEFINE z == ProcsOf(c, s)
             W == {c[x].proc : x \in l} \cup {p}
  <2>1. z = [i \in 1..L |-> c[s[i]].proc] /\ ProcsOf(d, t) = [i \in 1..(L + 1) |-> d[t[i]].proc]
    BY <1>1, <1>3 DEF ProcsOf
  <2>2. z \in [1..L -> W] /\ p \in W
    BY <1>1, <2>1
  <2> HIDE DEF z, W
  <2>3. z \in Seq(W) /\ Len(z) = L
    <3>1. z \in Seq(W)
      BY <2>2, <1>1, SeqDef
    <3> QED
      BY <2>2, <3>1, <1>1
  <2>4. /\ <<p>> \o z \in Seq(W) /\ Len(<<p>> \o z) = L + 1
        /\ (<<p>> \o z)[1] = p /\ \A i \in 1..L : (<<p>> \o z)[i + 1] = z[i]
    BY <2>2, <2>3, <1>1
  <2> DEFINE v == <<p>> \o z
  <2> HIDE DEF v
  <2>5. v \in Seq(W) /\ Len(v) = L + 1 /\ v[1] = p /\ \A i \in 1..L : v[i + 1] = z[i]
    BY <2>4 DEF v
  <2>6. ASSUME NEW i \in 1..(L + 1) PROVE v[i] = d[t[i]].proc
    <3>1. CASE i = 1
      BY <3>1, <2>5, <1>3, <1>00
    <3>2. CASE i # 1
      <4>1. i - 1 \in 1..L /\ (i - 1) + 1 = i /\ t[i] = s[i - 1]
        BY <3>2, <1>1, <1>5
      <4> QED
        <5>1. v[i] = z[i - 1] /\ z[i - 1] = c[s[i - 1]].proc
          BY <4>1, <2>1, <2>5
        <5>2. d[t[i]] = c[s[i - 1]]
          BY <4>1, <1>1
        <5> QED
          BY <5>1, <5>2
    <3> QED
      BY <3>1, <3>2
  <2>7. v = [i \in 1..(L + 1) |-> v[i]]
    <3>1. DOMAIN v = 1..(L + 1)
      BY <2>5
    <3> QED
      BY <2>5, <3>1
  <2>8. v = ProcsOf(d, t)
    BY <2>1, <2>6, <2>7
  <2> QED
    BY <2>8 DEF v, z
<1> QED
  BY <1>00, <1>9, <1>10

(* The handlers of a list are as many as its nodes. *)
LEMMA ProcsType ==
  ASSUME NEW c, NEW l, NEW s, NEW a, NEW W, Chain(c, l, s, a), Named(c, l, W)
  PROVE  ProcsOf(c, s) \in Seq(W) /\ Len(ProcsOf(c, s)) = Len(s) /\ DOMAIN ProcsOf(c, s) = 1..Len(s)
         /\ (\A i \in 1..Len(s) : ProcsOf(c, s)[i] = c[s[i]].proc) /\ DOMAIN s = 1..Len(s) /\ Len(s) \in Nat
<1>1. s \in Seq(l) /\ Len(s) \in Nat /\ DOMAIN s = 1..Len(s) /\ \A i \in 1..Len(s) : s[i] \in l
  BY DEF Chain
<1>2. ProcsOf(c, s) = [i \in 1..Len(s) |-> c[s[i]].proc]
  BY <1>1 DEF ProcsOf
<1>3. ProcsOf(c, s) \in [1..Len(s) -> W]
  BY <1>1, <1>2 DEF Named
<1>4. ProcsOf(c, s) \in Seq(W)
  BY <1>1, <1>3, SeqDef
<1> QED
  BY <1>1, <1>2, <1>3, <1>4

-----------------------------------------------------------------------------
(* The walks. *)

(* A walk is where it was while the nodes stand. *)
LEMMA GoesStands ==
  ASSUME NEW c, NEW l, NEW d, NEW m, l \subseteq m, \A x \in l : d[x] = c[x],
         NEW w, NEW r, NEW e, NEW b, Goes(c, l, w, r, e, b)
  PROVE  Goes(d, m, w, r, e, b)
<1>1. PICK s : Chain(c, l, s, w.at) /\ e = r \o (IF b THEN Tail(ProcsOf(c, s)) ELSE ProcsOf(c, s))
  BY DEF Goes
<1>2. Chain(d, m, s, w.at) /\ ProcsOf(d, s) = ProcsOf(c, s)
  BY <1>1, ChainStands
<1> QED
  BY <1>1, <1>2 DEF Goes

(* A walk begins with all that is due. *)
LEMMA GoesBegins ==
  ASSUME NEW c, NEW l, NEW s, NEW w, NEW e, NEW W, e \in Seq(W),
         Chain(c, l, s, w.at), ProcsOf(c, s) = e
  PROVE  Goes(c, l, w, <<>>, e, FALSE)
<1>1. e = <<>> \o e
  BY ConcatEmptySeq
<1>2. e = <<>> \o ProcsOf(c, s)
  BY <1>1
<1> QED
  BY <1>2 DEF Goes

(* It calls the next handler ... *)
LEMMA GoesCalls ==
  ASSUME NEW c, NEW l, NEW w, NEW r, NEW e, NEW W, r \in Seq(W), Named(c, l, W),
         Goes(c, l, w, r, e, FALSE), w.at # NULL
  PROVE  Goes(c, l, w, Append(r, c[w.at].proc), e, TRUE)
<1>1. PICK s : Chain(c, l, s, w.at) /\ e = r \o ProcsOf(c, s)
  BY DEF Goes
<1> DEFINE q == ProcsOf(c, s)
           p == c[w.at].proc
<1>2. q \in Seq(W) /\ q # <<>> /\ q[1] = p /\ p \in W
  <2>1. w.at \in l /\ q \in Seq(W) /\ q # <<>> /\ q[1] = p
    BY <1>1, ChainTail
  <2> QED
    BY <2>1
<1> HIDE DEF q, p
<1>3. q = <<p>> \o Tail(q) /\ Tail(q) \in Seq(W) /\ <<p>> \in Seq(W)
  <2>1. Len(q) \in Nat /\ 1 \in 1..Len(q) /\ Len(q) \in 1..Len(q)
    BY <1>2
  <2>2. q = SubSeq(q, 1, Len(q)) /\ Tail(q) = SubSeq(q, 2, Len(q))
    BY <1>2, SubSeqFull, TailIsSubSeq
  <2>3. SubSeq(q, 1, Len(q)) = <<q[1]>> \o SubSeq(q, 1 + 1, Len(q))
    BY <1>2, <2>1, SubSeqRecursiveFirst
  <2>4. Tail(q) \in Seq(W)
    BY <1>2
  <2> QED
    BY <1>2, <2>2, <2>3, <2>4
<1>4. e = (r \o <<p>>) \o Tail(q)
  <2>1. e = r \o q
    BY <1>1 DEF q
  <2>2. (r \o <<p>>) \o Tail(q) = r \o (<<p>> \o Tail(q))
    BY <1>3, ConcatAssociative
  <2> QED
    BY <2>1, <2>2, <1>3
<1>5. Append(r, p) = r \o <<p>>
  BY <1>2, AppendIsConcat
<1>6. e = Append(r, p) \o Tail(q)
  BY <1>4, <1>5
<1> QED
  BY <1>1, <1>6 DEF Goes, q, p

(* ... goes on behind it when it returns ... *)
LEMMA GoesOn ==
  ASSUME NEW c, NEW l, NEW w, NEW x, NEW r, NEW e,
         Goes(c, l, w, r, e, TRUE), w.at # NULL, x.at = c[w.at].next
  PROVE  w.at \in l /\ Goes(c, l, x, r, e, FALSE)
<1>1. PICK s : Chain(c, l, s, w.at) /\ e = r \o Tail(ProcsOf(c, s))
  BY DEF Goes
<1> DEFINE W == {c[y].proc : y \in l}
<1>2. Named(c, l, W)
  BY DEF Named
<1> HIDE DEF W
<1>3. w.at \in l /\ Chain(c, l, Tail(s), x.at) /\ ProcsOf(c, Tail(s)) = Tail(ProcsOf(c, s))
  <2>1. w.at \in l /\ Chain(c, l, Tail(s), c[w.at].next) /\ ProcsOf(c, Tail(s)) = Tail(ProcsOf(c, s))
    BY <1>1, <1>2, ChainTail
  <2> QED
    BY <2>1
<1>4. e = r \o ProcsOf(c, Tail(s))
  BY <1>1, <1>3
<1> QED
  BY <1>3, <1>4 DEF Goes

(* ... and has run what was due at the null pointer. *)
LEMMA GoesEnds ==
  ASSUME NEW c, NEW l, NEW w, NEW r, NEW e, NEW W, r \in Seq(W), NULL \notin l,
         Goes(c, l, w, r, e, FALSE), w.at = NULL
  PROVE  r = e
<1>1. PICK s : Chain(c, l, s, w.at) /\ e = r \o ProcsOf(c, s)
  BY DEF Goes
<1>2. s = <<>>
  <2>1. s \in Seq(l) /\ (s # <<>> => s[1] = NULL)
    BY <1>1 DEF Chain
  <2>2. s # <<>> => s[1] \in l
    BY <2>1
  <2> QED
    BY <2>1, <2>2
<1>3. ProcsOf(c, s) = <<>>
  BY <1>2 DEF ProcsOf
<1> QED
  BY <1>1, <1>3, ConcatEmptySeq

-----------------------------------------------------------------------------
(* Handlers that are removed. *)

(* What is not in a sequence is not taken out. *)
LEMMA RemoveNone ==
  ASSUME NEW W, NEW q \in Seq(W), NEW p, \A i \in 1..Len(q) : q[i] # p
  PROVE  RemoveFirst(q, p) = q
BY DEF RemoveFirst

(* What a sequence begins with is taken off. *)
LEMMA RemoveHead ==
  ASSUME NEW W, NEW q \in Seq(W), q # <<>>, NEW p, q[1] = p
  PROVE  RemoveFirst(q, p) = Tail(q)
<1> DEFINE I == {i \in 1..Len(q) : q[i] = p}
<1>1. Len(q) \in Nat /\ 1 \in 1..Len(q) /\ 1 \in I /\ I \subseteq Nat /\ \A i \in I : 1 <= i
  OBVIOUS
<1> HIDE DEF I
<1>2. Min(I) = 1
  <2>1. Min(I) \in I /\ \A y \in I : Min(I) <= y
    BY <1>1 DEF Min
  <2> DEFINE m == Min(I)
  <2>2. m \in I /\ \A y \in I : m <= y
    BY <2>1
  <2> HIDE DEF m
  <2>3. m \in Nat /\ m <= 1 /\ 1 <= m
    BY <1>1, <2>2
  <2>4. m = 1
    BY <2>3
  <2> QED
    BY <2>4 DEF m
<1>3. RemoveFirst(q, p) = RemoveAt(q, IF I # {} THEN Min(I) ELSE 0)
  BY <1>1 DEF RemoveFirst, SelectInSeq, I
<1>4. RemoveAt(q, 1) = SubSeq(q, 1, 0) \o SubSeq(q, 2, Len(q))
  BY DEF RemoveAt
<1>5. SubSeq(q, 1, 0) = <<>> /\ SubSeq(q, 2, Len(q)) = Tail(q) /\ Tail(q) \in Seq(W)
  BY SubSeqEmpty, TailIsSubSeq, HeadTailProperties
<1>6. <<>> \o Tail(q) = Tail(q)
  BY <1>5, ConcatEmptySeq
<1> QED
  BY <1>1, <1>2, <1>3, <1>4, <1>5, <1>6

(* The rest of a sequence without repetition has none, and not its head. *)
LEMMA TailInjective ==
  ASSUME NEW W, NEW q \in Seq(W), q # <<>>, IsInjective(q)
  PROVE  IsInjective(Tail(q)) /\ \A i \in 1..Len(Tail(q)) : Tail(q)[i] # q[1]
<1> DEFINE t == Tail(q)
           L == Len(q)
<1>1. /\ L \in Nat /\ L >= 1 /\ DOMAIN q = 1..L /\ Len(t) = L - 1 /\ DOMAIN t = 1..(L - 1)
      /\ \A i \in 1..(L - 1) : t[i] = q[i + 1]
  OBVIOUS
<1>2. \A i, j \in 1..L : q[i] = q[j] => i = j
  BY <1>1 DEF IsInjective
<1> HIDE DEF t, L
<1>3. ASSUME NEW i \in 1..(L - 1), NEW j \in 1..(L - 1), t[i] = t[j] PROVE i = j
  <2>1. i + 1 \in 1..L /\ j + 1 \in 1..L /\ q[i + 1] = q[j + 1]
    BY <1>1, <1>3
  <2>2. i + 1 = j + 1
    BY <1>2, <2>1
  <2> QED
    BY <2>2
<1>4. ASSUME NEW i \in 1..(L - 1) PROVE t[i] # q[1]
  <2>1. i + 1 \in 1..L /\ 1 \in 1..L /\ i + 1 # 1 /\ t[i] = q[i + 1]
    BY <1>1
  <2> QED
    BY <1>2, <2>1
<1> QED
  BY <1>1, <1>3, <1>4 DEF t, L, IsInjective

(* What a new handler is put in front of has no repetition with it. *)
LEMMA ConsInjective ==
  ASSUME NEW W, NEW q \in Seq(W), NEW p \in W, IsInjective(q), \A i \in 1..Len(q) : q[i] # p
  PROVE  <<p>> \o q \in Seq(W) /\ IsInjective(<<p>> \o q)
<1> DEFINE t == <<p>> \o q
           L == Len(q)
<1>1. /\ L \in Nat /\ DOMAIN q = 1..L /\ t \in Seq(W) /\ Len(t) = L + 1 /\ DOMAIN t = 1..(L + 1)
      /\ t[1] = p /\ \A i \in 1..L : t[i + 1] = q[i]
  OBVIOUS
<1> HIDE DEF t, L
<1>2. \A i \in 1..(L + 1) : i = 1 \/ (i - 1 \in 1..L /\ t[i] = q[i - 1])
  BY <1>1
<1>3. ASSUME NEW i \in 1..(L + 1), NEW j \in 1..(L + 1), t[i] = t[j] PROVE i = j
  <2>1. CASE i = 1 /\ j = 1
    BY <2>1
  <2>2. CASE i # 1 /\ j # 1
    <3>1. i - 1 \in 1..L /\ j - 1 \in 1..L /\ q[i - 1] = q[j - 1]
      BY <1>3, <2>2, <1>2
    <3>2. i - 1 = j - 1
      BY <3>1, <1>1 DEF IsInjective
    <3> QED
      BY <3>2
  <2>3. CASE i = 1 /\ j # 1
    BY <2>3, <1>1, <1>2, <1>3 DEF L
  <2>4. CASE i # 1 /\ j = 1
    BY <2>4, <1>1, <1>2, <1>3 DEF L
  <2> QED
    BY <2>1, <2>2, <2>3, <2>4
<1> QED
  BY <1>1, <1>3 DEF t, IsInjective

(* Where only the newest handler is removed or registered again, a removal  *)
(* takes the node at the head off, if it is there, and frees none.          *)
LEMMA Removal ==
  ASSUME ShutdownAssumption, Removals = "newest", Types, Listed,
         NEW k \in Kinds, NEW p \in Procs, Allowed(k, p)
  PROVE  LET u == Unlinked(k, Place(k, p))
         IN  /\ u.cell = cell /\ u.live = live
             /\ u.head \in Nodes \cup {NULL}
             /\ Without(k, p) \in Seq(Who) /\ IsInjective(Without(k, p))
             /\ \A i \in 1..Len(Without(k, p)) : Without(k, p)[i] # p
             /\ \E s : Chain(cell, live, s, u.head) /\ ProcsOf(cell, s) = Without(k, p)
<1> DEFINE q == wanted[k]
           u == Unlinked(k, Place(k, p))
<1>1. PICK s : Chain(cell, live, s, head[k]) /\ ProcsOf(cell, s) = q
  BY DEF Listed
<1>2. /\ q \in Seq(Who) /\ IsInjective(q) /\ live \subseteq Nodes /\ head[k] \in Nodes \cup {NULL}
      /\ (\A x \in live : cell[x].next \in Nodes \cup {NULL} /\ cell[x].proc \in Who)
      /\ NULL \notin Nodes
  BY DEF Types, Listed, ShutdownAssumption
<1>3. NodesOf(k) = s
  BY <1>1, <1>2, WalkFinds
<1>4. Named(cell, live, Who)
  BY <1>2 DEF Named
<1>5. /\ Len(q) = Len(s) /\ DOMAIN s = 1..Len(s) /\ Len(s) \in Nat
      /\ \A i \in 1..Len(s) : q[i] = cell[s[i]].proc
  BY <1>1, <1>4, ProcsType
<1> DEFINE at == {i \in 1..Len(s) : q[i] = p}
<1>6. Place(k, p) = IF at = {} THEN 0 ELSE CHOOSE i \in at : \A j \in at : i <= j
  <2>1. {i \in DOMAIN NodesOf(k) : cell[NodesOf(k)[i]].proc = p} = at
    BY <1>3, <1>5
  <2> DEFINE Least(S) == IF S = {} THEN 0 ELSE CHOOSE i \in S : \A j \in S : i <= j
  <2>2. Place(k, p) = Least({i \in DOMAIN NodesOf(k) : cell[NodesOf(k)[i]].proc = p})
    BY DEF Place
  <2> HIDE DEF Least, at
  <2>3. Place(k, p) = Least(at)
    BY <2>1, <2>2
  <2> QED
    BY <2>3 DEF Least
<1>7. CASE at = {}
  <2>1. Place(k, p) = 0
    BY <1>6, <1>7
  <2>2. u = [head |-> head[k], cell |-> cell, live |-> live]
    BY <2>1 DEF Unlinked
  <2>3. \A i \in 1..Len(q) : q[i] # p
    BY <1>5, <1>7
  <2>4. Without(k, p) = q
    BY <1>2, <2>3, RemoveNone DEF Without
  <2>5. u.cell = cell /\ u.live = live /\ u.head = head[k]
    BY <2>2
  <2> HIDE DEF q, u
  <2> QED
    BY <2>3, <2>4, <2>5, <1>1, <1>2 DEF u
<1>8. CASE at # {}
  <2>1. at \subseteq Nat /\ at # {} /\ \A i \in at : i >= 1
    BY <1>5, <1>8
  <2>2. PICK m \in at : \A j \in at : m <= j
    <3> HIDE DEF at
    <3> QED
      BY <2>1, LeastOf
  <2>3. Place(k, p) \in at
    <3> HIDE DEF at
    <3> QED
      BY <1>6, <2>2, <1>8
  <2>4. Place(k, p) = 1
    <3>1. Place(k, p) \in {0, 1}
      BY DEF Allowed
    <3> HIDE DEF at
    <3> QED
      BY <2>1, <2>3, <3>1
  <2>5. 1 \in 1..Len(s) /\ q[1] = p /\ q # <<>> /\ s # <<>>
    BY <2>3, <2>4, <1>5
  <2>6. u = [head |-> cell[s[1]].next, cell |-> cell, live |-> live]
    BY <2>4, <1>3 DEF Unlinked
  <2>7. s[1] = head[k] /\ head[k] # NULL
    BY <2>5, <1>1, <1>2 DEF Chain
  <2>8. u.cell = cell /\ u.live = live /\ u.head = cell[head[k]].next
    BY <2>6, <2>7
  <2> HIDE DEF at, q, u
  <2>9. /\ head[k] \in live /\ Chain(cell, live, Tail(s), cell[head[k]].next)
        /\ ProcsOf(cell, Tail(s)) = Tail(q)
    <3>1. /\ head[k] \in live /\ Chain(cell, live, Tail(s), cell[head[k]].next)
          /\ ProcsOf(cell, Tail(s)) = Tail(ProcsOf(cell, s))
      BY <1>1, <1>4, <2>7, ChainTail
    <3> QED
      BY <3>1, <1>1
  <2>10. Without(k, p) = Tail(q)
    BY <1>2, <2>5, RemoveHead DEF Without, q
  <2>11. /\ Tail(q) \in Seq(Who) /\ IsInjective(Tail(q))
         /\ \A i \in 1..Len(Tail(q)) : Tail(q)[i] # p
    BY <1>2, <2>5, TailInjective
  <2> QED
    BY <2>8, <2>9, <2>10, <2>11, <1>2 DEF u
<1> QED
  BY <1>7, <1>8

-----------------------------------------------------------------------------
(* The stack. *)

Activation == Activations \cup {MainProgram}

(* The activations under place m stand, and y is on top. *)
Changed(m, y) ==
  /\ m \in 1..(Len(stack) + 1) /\ stack' \in Seq(Activation) /\ Len(stack') = m
  /\ \A i \in 1..(m - 1) : stack'[i] = stack[i]
  /\ stack'[m] = y

(* What an activation is follows from what it walks. *)
LEMMA FrameKinds ==
  ASSUME NEW x \in Activation
  PROVE  /\ x.walk \in {"code", "error", "exit", "close", "files"}
         /\ x.walk = "code" => x.kind \in {"main", "error", "exit"} /\ (x.kind = "main" <=> x = MainProgram)
         /\ x.walk \in Kinds => x.at \in Nodes \cup {NULL}
         /\ x.walk = "close" => x.at \in Files /\ x = Walk("close", x.at)
         /\ x.walk = "files" => x.at \in {"stop", "signal"} /\ x = Walk("files", x.at)
         /\ (x = Walk("files", "signal") => x.walk = "files") /\ Level(x) \in 0..6
         /\ (Level(x) = 0 <=> x = MainProgram) /\ (Level(x) = 6 <=> x = Walk("files", "signal"))
         /\ (Level(x) = 1 <=> x.walk = "error") /\ (Level(x) = 3 <=> x.walk = "exit")
<1>1. /\ "exit" # "code" /\ "error" # "code" /\ Kinds = {"exit", "error"}
  BY DEF Kinds
<1>2. CASE x \in [walk : Kinds, at : Nodes \cup {NULL}]
  <2>1. x.walk \in Kinds /\ x.at \in Nodes \cup {NULL} /\ x.walk \in {"exit", "error"}
    BY <1>2, <1>1
  <2>2. x # MainProgram /\ x # Walk("files", "signal")
    BY <2>1 DEF MainProgram, Code, Walk
  <2> QED
    BY <2>1, <2>2 DEF Level
<1>3. CASE x \in [walk : {"code"}, kind : Kinds, proc : Who]
  <2>1. x.walk = "code" /\ x.kind \in {"exit", "error"}
    BY <1>3, <1>1
  <2>2. x # MainProgram /\ x # Walk("files", "signal")
    BY <2>1 DEF MainProgram, Code, Walk
  <2> QED
    BY <2>1, <2>2, <1>1 DEF Level
<1>4. CASE x \in [walk : {"close"}, at : Files]
  <2>1. x.walk = "close" /\ x.at \in Files /\ x = Walk("close", x.at)
    BY <1>4 DEF Walk
  <2>2. x # MainProgram /\ x # Walk("files", "signal")
    BY <2>1 DEF MainProgram, Code, Walk
  <2> QED
    BY <2>1, <2>2, <1>1 DEF Level
<1>5. CASE x \in [walk : {"files"}, at : {"stop", "signal"}]
  <2>1. x.walk = "files" /\ x.at \in {"stop", "signal"} /\ x = Walk("files", x.at)
    BY <1>5 DEF Walk
  <2>2. x # MainProgram
    BY <2>1 DEF MainProgram, Code
  <2> QED
    BY <2>1, <2>2, <1>1 DEF Level
<1>6. CASE x = MainProgram
  <2>1. x.walk = "code" /\ x.kind = "main"
    BY <1>6 DEF MainProgram, Code
  <2>2. x # Walk("files", "signal")
    BY <2>1 DEF Walk
  <2> QED
    BY <1>6, <2>1, <2>2, <1>1 DEF Level
<1> QED
  BY <1>2, <1>3, <1>4, <1>5, <1>6 DEF Activation, Activations

(* The new activations. *)
LEMMA FrameLevels ==
  /\ \A f \in Files : Walk("close", f) \in Activation /\ Walk("close", f).walk = "close" /\ Walk("close", f).at = f
  /\ \A a \in Nodes \cup {NULL} :
       /\ Walk("exit", a) \in Activation /\ Walk("exit", a).walk = "exit" /\ Walk("exit", a).at = a
       /\ Walk("error", a) \in Activation /\ Walk("error", a).walk = "error" /\ Walk("error", a).at = a
       /\ Level(Walk("exit", a)) = 3 /\ Level(Walk("error", a)) = 1
  /\ \A e \in {"stop", "signal"} : Walk("files", e) \in Activation /\ Walk("files", e).walk = "files"
  /\ Level(Walk("files", "stop")) = 5 /\ Level(Walk("files", "signal")) = 6
  /\ Walk("files", "stop") # Walk("files", "signal")
  /\ \A k \in Kinds, p \in Who :
       /\ Code(k, p) \in Activation /\ Code(k, p).walk = "code" /\ Code(k, p).kind = k
       /\ Level(Code(k, p)) = IF k = "error" THEN 2 ELSE 4
<1>1. \A f \in Files : Walk("close", f) \in Activation /\ Walk("close", f).walk = "close" /\ Walk("close", f).at = f
  BY DEF Activation, Activations, Walk
<1>2. ASSUME NEW a \in Nodes \cup {NULL}
      PROVE  /\ Walk("exit", a) \in Activation /\ Walk("exit", a).walk = "exit" /\ Walk("exit", a).at = a
             /\ Walk("error", a) \in Activation /\ Walk("error", a).walk = "error" /\ Walk("error", a).at = a
  BY DEF Activation, Activations, Walk, Kinds
<1>3. ASSUME NEW a \in Nodes \cup {NULL} PROVE Level(Walk("exit", a)) = 3 /\ Level(Walk("error", a)) = 1
  BY <1>2 DEF Level
<1>4. /\ \A e \in {"stop", "signal"} : Walk("files", e) \in Activation /\ Walk("files", e).walk = "files"
      /\ Walk("files", "stop") # Walk("files", "signal")
  BY DEF Activation, Activations, Walk
<1>5. Level(Walk("files", "stop")) = 5 /\ Level(Walk("files", "signal")) = 6
  BY <1>4 DEF Level
<1>6. ASSUME NEW k \in Kinds, NEW p \in Who
      PROVE  Code(k, p) \in Activation /\ Code(k, p).walk = "code" /\ Code(k, p).kind = k
  BY DEF Activation, Activations, Code
<1>7. ASSUME NEW k \in Kinds, NEW p \in Who
      PROVE  Level(Code(k, p)) = IF k = "error" THEN 2 ELSE 4
  BY <1>6 DEF Level, Kinds
<1> QED
  BY <1>1, <1>2, <1>3, <1>4, <1>5, <1>6, <1>7

(* The stack begins with the main program and ends with its top. *)
LEMMA StackFacts ==
  ASSUME Types, Stacked
  PROVE  /\ stack \in Seq(Activation) /\ Len(stack) \in Nat /\ Len(stack) >= 1 /\ DOMAIN stack = 1..Len(stack)
         /\ Top = stack[Len(stack)] /\ Top \in Activation /\ (\A i \in 1..Len(stack) : stack[i] \in Activation)
         /\ stack[1] = MainProgram /\ (Len(stack) = 1 <=> Top = MainProgram)
         /\ (Top.walk # "close" => \A i \in 1..(Len(stack) - 1) : Level(stack[i]) < Level(Top))
         /\ (Top.walk = "error" => Len(stack) = 2)
<1>1. /\ stack \in Seq(Activation) /\ Len(stack) \in Nat /\ Len(stack) >= 1 /\ DOMAIN stack = 1..Len(stack)
      /\ Top = stack[Len(stack)] /\ Top \in Activation /\ (\A i \in 1..Len(stack) : stack[i] \in Activation)
      /\ stack[1] = MainProgram
  BY DEF Types, Stacked, Activation, Top
<1>2. Top.walk # "close" => \A i \in 1..(Len(stack) - 1) : Level(stack[i]) < Level(Top)
  <2>1. ASSUME Top.walk # "close", NEW i \in 1..(Len(stack) - 1) PROVE Level(stack[i]) < Level(Top)
    <3>1. i \in DOMAIN stack /\ Len(stack) \in DOMAIN stack /\ i < Len(stack)
      BY <1>1
    <3>2. Level(stack[i]) < Level(stack[Len(stack)]) \/ stack[Len(stack)].walk = "close"
      BY <3>1 DEF Stacked
    <3> QED
      BY <3>2, <2>1, <1>1
  <2> QED
    BY <2>1
<1>3. Level(MainProgram) = 0 /\ MainProgram.walk = "code"
  BY DEF Level, MainProgram, Code
<1>4. ASSUME Top = MainProgram PROVE Len(stack) = 1
  <2>1. ASSUME Len(stack) # 1 PROVE FALSE
    <3>1. 1 \in 1..(Len(stack) - 1)
      BY <1>1, <2>1
    <3>2. Level(stack[1]) < Level(Top)
      BY <3>1, <1>2, <1>3, <1>4
    <3> QED
      BY <3>2, <1>1, <1>3, <1>4
  <2> QED
    BY <2>1
<1>5. ASSUME Top.walk = "error" PROVE Len(stack) = 2
  <2>1. Level(Top) = 1 /\ Len(stack) # 1
    BY <1>1, <1>3, <1>5, FrameKinds
  <2>2. ASSUME Len(stack) # 2 PROVE FALSE
    <3>1. 2 \in 1..(Len(stack) - 1) /\ 1 \in DOMAIN stack /\ 2 \in DOMAIN stack
      BY <1>1, <2>1, <2>2
    <3>2. Level(stack[2]) < 1
      BY <3>1, <2>1, <1>2, <1>5
    <3>3. stack[2] \in Activation
      BY <3>1, <1>1
    <3>4. Level(stack[2]) = 0
      BY <3>2, <3>3, FrameKinds
    <3>5. stack[2] = MainProgram
      BY <3>3, <3>4, FrameKinds
    <3>6. Level(stack[1]) < Level(stack[2]) \/ stack[2].walk = "close"
      BY <3>1 DEF Stacked
    <3> QED
      BY <3>5, <3>6, <1>1, <1>3
  <2> QED
    BY <2>2
<1> QED
  BY <1>1, <1>2, <1>4, <1>5

(* An activation is put on the stack ... *)
LEMMA Pushed ==
  ASSUME Types, Stacked, NEW y \in Activation, stack' = Append(stack, y)
  PROVE  Changed(Len(stack) + 1, y)
<1>1. stack \in Seq(Activation) /\ Len(stack) \in Nat
  BY StackFacts
<1>2. /\ Append(stack, y) \in Seq(Activation) /\ Len(Append(stack, y)) = Len(stack) + 1
      /\ (\A i \in 1..Len(stack) : Append(stack, y)[i] = stack[i])
      /\ Append(stack, y)[Len(stack) + 1] = y
  BY <1>1, AppendProperties
<1> QED
  BY <1>1, <1>2 DEF Changed

(* ... and taken from it ... *)
LEMMA FrontFacts ==
  ASSUME Types, Stacked, Len(stack) > 1
  PROVE  /\ Front(stack) \in Seq(Activation) /\ Len(Front(stack)) = Len(stack) - 1
         /\ \A i \in 1..(Len(stack) - 1) : Front(stack)[i] = stack[i]
<1>1. stack \in Seq(Activation) /\ Len(stack) \in Nat /\ \A i \in 1..Len(stack) : stack[i] \in Activation
  BY StackFacts
<1>2. 1 \in Int /\ Len(stack) - 1 \in Int /\ \A i \in 1..(Len(stack) - 1) : stack[i] \in Activation
  BY <1>1
<1>3. /\ SubSeq(stack, 1, Len(stack) - 1) \in Seq(Activation)
      /\ Len(SubSeq(stack, 1, Len(stack) - 1))
           = IF 1 <= Len(stack) - 1 THEN (Len(stack) - 1) - 1 + 1 ELSE 0
      /\ \A i \in 1..((Len(stack) - 1) - 1 + 1) : SubSeq(stack, 1, Len(stack) - 1)[i] = stack[1 + i - 1]
  BY <1>2, SubSeqProperties
<1>4. (Len(stack) - 1) - 1 + 1 = Len(stack) - 1 /\ \A i \in 1..(Len(stack) - 1) : 1 + i - 1 = i
  BY <1>1
<1> QED
  BY <1>1, <1>3, <1>4 DEF Front

(* ... so that the one below is on top ... *)
LEMMA Popped ==
  ASSUME Types, Stacked, Len(stack) > 1, stack' = Front(stack)
  PROVE  Changed(Len(stack) - 1, stack[Len(stack) - 1])
<1>1. Len(stack) - 1 \in 1..(Len(stack) + 1) /\ Len(stack) - 1 \in 1..(Len(stack) - 1)
      /\ \A i \in 1..((Len(stack) - 1) - 1) : i \in 1..(Len(stack) - 1)
  BY StackFacts
<1> QED
  BY <1>1, FrontFacts DEF Changed

(* ... or another takes its place. *)
LEMMA Replaced ==
  ASSUME Types, Stacked, Len(stack) > 1, NEW y \in Activation, stack' = Replace(y)
  PROVE  Changed(Len(stack), y)
<1>1. Len(stack) \in Nat
  BY StackFacts
<1> DEFINE w == Front(stack)
<1>2. w \in Seq(Activation) /\ Len(w) = Len(stack) - 1 /\ \A i \in 1..(Len(stack) - 1) : w[i] = stack[i]
  BY FrontFacts
<1> HIDE DEF w
<1>3. /\ Append(w, y) \in Seq(Activation) /\ Len(Append(w, y)) = Len(w) + 1
      /\ (\A i \in 1..Len(w) : Append(w, y)[i] = w[i]) /\ Append(w, y)[Len(w) + 1] = y
  BY <1>2, AppendProperties
<1>4. stack' = Append(w, y)
  BY DEF Replace, w
<1>5. Len(w) + 1 = Len(stack) /\ Len(stack) \in 1..(Len(stack) + 1)
  BY <1>1, <1>2
<1> QED
  BY <1>2, <1>3, <1>4, <1>5 DEF Changed

(* The order on the stack is kept. *)
LEMMA StackKept ==
  ASSUME Types, Stacked, NEW m, NEW y \in Activation, Changed(m, y),
         \A i \in 1..(m - 1) : Level(stack[i]) < Level(y) \/ y.walk = "close",
         IsHandler(y) => m > 1 /\ stack[m - 1].walk = y.kind /\ stack[m - 1].at # NULL,
         m = 1 => y = MainProgram
  PROVE  Stacked' /\ Top' = y
<1> DEFINE L == Len(stack)
<1>1. /\ L \in Nat /\ m \in 1..(L + 1) /\ stack' \in Seq(Activation) /\ Len(stack') = m
      /\ DOMAIN stack = 1..L /\ DOMAIN stack' = 1..m /\ m \in Nat /\ m >= 1
      /\ (\A i \in 1..(m - 1) : stack'[i] = stack[i] /\ i \in 1..L)
      /\ stack'[m] = y
  BY StackFacts DEF Changed
<1>2. stack' # <<>> /\ stack'[1] = MainProgram
  <2>1. CASE m = 1
    <3>1. stack'[1] = MainProgram
      BY <1>1, <2>1
    <3>2. stack' \in Seq(Activation) /\ Len(stack') # 0
      BY <1>1, <2>1
    <3>3. stack' # <<>>
      BY <3>2, EmptySeq, Zenon
    <3> QED
      BY <3>1, <3>3
  <2>2. CASE m # 1
    <3>1. 1 \in 1..(m - 1)
      BY <1>1, <2>2
    <3> QED
      BY <3>1, <1>1, StackFacts
  <2> QED
    BY <2>1, <2>2
<1> HIDE DEF L
<1>3. ASSUME NEW i \in 1..m, NEW j \in 1..m, i < j
      PROVE  Level(stack'[i]) < Level(stack'[j]) \/ stack'[j].walk = "close"
  <2>1. i \in 1..(m - 1) /\ stack'[i] = stack[i]
    BY <1>1, <1>3
  <2>2. CASE j = m
    BY <2>1, <2>2, <1>1
  <2>3. CASE j # m
    <3>1. j \in 1..(m - 1) /\ stack'[j] = stack[j]
      BY <1>1, <2>3
    <3>2. i \in DOMAIN stack /\ j \in DOMAIN stack
      BY <2>1, <3>1, <1>1
    <3>3. Level(stack[i]) < Level(stack[j]) \/ stack[j].walk = "close"
      BY <3>2, <1>3 DEF Stacked
    <3> QED
      BY <2>1, <3>1, <3>3
  <2> QED
    BY <2>2, <2>3
<1>4. ASSUME NEW i \in 1..m, IsHandler(stack'[i])
      PROVE  i > 1 /\ stack'[i - 1].walk = stack'[i].kind /\ stack'[i - 1].at # NULL
  <2>1. CASE i = m
    <3>1. IsHandler(y) /\ m > 1
      BY <1>4, <2>1, <1>1
    <3>2. m - 1 \in 1..(m - 1)
      BY <3>1, <1>1
    <3>3. stack'[m - 1] = stack[m - 1]
      BY <3>2, <1>1
    <3> QED
      BY <2>1, <3>1, <3>3, <1>1
  <2>2. CASE i # m
    <3>1. i \in 1..(m - 1) /\ stack'[i] = stack[i] /\ i \in DOMAIN stack
      BY <1>1, <2>2
    <3>2. IsHandler(stack[i])
      BY <3>1, <1>4
    <3>3. i > 1 /\ stack[i - 1].walk = stack[i].kind /\ stack[i - 1].at # NULL
      BY <3>1, <3>2 DEF Stacked
    <3>4. i - 1 \in 1..(m - 1)
      BY <3>1, <3>3, <1>1
    <3>5. stack'[i - 1] = stack[i - 1]
      BY <3>4, <1>1
    <3> QED
      BY <3>1, <3>3, <3>5
  <2> QED
    BY <2>1, <2>2
<1>5. Top' = y
  BY <1>1 DEF Top
<1> QED
  BY <1>1, <1>2, <1>3, <1>4, <1>5 DEF Stacked

(* The walks below go on as they did. *)
LEMMA WalksKept ==
  ASSUME Types, Stacked, Walked, NEW m, NEW y \in Activation, Changed(m, y), UNCHANGED <<cell, live>>,
         \A i \in 1..(m - 1) : i # m - 1 /\ stack[i].walk \in Kinds =>
           ran'[stack[i].walk] = ran[stack[i].walk] /\ due'[stack[i].walk] = due[stack[i].walk],
         m > 1 /\ stack[m - 1].walk \in Kinds =>
           Goes(cell, live, stack[m - 1], ran'[stack[m - 1].walk], due'[stack[m - 1].walk], y.walk = "code"),
         y.walk \in Kinds => Goes(cell, live, y, ran'[y.walk], due'[y.walk], FALSE)
  PROVE  Walked'
<1>1. /\ Len(stack) \in Nat /\ m \in 1..(Len(stack) + 1) /\ Len(stack') = m
      /\ DOMAIN stack = 1..Len(stack) /\ DOMAIN stack' = 1..m /\ m \in Nat
      /\ (\A i \in 1..(m - 1) : stack'[i] = stack[i] /\ i \in 1..Len(stack))
      /\ stack'[m] = y
  BY StackFacts DEF Changed
<1>2. ASSUME NEW i \in 1..m, stack'[i].walk \in Kinds
      PROVE  Goes(cell, live, stack'[i], ran'[stack'[i].walk], due'[stack'[i].walk], Handled(i)')
  <2>1. Handled(i)' = (i < m /\ stack'[i + 1].walk = "code")
    BY <1>1 DEF Handled
  <2>2. CASE i = m
    <3>0. ~(i < m)
      BY <2>2, <1>1
    <3>1. Handled(i)' = FALSE
      BY <2>1, <3>0, Zenon
    <3> QED
      BY <3>1, <2>2, <1>1, <1>2
  <2>3. CASE i = m - 1
    <3>1. m > 1 /\ i \in 1..(m - 1) /\ stack'[i] = stack[m - 1] /\ i + 1 = m
      BY <2>3, <1>1
    <3>2. Handled(i)' = (y.walk = "code")
      BY <2>1, <3>1, <1>1
    <3> QED
      BY <3>1, <3>2, <1>2
  <2>4. CASE i # m /\ i # m - 1
    <3>1. i \in 1..(m - 1) /\ i + 1 \in 1..(m - 1) /\ i < m /\ i < Len(stack)
      BY <2>4, <1>1
    <3>2. stack'[i] = stack[i] /\ stack'[i + 1] = stack[i + 1] /\ i \in DOMAIN stack
      BY <3>1, <1>1
    <3>3. Handled(i)' = Handled(i)
      BY <2>1, <3>1, <3>2 DEF Handled
    <3>4. Goes(cell, live, stack[i], ran[stack[i].walk], due[stack[i].walk], Handled(i))
      BY <3>2, <1>2 DEF Walked
    <3>5. ran'[stack[i].walk] = ran[stack[i].walk] /\ due'[stack[i].walk] = due[stack[i].walk]
      BY <3>1, <3>2, <2>4, <1>2
    <3> QED
      BY <3>2, <3>3, <3>4, <3>5
  <2> QED
    BY <2>2, <2>3, <2>4
<1> QED
  BY <1>1, <1>2 DEF Walked

(* A walk that is not on top has a handler or the files above it. *)
LEMMA WalkBelow ==
  ASSUME Types, Stacked, Walked, NEW i \in 1..Len(stack), stack[i].walk \in Kinds, NEW b \in BOOLEAN,
         b = (i < Len(stack) /\ stack[i + 1].walk = "code")
  PROVE  Goes(cell, live, stack[i], ran[stack[i].walk], due[stack[i].walk], b)
<1>1. i \in DOMAIN stack
  BY StackFacts
<1>2. b = Handled(i)
  BY DEF Handled
<1> QED
  BY <1>1, <1>2 DEF Walked

(* What was run for errors stays, and a frame of a walk for errors too. *)
LEMMA ErrorsKept ==
  ASSUME Types, Stacked, ErrorsRun, NEW m, NEW y, Changed(m, y),
         ran'["error"] = ran["error"], due'["error"] = due["error"],
         Len(stack) > 1 /\ stack[2].walk = "error" => m > 2 \/ (m = 2 /\ y.walk = "error")
  PROVE  ErrorsRun'
<1>1. /\ Len(stack) \in Nat /\ m \in 1..(Len(stack) + 1) /\ Len(stack') = m /\ m \in Nat
      /\ (\A i \in 1..(m - 1) : stack'[i] = stack[i]) /\ stack'[m] = y
  BY StackFacts DEF Changed
<1>2. SUFFICES ASSUME m > 1 => stack'[2].walk # "error" PROVE ran["error"] = due["error"]
  BY <1>1 DEF ErrorsRun
<1>3. ASSUME Len(stack) > 1 /\ stack[2].walk = "error" PROVE FALSE
  <2>1. CASE m > 2
    <3>1. 2 \in 1..(m - 1)
      BY <2>1, <1>1
    <3> QED
      BY <3>1, <2>1, <1>1, <1>2, <1>3
  <2>2. CASE m = 2 /\ y.walk = "error"
    BY <2>2, <1>1, <1>2
  <2> QED
    BY <2>1, <2>2, <1>3
<1> QED
  BY <1>3 DEF ErrorsRun

(* Every activation but y was there before. *)
LEMMA OldFrames ==
  ASSUME Types, Stacked, NEW m, NEW y, Changed(m, y), NEW i \in DOMAIN stack', stack'[i] # y
  PROVE  \E j \in DOMAIN stack : stack[j] = stack'[i]
<1>1. /\ Len(stack) \in Nat /\ m \in 1..(Len(stack) + 1) /\ DOMAIN stack' = 1..m /\ m \in Nat
      /\ (\A k \in 1..(m - 1) : stack'[k] = stack[k]) /\ stack'[m] = y /\ DOMAIN stack = 1..Len(stack)
  BY StackFacts DEF Changed
<1>2. i \in 1..(m - 1) /\ i \in DOMAIN stack
  BY <1>1
<1> QED
  BY <1>1, <1>2

(* What was run at exit stays while the files are closed. *)
LEMMA ExitsKept ==
  ASSUME Types, Stacked, ExitsRun, NEW m, NEW y, Changed(m, y), y # Walk("files", "stop"),
         ran'["exit"] = ran["exit"], due'["exit"] = due["exit"]
  PROVE  ExitsRun'
<1>1. SUFFICES ASSUME NEW i \in DOMAIN stack', stack'[i] = Walk("files", "stop") PROVE ran["exit"] = due["exit"]
  BY DEF ExitsRun
<1>2. \E j \in DOMAIN stack : stack[j] = Walk("files", "stop")
  BY <1>1, OldFrames
<1> QED
  BY <1>2 DEF ExitsRun

(* A signal stays on the stack. *)
LEMMA SignalKept ==
  ASSUME Types, Stacked, NEW m, NEW y, Changed(m, y), Signalled,
         \A i \in 1..Len(stack) : i >= m /\ stack[i] = Walk("files", "signal") => i = m /\ y = stack[i]
  PROVE  Signalled'
<1>1. /\ Len(stack) \in Nat /\ m \in 1..(Len(stack) + 1) /\ DOMAIN stack' = 1..m /\ m \in Nat
      /\ (\A k \in 1..(m - 1) : stack'[k] = stack[k]) /\ stack'[m] = y /\ DOMAIN stack = 1..Len(stack)
  BY StackFacts DEF Changed
<1>2. PICK i \in 1..Len(stack) : stack[i] = Walk("files", "signal")
  BY <1>1 DEF Signalled
<1>3. CASE i >= m
  <2>1. i = m /\ stack'[m] = Walk("files", "signal") /\ m \in DOMAIN stack'
    BY <1>1, <1>2, <1>3
  <2> QED
    BY <2>1 DEF Signalled
<1>4. CASE ~(i >= m)
  <2>1. i \in 1..(m - 1) /\ i \in DOMAIN stack' /\ stack'[i] = Walk("files", "signal")
    BY <1>1, <1>2, <1>4
  <2> QED
    BY <2>1 DEF Signalled
<1> QED
  BY <1>3, <1>4

-----------------------------------------------------------------------------
(* Each action keeps the invariant. *)

(* The lists as they are when nothing is registered or removed. *)
LEMMA ListsStand ==
  ASSUME Listed, UNCHANGED lists
  PROVE  Listed'
BY DEF Listed, lists

(* CBL_EXIT_PROC and CBL_ERROR_PROC register a handler in front. *)
LEMMA RegisterKeeps ==
  ASSUME ShutdownAssumption, Removals = "newest", EndInv, NEW k \in Kinds, NEW p \in Procs, Register(k, p)
  PROVE  EndInv'
<1> USE DEF EndInv
<1> DEFINE u == Unlinked(k, Place(k, p))
           v == Without(k, p)
<1>1. /\ u.cell = cell /\ u.live = live /\ u.head \in Nodes \cup {NULL}
      /\ v \in Seq(Who) /\ IsInjective(v) /\ (\A i \in 1..Len(v) : v[i] # p)
      /\ \E s : Chain(cell, live, s, u.head) /\ ProcsOf(cell, s) = v
  <2>1. Allowed(k, p)
    BY DEF Register
  <2> QED
    BY <2>1, Removal
<1>2. /\ InMain /\ UNCHANGED <<stack, due, ran, end, files>> /\ wanted' = [wanted EXCEPT ![k] = <<p>> \o v]
      /\ \E a \in Nodes \ u.live :
           /\ cell' = [u.cell EXCEPT ![a] = [next |-> u.head, proc |-> p]]
           /\ head' = [head EXCEPT ![k] = a]
           /\ live' = u.live \cup {a}
  BY DEF Register
<1> HIDE DEF u, v
<1>3. PICK a \in Nodes : /\ a \notin live
                         /\ cell' = [cell EXCEPT ![a] = [next |-> u.head, proc |-> p]]
                         /\ head' = [head EXCEPT ![k] = a] /\ live' = live \cup {a}
  BY <1>1, <1>2
<1>4. PICK s : Chain(cell, live, s, u.head) /\ ProcsOf(cell, s) = v
  BY <1>1
<1>5. /\ cell'[a] = [next |-> u.head, proc |-> p] /\ live \subseteq live' /\ live \subseteq Nodes
      /\ \A x \in live : cell'[x] = cell[x]
  BY <1>3 DEF Types
<1>6. p \in Who
  BY DEF Who
<1>7. <<p>> \o v \in Seq(Who) /\ IsInjective(<<p>> \o v)
  BY <1>1, <1>6, ConsInjective
<1>8. Types'
  <2>1. head' \in [Kinds -> Nodes \cup {NULL}] /\ live' \subseteq Nodes
    BY <1>3, <1>5 DEF Types
  <2>2. cell' \in [Nodes -> [next : Nodes \cup {NULL}, proc : Who]]
    <3>1. [next |-> u.head, proc |-> p] \in [next : Nodes \cup {NULL}, proc : Who]
      BY <1>1, <1>6
    <3> QED
      BY <1>3, <3>1 DEF Types
  <2>3. wanted' \in [Kinds -> Seq(Who)]
    BY <1>2, <1>7 DEF Types
  <2> QED
    BY <1>2, <2>1, <2>2, <2>3 DEF Types, files
<1>9. Listed'
  <2>1. ASSUME NEW j \in Kinds
        PROVE  IsInjective(wanted'[j]) /\ \E t : Chain(cell', live', t, head'[j]) /\ ProcsOf(cell', t) = wanted'[j]
    <3>1. CASE j = k
      <4>1. wanted'[j] = <<p>> \o v /\ head'[j] = a
        BY <3>1, <1>2, <1>3 DEF Types
      <4>2. Fronted(cell, live, s, u.head, a, p, cell', live', <<a>> \o s, <<p>> \o v)
        BY <1>3, <1>4, <1>5 DEF Fronted
      <4>3. Chain(cell', live', <<a>> \o s, a) /\ ProcsOf(cell', <<a>> \o s) = <<p>> \o v
        BY <4>2, ChainCons
      <4> QED
        BY <4>1, <4>3, <1>7
    <3>2. CASE j # k
      <4>1. wanted'[j] = wanted[j] /\ head'[j] = head[j]
        BY <3>2, <1>2, <1>3 DEF Types
      <4>2. PICK t : Chain(cell, live, t, head[j]) /\ ProcsOf(cell, t) = wanted[j]
        BY DEF Listed
      <4>3. Chain(cell', live', t, head[j]) /\ ProcsOf(cell', t) = ProcsOf(cell, t)
        BY <4>2, <1>5, ChainStands
      <4> QED
        BY <4>1, <4>2, <4>3 DEF Listed
    <3> QED
      BY <3>1, <3>2
  <2> QED
    BY <2>1 DEF Listed
<1>10. Walked'
  <2>1. ASSUME NEW i \in DOMAIN stack, stack[i].walk \in Kinds
        PROVE  Goes(cell', live', stack[i], ran[stack[i].walk], due[stack[i].walk], Handled(i))
    <3>1. Goes(cell, live, stack[i], ran[stack[i].walk], due[stack[i].walk], Handled(i))
      BY <2>1 DEF Walked
    <3> QED
      BY <3>1, <1>5, GoesStands
  <2>2. \A i : Handled(i)' = Handled(i)
    BY <1>2 DEF Handled
  <2> QED
    BY <2>1, <2>2, <1>2 DEF Walked
<1>11. Stacked' /\ ErrorsRun' /\ ExitsRun'
  BY <1>2 DEF Stacked, ErrorsRun, ExitsRun
<1>12. Handles' /\ Ended'
  BY <1>2 DEF Handles, Ended, Signalled, Top, files
<1> QED
  BY <1>8, <1>9, <1>10, <1>11, <1>12

(* They remove the newest handler, called by the program or by the handler. *)
LEMMA UnregisterKeeps ==
  ASSUME ShutdownAssumption, Removals = "newest", EndInv, NEW k \in Kinds, NEW p \in Procs, Unregister(k, p)
  PROVE  EndInv'
<1> USE DEF EndInv
<1> DEFINE u == Unlinked(k, Place(k, p))
           v == Without(k, p)
<1>1. /\ u.cell = cell /\ u.live = live /\ u.head \in Nodes \cup {NULL}
      /\ v \in Seq(Who) /\ IsInjective(v)
      /\ \E s : Chain(cell, live, s, u.head) /\ ProcsOf(cell, s) = v
  <2>1. Allowed(k, p)
    BY DEF Unregister
  <2> QED
    BY <2>1, Removal
<1>2. /\ UNCHANGED <<stack, due, ran, end, files>> /\ wanted' = [wanted EXCEPT ![k] = v]
      /\ head' = [head EXCEPT ![k] = u.head] /\ cell' = u.cell /\ live' = u.live
  BY DEF Unregister
<1> HIDE DEF u, v
<1>3. cell' = cell /\ live' = live
  BY <1>1, <1>2
<1>8. Types'
  <2>1. head' \in [Kinds -> Nodes \cup {NULL}] /\ wanted' \in [Kinds -> Seq(Who)]
    BY <1>1, <1>2 DEF Types
  <2> QED
    BY <1>2, <1>3, <2>1 DEF Types, files
<1>9. Listed'
  <2>1. ASSUME NEW j \in Kinds
        PROVE  IsInjective(wanted'[j]) /\ \E t : Chain(cell, live, t, head'[j]) /\ ProcsOf(cell, t) = wanted'[j]
    <3>1. CASE j = k
      <4>1. wanted'[j] = v /\ head'[j] = u.head
        BY <3>1, <1>2 DEF Types
      <4> QED
        BY <4>1, <1>1
    <3>2. CASE j # k
      <4>1. wanted'[j] = wanted[j] /\ head'[j] = head[j]
        BY <3>2, <1>2 DEF Types
      <4> QED
        BY <4>1 DEF Listed
    <3> QED
      BY <3>1, <3>2
  <2> QED
    BY <2>1, <1>3 DEF Listed
<1>10. Walked'
  <2>2. \A i : Handled(i)' = Handled(i)
    BY <1>2 DEF Handled
  <2> QED
    BY <2>2, <1>2, <1>3 DEF Walked
<1>11. Stacked' /\ ErrorsRun' /\ ExitsRun'
  BY <1>2 DEF Stacked, ErrorsRun, ExitsRun
<1>12. Handles' /\ Ended'
  BY <1>2 DEF Handles, Ended, Signalled, Top, files
<1> QED
  BY <1>8, <1>9, <1>10, <1>11, <1>12

(* OPEN by the program. *)
LEMMA OpenKeeps ==
  ASSUME EndInv, NEW f \in Files, OpenFile(f)
  PROVE  EndInv'
<1> USE DEF EndInv
<1>1. /\ UNCHANGED <<stack, due, ran, end, lists>> /\ Top = MainProgram /\ end = "no"
      /\ mode' = [mode EXCEPT ![f] = "open"] /\ closed' = [closed EXCEPT ![f] = 0]
  BY DEF OpenFile, InMain, Running
<1>2. Types'
  BY <1>1 DEF Types, lists
<1>3. Listed' /\ Stacked' /\ ErrorsRun' /\ ExitsRun'
  BY <1>1, ListsStand DEF Stacked, ErrorsRun, ExitsRun
<1>4. Walked'
  BY <1>1 DEF Walked, Handled, lists
<1>5. Handles'
  <2>1. CASE Signalled
    BY <2>1, <1>1 DEF Handles, Signalled
  <2>2. CASE ~Signalled
    <3>1. ASSUME NEW g \in Files
          PROVE  closed'[g] <= 1 /\ (mode'[g] = "open" => closed'[g] = 0) /\ (mode'[g] = "handle" => Top' = Walk("close", g))
      <4>1. Top' = Top
        BY <1>1 DEF Top
      <4>2. CASE g = f
        BY <4>2, <1>1 DEF Types
      <4>3. CASE g # f
        BY <4>1, <4>3, <2>2, <1>1 DEF Types, Handles
      <4> QED
        BY <4>2, <4>3
    <3> QED
      BY <3>1 DEF Handles
  <2> QED
    BY <2>1, <2>2
<1>6. Ended'
  BY <1>1 DEF Ended
<1> QED
  BY <1>2, <1>3, <1>4, <1>5, <1>6

(* The invariant when an activation is pushed that is no handler, by a walk *)
(* or a piece of code, and only the stack and the files change.             *)
LEMMA PushKeeps ==
  ASSUME EndInv, NEW y \in Activation, ~IsHandler(y), y.walk \notin Kinds, y.walk # "code", stack' = Append(stack, y),
         \A i \in 1..Len(stack) : Level(stack[i]) < Level(y) \/ y.walk = "close",
         y # Walk("files", "stop"), UNCHANGED <<due, ran, lists>>
  PROVE  /\ stack' \in Seq(Activation) /\ Listed' /\ Stacked' /\ Walked' /\ ErrorsRun' /\ ExitsRun'
         /\ Top' = y /\ (Signalled => Signalled')
<1> USE DEF EndInv
<1> DEFINE m == Len(stack) + 1
<1>1. Changed(m, y) /\ Len(stack) \in Nat /\ Len(stack) >= 1 /\ m - 1 = Len(stack)
  BY Pushed, StackFacts
<1>2. stack' \in Seq(Activation)
  BY <1>1 DEF Changed
<1> HIDE DEF m
<1>3. m \in Nat /\ m > 1 /\ m = Len(stack) + 1
  BY <1>1 DEF m
<1>4. Stacked' /\ Top' = y
  BY <1>1, <1>3, StackKept
<1>5. Walked'
  <2>1. m > 1 /\ stack[m - 1].walk \in Kinds =>
          Goes(cell, live, stack[m - 1], ran'[stack[m - 1].walk], due'[stack[m - 1].walk], y.walk = "code")
    <3>1. ASSUME stack[m - 1].walk \in Kinds
          PROVE  Goes(cell, live, stack[m - 1], ran'[stack[m - 1].walk], due'[stack[m - 1].walk], FALSE)
      <4>1. Len(stack) \in 1..Len(stack) /\ ~(Len(stack) < Len(stack)) /\ FALSE \in BOOLEAN
        BY <1>1
      <4>2. FALSE = (Len(stack) < Len(stack) /\ stack[Len(stack) + 1].walk = "code")
        BY <4>1
      <4>3. stack[Len(stack)].walk \in Kinds
        BY <3>1, <1>1
      <4>4. Goes(cell, live, stack[Len(stack)], ran[stack[Len(stack)].walk], due[stack[Len(stack)].walk], FALSE)
        BY <4>1, <4>2, <4>3, WalkBelow
      <4> QED
        BY <4>4, <1>1
    <3>2. (y.walk = "code") = FALSE
      OBVIOUS
    <3> QED
      BY <3>1, <3>2
  <2>2. \A i \in 1..(m - 1) : i # m - 1 /\ stack[i].walk \in Kinds =>
           ran'[stack[i].walk] = ran[stack[i].walk] /\ due'[stack[i].walk] = due[stack[i].walk]
    OBVIOUS
  <2>3. UNCHANGED <<cell, live>>
    BY DEF lists
  <2> QED
    BY <1>1, <2>1, <2>2, <2>3, WalksKept
<1>6. ErrorsRun'
  <2>1. Len(stack) > 1 => m > 2
    BY <1>1, <1>3
  <2> QED
    BY <1>1, <2>1, ErrorsKept
<1>7. ExitsRun'
  BY <1>1, ExitsKept
<1>8. Signalled => Signalled'
  <2>1. \A i \in 1..Len(stack) : ~(i >= m)
    BY <1>1, <1>3
  <2> QED
    BY <1>1, <2>1, SignalKept
<1>9. Listed'
  BY ListsStand
<1> QED
  BY <1>2, <1>4, <1>5, <1>6, <1>7, <1>8, <1>9

(* CLOSE by the program or a handler. *)
LEMMA CloseKeeps ==
  ASSUME EndInv, NEW f \in Files, CloseFile(f)
  PROVE  EndInv'
<1> USE DEF EndInv
<1> DEFINE y == Walk("close", f)
<1>1. /\ Top.walk = "code" /\ end = "no" /\ mode[f] = "open" /\ stack' = Append(stack, y)
      /\ mode' = [mode EXCEPT ![f] = "handle"] /\ closed' = [closed EXCEPT ![f] = @ + 1]
      /\ UNCHANGED <<due, ran, end, lists>>
  BY DEF CloseFile, InCode, Running, CloseHandle
<1>2. y \in Activation /\ y.walk = "close"
  BY FrameLevels
<1>3. y # Walk("files", "stop")
  BY DEF Walk
<1> HIDE DEF y
<1>4. /\ stack' \in Seq(Activation) /\ Listed' /\ Stacked' /\ Walked' /\ ErrorsRun' /\ ExitsRun'
      /\ Top' = y /\ (Signalled => Signalled')
  <2>1. ~IsHandler(y) /\ y.walk \notin Kinds /\ y.walk # "code"
    BY <1>2 DEF IsHandler, Kinds
  <2> QED
    BY <1>1, <1>2, <1>3, <2>1, PushKeeps
<1>5. Types'
  BY <1>1, <1>4 DEF Types, lists, Activation
<1>6. Handles'
  <2>1. CASE Signalled
    BY <2>1, <1>4 DEF Handles
  <2>2. CASE ~Signalled
    <3>1. ASSUME NEW g \in Files
          PROVE  closed'[g] <= 1 /\ (mode'[g] = "open" => closed'[g] = 0) /\ (mode'[g] = "handle" => Top' = Walk("close", g))
      <4>1. CASE g = f
        BY <4>1, <2>2, <1>1, <1>4 DEF Types, Handles, y
      <4>2. CASE g # f
        <5>1. Top # Walk("close", g)
          BY <1>1 DEF Walk
        <5> QED
          BY <5>1, <4>2, <2>2, <1>1 DEF Types, Handles
      <4> QED
        BY <4>1, <4>2
    <3> QED
      BY <3>1 DEF Handles
  <2> QED
    BY <2>1, <2>2
<1>7. Ended'
  BY <1>1 DEF Ended
<1> QED
  BY <1>4, <1>5, <1>6, <1>7

(* The end of a CLOSE. *)
LEMMA EndCloseKeeps ==
  ASSUME EndInv, EndClose
  PROVE  EndInv'
<1> USE DEF EndInv
<1> DEFINE L == Len(stack)
           f == Top.at
           y == stack[L - 1]
<1>1. /\ Top.walk = "close" /\ end = "no" /\ stack' = Front(stack) /\ mode' = [mode EXCEPT ![f] = "closed"]
      /\ UNCHANGED <<closed, due, ran, end, lists>>
  BY DEF EndClose, Running, CloseConnector
<1>2. f \in Files /\ Top = Walk("close", f)
  BY <1>1, FrameKinds, StackFacts
<1>3. L \in Nat /\ L > 1 /\ Top = stack[L] /\ Len(stack) = L /\ DOMAIN stack = 1..L
  <2>1. Top # MainProgram
    BY <1>1 DEF MainProgram, Code
  <2> QED
    BY <2>1, StackFacts
<1>4. Changed(L - 1, y)
  BY <1>1, <1>3, Popped
<1> HIDE DEF L, f
<1>5. stack' \in Seq(Activation) /\ Types'
  <2>1. stack' \in Seq(Activation)
    BY <1>4 DEF Changed
  <2> QED
    BY <2>1, <1>1, <1>2 DEF Types, lists, Activation
<1>6. L - 1 \in 1..L /\ L - 1 \in DOMAIN stack /\ L - 1 \in Nat /\ y \in Activation /\ L - 1 < L /\ (L - 1) + 1 = L
  BY <1>3, StackFacts
<1>7. Stacked' /\ Top' = y
  <2>1. \A i \in 1..((L - 1) - 1) : Level(stack[i]) < Level(y) \/ y.walk = "close"
    <3>1. ASSUME NEW i \in 1..((L - 1) - 1) PROVE Level(stack[i]) < Level(y) \/ y.walk = "close"
      <4>1. i \in DOMAIN stack /\ i < L - 1
        BY <1>3
      <4> QED
        BY <4>1, <1>6 DEF Stacked
    <3> QED
      BY <3>1
  <2>2. IsHandler(y) => L - 1 > 1 /\ stack[(L - 1) - 1].walk = y.kind /\ stack[(L - 1) - 1].at # NULL
    BY <1>6 DEF Stacked
  <2>3. L - 1 = 1 => y = MainProgram
    BY StackFacts
  <2> HIDE DEF y
  <2> QED
    BY <1>4, <1>6, <2>1, <2>2, <2>3, StackKept
<1> HIDE DEF y
<1>8. Walked'
  <2>1. y.walk \in Kinds => Goes(cell, live, y, ran'[y.walk], due'[y.walk], FALSE)
    <3>1. ASSUME stack[L - 1].walk \in Kinds
          PROVE  Goes(cell, live, stack[L - 1], ran[stack[L - 1].walk], due[stack[L - 1].walk], FALSE)
      <4>1. FALSE = (L - 1 < Len(stack) /\ stack[(L - 1) + 1].walk = "code")
        BY <1>1, <1>3, <1>6
      <4> QED
        BY <3>1, <4>1, <1>6, <1>3, WalkBelow
    <3> QED
      BY <3>1, <1>1 DEF y
  <2>2. L - 1 > 1 /\ stack[(L - 1) - 1].walk \in Kinds =>
          Goes(cell, live, stack[(L - 1) - 1], ran'[stack[(L - 1) - 1].walk], due'[stack[(L - 1) - 1].walk], y.walk = "code")
    <3>1. ASSUME L - 1 > 1, stack[(L - 1) - 1].walk \in Kinds
          PROVE  Goes(cell, live, stack[(L - 1) - 1], ran[stack[(L - 1) - 1].walk], due[stack[(L - 1) - 1].walk], y.walk = "code")
      <4>1. (L - 1) - 1 \in 1..Len(stack) /\ (L - 1) - 1 < Len(stack) /\ ((L - 1) - 1) + 1 = L - 1
        BY <1>3, <3>1
      <4>2. (y.walk = "code") = ((L - 1) - 1 < Len(stack) /\ stack[((L - 1) - 1) + 1].walk = "code")
        BY <4>1 DEF y
      <4>3. (y.walk = "code") \in BOOLEAN
        OBVIOUS
      <4> QED
        BY <3>1, <4>1, <4>2, <4>3, WalkBelow
    <3> QED
      BY <3>1, <1>1
  <2>3. \A i \in 1..((L - 1) - 1) : i # (L - 1) - 1 /\ stack[i].walk \in Kinds =>
           ran'[stack[i].walk] = ran[stack[i].walk] /\ due'[stack[i].walk] = due[stack[i].walk]
    BY <1>1
  <2>4. UNCHANGED <<cell, live>>
    BY <1>1 DEF lists
  <2> QED
    BY <1>4, <1>6, <2>1, <2>2, <2>3, <2>4, WalksKept
<1>9. ErrorsRun'
  <2>1. ASSUME stack[2].walk = "error" PROVE L - 1 > 2 \/ (L - 1 = 2 /\ y.walk = "error")
    <3>1. L # 2
      BY <2>1, <1>1, <1>3
    <3>2. CASE L - 1 = 2
      BY <3>2, <2>1 DEF y
    <3> QED
      BY <3>1, <3>2, <1>3
  <2> QED
    BY <1>1, <1>4, <2>1, ErrorsKept
<1>10. ExitsRun'
  <2>1. SUFFICES ASSUME NEW i \in DOMAIN stack', stack'[i] = Walk("files", "stop") PROVE ran["exit"] = due["exit"]
    BY <1>1 DEF ExitsRun
  <2>2. stack'[i] = stack[i] /\ i \in DOMAIN stack
    <3>1. DOMAIN stack' = 1..(L - 1) /\ (\A j \in 1..((L - 1) - 1) : stack'[j] = stack[j]) /\ stack'[L - 1] = y
      BY <1>4 DEF Changed
    <3> QED
      BY <3>1, <1>3 DEF y
  <2> QED
    BY <2>1, <2>2 DEF ExitsRun
<1>11. Signalled => Signalled'
  <2>1. \A i \in 1..Len(stack) : i >= L - 1 /\ stack[i] = Walk("files", "signal") => i = L - 1 /\ y = stack[i]
    <3>1. stack[L] # Walk("files", "signal")
      BY <1>2, <1>3 DEF Walk
    <3> QED
      BY <3>1, <1>3 DEF y
  <2> QED
    BY <1>4, <2>1, SignalKept
<1>12. Handles'
  <2>1. CASE Signalled
    BY <2>1, <1>11 DEF Handles
  <2>2. CASE ~Signalled
    <3>1. ASSUME NEW g \in Files
          PROVE  closed'[g] <= 1 /\ (mode'[g] = "open" => closed'[g] = 0) /\ (mode'[g] = "handle" => Top' = Walk("close", g))
      <4>1. CASE g = f
        BY <4>1, <2>2, <1>1, <1>2 DEF Types, Handles
      <4>2. CASE g # f
        <5>1. Top # Walk("close", g)
          BY <1>2, <4>2 DEF Walk
        <5> QED
          BY <5>1, <4>2, <2>2, <1>1, <1>2 DEF Types, Handles
      <4> QED
        BY <4>1, <4>2
    <3> QED
      BY <3>1 DEF Handles
  <2> QED
    BY <2>1, <2>2
<1>13. Listed' /\ Ended'
  BY <1>1, ListsStand DEF Ended
<1> QED
  BY <1>5, <1>7, <1>8, <1>9, <1>10, <1>12, <1>13

(* No file is between the two steps of a CLOSE but under a signal. *)
LEMMA HandlesKept ==
  ASSUME Types, Handles, Top.walk # "close", UNCHANGED files, Signalled => Signalled'
  PROVE  Handles'
<1>1. CASE Signalled
  BY <1>1 DEF Handles
<1>2. CASE ~Signalled
  <2>1. ASSUME NEW g \in Files
        PROVE  closed'[g] <= 1 /\ (mode'[g] = "open" => closed'[g] = 0) /\ (mode'[g] = "handle" => Top' = Walk("close", g))
    <3>1. Top # Walk("close", g)
      BY DEF Walk
    <3> QED
      BY <3>1, <1>2 DEF Handles, files
  <2> QED
    BY <2>1 DEF Handles
<1> QED
  BY <1>1, <1>2

(* No walk of a kind that begins has begun before. *)
LEMMA BeginKeeps ==
  ASSUME ShutdownAssumption, EndInv, NEW k \in Kinds, Begin(k, stack), end' = "no", Top.walk = "code",
         \A i \in 1..Len(stack) : Level(stack[i]) < Level(Walk(k, head[k])),
         k = "error" => Top = MainProgram
  PROVE  EndInv'
<1> USE DEF EndInv
<1> DEFINE y == Walk(k, head[k])
           m == Len(stack) + 1
<1>1. /\ stack' = stack \o <<y>> /\ due' = [due EXCEPT ![k] = wanted[k]] /\ ran' = [ran EXCEPT ![k] = <<>>]
      /\ UNCHANGED <<lists, files>>
  BY DEF Begin
<1>2. /\ y \in Activation /\ y.walk = k /\ y.at = head[k] /\ y # Walk("files", "stop") /\ k \in {"exit", "error"}
      /\ Level(y) <= 3
  <2>1. k \in {"exit", "error"} /\ head[k] \in Nodes \cup {NULL}
    BY DEF Kinds, Types
  <2>2. CASE k = "exit"
    BY <2>1, <2>2, FrameLevels
  <2>3. CASE k = "error"
    BY <2>1, <2>3, FrameLevels
  <2>4. y # Walk("files", "stop")
    BY <2>1 DEF Walk
  <2> QED
    BY <2>1, <2>2, <2>3, <2>4
<1>3. stack \in Seq(Activation) /\ Len(stack) \in Nat /\ Len(stack) >= 1 /\ DOMAIN stack = 1..Len(stack)
  BY StackFacts
<1>4. Changed(m, y)
  <2> HIDE DEF y
  <2>1. stack' = Append(stack, y)
    BY <1>1, <1>2, <1>3, AppendIsConcat
  <2> QED
    BY <2>1, <1>2, Pushed
<1>5. \A i \in 1..Len(stack) : Level(stack[i]) < Level(y)
  OBVIOUS
<1> HIDE DEF y, m
<1>6. m \in Nat /\ m > 1 /\ m - 1 = Len(stack)
  BY <1>3 DEF m
<1>7. Stacked' /\ Top' = y
  <2>1. ~IsHandler(y)
    BY <1>2 DEF IsHandler
  <2> QED
    BY <1>2, <1>4, <1>5, <1>6, <2>1, StackKept
<1>8. \A i \in 1..Len(stack) : stack[i].walk # k /\ stack[i] # Walk("files", "stop")
  <2>1. ASSUME NEW i \in 1..Len(stack) PROVE stack[i].walk # k /\ stack[i] # Walk("files", "stop")
    <3>1. stack[i] \in Activation /\ Level(stack[i]) < Level(y)
      BY <1>5, StackFacts
    <3>2. stack[i].walk = k => Level(stack[i]) = Level(y)
      BY <3>1, <1>2, FrameKinds
    <3>3. Level(stack[i]) \in 0..6 /\ Level(y) \in 0..6
      BY <3>1, <1>2, FrameKinds
    <3>4. Level(Walk("files", "stop")) = 5
      BY FrameLevels
    <3> QED
      BY <3>1, <3>2, <3>3, <3>4, <1>2
  <2> QED
    BY <2>1
<1>9. \A j \in Kinds : j # k => ran'[j] = ran[j] /\ due'[j] = due[j]
  BY <1>1 DEF Types
<1>10. ran'[k] = <<>> /\ due'[k] = wanted[k] /\ wanted[k] \in Seq(Who)
  BY <1>1 DEF Types
<1>11. Walked'
  <2>1. \A i \in 1..(m - 1) : stack[i].walk \in Kinds =>
           ran'[stack[i].walk] = ran[stack[i].walk] /\ due'[stack[i].walk] = due[stack[i].walk]
    BY <1>6, <1>8, <1>9
  <2>2. stack[m - 1].walk \notin Kinds
    <3>1. stack[m - 1].walk = "code"
      BY <1>6, StackFacts
    <3> QED
      BY <3>1 DEF Kinds
  <2>3. Goes(cell, live, y, <<>>, wanted[k], FALSE)
    <3>1. PICK s : Chain(cell, live, s, y.at) /\ ProcsOf(cell, s) = wanted[k]
      BY <1>2 DEF Listed
    <3> QED
      BY <3>1, <1>10, GoesBegins
  <2>4. y.walk \in Kinds => Goes(cell, live, y, ran'[y.walk], due'[y.walk], FALSE)
    BY <2>3, <1>2, <1>10
  <2>5. UNCHANGED <<cell, live>>
    BY <1>1 DEF lists
  <2> QED
    BY <1>2, <1>4, <2>1, <2>2, <2>4, <2>5, WalksKept
<1>12. ErrorsRun'
  <2>1. CASE k = "exit"
    <3>1. ran'["error"] = ran["error"] /\ due'["error"] = due["error"]
      BY <2>1, <1>9 DEF Kinds
    <3>2. Len(stack) > 1 => m > 2
      BY <1>3, <1>6
    <3> QED
      BY <3>1, <3>2, <1>4, ErrorsKept
  <2>2. CASE k = "error"
    <3>1. Len(stack) = 1
      BY <2>2, StackFacts
    <3>2. m = 2 /\ Len(stack') = m /\ stack'[m] = y
      BY <3>1, <1>4 DEF m, Changed
    <3> QED
      BY <3>2, <2>2, <1>2 DEF ErrorsRun
  <2> QED
    BY <2>1, <2>2, <1>2
<1>13. ExitsRun'
  <2>1. ASSUME NEW i \in DOMAIN stack', stack'[i] = Walk("files", "stop") PROVE FALSE
    <3>1. PICK j \in DOMAIN stack : stack[j] = stack'[i]
      BY <2>1, <1>2, <1>4, OldFrames
    <3> QED
      BY <3>1, <2>1, <1>3, <1>8
  <2> QED
    BY <2>1 DEF ExitsRun
<1>14. Signalled => Signalled'
  <2>1. \A i \in 1..Len(stack) : ~(i >= m)
    BY <1>3, <1>6
  <2> QED
    BY <1>4, <2>1, SignalKept
<1>15. Handles'
  BY <1>1, <1>14, HandlesKept
<1>16. Types'
  <2>1. stack' \in Seq(Activations \cup {MainProgram})
    BY <1>4 DEF Changed, Activation
  <2>2. due' \in [Kinds -> Seq(Who)] /\ ran' \in [Kinds -> Seq(Who)]
    <3>1. <<>> \in Seq(Who)
      OBVIOUS
    <3> QED
      BY <3>1, <1>1, <1>10 DEF Types
  <2> QED
    BY <2>1, <2>2, <1>1 DEF Types, lists, files
<1>17. Listed' /\ Ended'
  BY <1>1, ListsStand DEF Ended
<1> QED
  BY <1>7, <1>11, <1>12, <1>13, <1>15, <1>16, <1>17

(* STOP RUN begins the walk over the exit handlers. *)
LEMMA StopRunKeeps ==
  ASSUME ShutdownAssumption, EndInv, CobStopRun
  PROVE  EndInv'
<1> USE DEF EndInv
<1>1. /\ Top.walk = "code" /\ end = "no" /\ Top.kind \in {"main", "error"} /\ Begin("exit", stack) /\ end' = end
  BY DEF CobStopRun, InCode, Running, Begin
<1>2. /\ "exit" \in Kinds /\ head["exit"] \in Nodes \cup {NULL}
  BY DEF Kinds, Types
<1>3. Level(Walk("exit", head["exit"])) = 3
  BY <1>2, FrameLevels
<1>4. Level(Top) \in 0..2
  BY <1>1 DEF Level
<1>5. ASSUME NEW i \in 1..Len(stack) PROVE Level(stack[i]) < 3
  <2>1. CASE i = Len(stack)
    BY <2>1, <1>4, StackFacts
  <2>2. CASE i # Len(stack)
    <3>0. Len(stack) \in Nat /\ i \in 1..Len(stack)
      BY StackFacts
    <3>1. i \in 1..(Len(stack) - 1) /\ Top.walk # "close" /\ stack[i] \in Activation
      <4>1. i \in 1..(Len(stack) - 1)
        BY <3>0, <2>2
      <4> QED
        BY <3>0, <4>1, <1>1, StackFacts
    <3>2. Level(stack[i]) < Level(Top) /\ Level(stack[i]) \in 0..6
      BY <3>1, StackFacts, FrameKinds
    <3> QED
      BY <3>2, <1>4
  <2> QED
    BY <2>1, <2>2
<1>6. end' = "no" /\ "exit" # "error"
  BY <1>1
<1> QED
  BY <1>1, <1>2, <1>3, <1>5, <1>6, BeginKeeps

(* A run-time error of the program begins that over the error handlers. *)
LEMMA RuntimeErrorKeeps ==
  ASSUME ShutdownAssumption, EndInv, RuntimeError
  PROVE  EndInv'
<1> USE DEF EndInv
<1>1. /\ Top = MainProgram /\ end = "no" /\ Begin("error", stack) /\ end' = end
  BY DEF RuntimeError, InMain, Running, Begin
<1>2. "error" \in Kinds /\ head["error"] \in Nodes \cup {NULL}
  BY DEF Kinds, Types
<1>3. Level(Walk("error", head["error"])) = 1
  BY <1>2, FrameLevels
<1>4. Level(MainProgram) = 0 /\ MainProgram.walk = "code"
  BY DEF Level, MainProgram, Code
<1>5. \A i \in 1..Len(stack) : Level(stack[i]) < 1
  <2>1. Len(stack) = 1 /\ stack[1] = MainProgram
    BY <1>1, StackFacts
  <2> QED
    BY <2>1, <1>4
<1>6. end' = "no" /\ Top.walk = "code"
  BY <1>1, <1>4
<1> QED
  BY <1>1, <1>2, <1>3, <1>5, <1>6, BeginKeeps

(* A walk calls its next handler. *)
LEMMA CallKeeps ==
  ASSUME ShutdownAssumption, EndInv, CallHandler
  PROVE  EndInv'
<1> USE DEF EndInv
<1> DEFINE k == Top.walk
           p == cell[Top.at].proc
           y == Code(k, p)
           m == Len(stack) + 1
<1>1. /\ k \in Kinds /\ end = "no" /\ Top.at # NULL /\ stack' = Append(stack, y)
      /\ ran' = [ran EXCEPT ![k] = Append(@, p)] /\ UNCHANGED <<due, end, lists, files>>
  BY DEF CallHandler, Running
<1>2. /\ Top \in Activation /\ Top = stack[Len(stack)] /\ Len(stack) \in Nat /\ Len(stack) >= 1
      /\ DOMAIN stack = 1..Len(stack) /\ Len(stack) \in 1..Len(stack)
  BY StackFacts
<1>3. Top.at \in Nodes /\ p \in Who
  <2>1. Top.at \in Nodes
    BY <1>1, <1>2, FrameKinds
  <2> QED
    BY <2>1 DEF Types
<1> HIDE DEF p
<1>4. /\ y \in Activation /\ y.walk = "code" /\ y.kind = k /\ y # Walk("files", "stop")
      /\ Level(Top) < Level(y)
  <2>1. y \in Activation /\ y.walk = "code" /\ y.kind = k /\ Level(y) = IF k = "error" THEN 2 ELSE 4
    BY <1>1, <1>3, FrameLevels
  <2>2. Level(Top) = IF k = "error" THEN 1 ELSE 3
    BY <1>1, <1>2, FrameKinds DEF Kinds
  <2>3. y # Walk("files", "stop")
    BY <2>1 DEF Walk
  <2> QED
    BY <2>1, <2>2, <2>3
<1> HIDE DEF y
<1>5. Changed(m, y)
  BY <1>1, <1>4, Pushed
<1> HIDE DEF m
<1>6. m \in Nat /\ m > 1 /\ m - 1 = Len(stack) /\ Top.walk # "close" /\ stack[m - 1] = Top
  BY <1>1, <1>2 DEF m, Kinds
<1>7. \A i \in 1..(Len(stack) - 1) : Level(stack[i]) < Level(Top) /\ stack[i] \in Activation
  BY <1>6, StackFacts
<1>8. Stacked' /\ Top' = y
  <2>1. ASSUME NEW i \in 1..(m - 1) PROVE Level(stack[i]) < Level(y)
    <3>1. CASE i = Len(stack)
      BY <3>1, <1>2, <1>4
    <3>2. CASE i # Len(stack)
      <4>0. i \in 1..Len(stack)
        BY <1>6
      <4>1. i \in 1..(Len(stack) - 1)
        <5>1. Len(stack) \in Nat
          BY <1>2
        <5> QED
          BY <5>1, <4>0, <3>2
      <4>2. Level(stack[i]) \in 0..6 /\ Level(Top) \in 0..6 /\ Level(y) \in 0..6
        BY <4>1, <1>2, <1>4, <1>7, FrameKinds
      <4> QED
        BY <4>1, <4>2, <1>4, <1>7
    <3> QED
      BY <3>1, <3>2
  <2>2. stack[m - 1].walk = y.kind /\ stack[m - 1].at # NULL
    BY <1>1, <1>4, <1>6
  <2> QED
    BY <1>4, <1>5, <1>6, <2>1, <2>2, StackKept
<1>9. \A j \in Kinds : j # k => ran'[j] = ran[j]
  BY <1>1 DEF Types
<1>10. ran'[k] = Append(ran[k], p) /\ ran[k] \in Seq(Who)
  BY <1>1 DEF Types
<1>11. Walked'
  <2>1. ASSUME NEW i \in 1..(m - 1), i # m - 1, stack[i].walk \in Kinds
        PROVE  ran'[stack[i].walk] = ran[stack[i].walk] /\ due'[stack[i].walk] = due[stack[i].walk]
    <3>1. i \in 1..(Len(stack) - 1)
      BY <2>1, <1>2, <1>6
    <3>2. Level(stack[i]) < Level(Top) /\ stack[i] \in Activation
      BY <3>1, <1>7
    <3>3. stack[i].walk # k
      <4>1. stack[i].walk = k => Level(stack[i]) = Level(Top)
        BY <3>2, <1>1, <1>2, FrameKinds DEF Kinds
      <4>2. Level(stack[i]) \in 0..6 /\ Level(Top) \in 0..6
        BY <3>2, <1>2, FrameKinds
      <4> QED
        BY <3>2, <4>1, <4>2
    <3> QED
      BY <2>1, <3>3, <1>1, <1>9
  <2>2. Goes(cell, live, Top, ran'[k], due'[k], TRUE)
    <3>1. FALSE = (Len(stack) < Len(stack) /\ stack[Len(stack) + 1].walk = "code") /\ FALSE \in BOOLEAN
      BY <1>2
    <3>2. Goes(cell, live, stack[Len(stack)], ran[stack[Len(stack)].walk], due[stack[Len(stack)].walk], FALSE)
      BY <3>1, <1>1, <1>2, WalkBelow
    <3>3. Goes(cell, live, Top, ran[k], due[k], FALSE)
      BY <3>2, <1>2
    <3>4. Named(cell, live, Who)
      BY DEF Types, Named
    <3>5. Goes(cell, live, Top, Append(ran[k], cell[Top.at].proc), due[k], TRUE)
      BY <3>3, <3>4, <1>1, <1>10, GoesCalls
    <3> QED
      BY <3>5, <1>1, <1>10 DEF p
  <2>3. m > 1 /\ stack[m - 1].walk \in Kinds =>
          Goes(cell, live, stack[m - 1], ran'[stack[m - 1].walk], due'[stack[m - 1].walk], y.walk = "code")
    <3>1. (y.walk = "code") = TRUE
      BY <1>4
    <3> QED
      BY <3>1, <2>2, <1>6
  <2>4. y.walk \notin Kinds
    BY <1>4 DEF Kinds
  <2>5. UNCHANGED <<cell, live>>
    BY <1>1 DEF lists
  <2> QED
    BY <1>4, <1>5, <2>1, <2>3, <2>4, <2>5, WalksKept
<1>12. ErrorsRun'
  <2>1. CASE k = "error"
    <3>1. Len(stack) = 2 /\ stack[2].walk = "error" /\ m = 3
      <4>1. Len(stack) = 2
        BY <2>1, StackFacts
      <4>2. stack[2].walk = "error"
        BY <2>1, <4>1, <1>2
      <4> QED
        BY <4>1, <4>2 DEF m
    <3>2. Len(stack') > 1 /\ stack'[2] = stack[2]
      BY <3>1, <1>5 DEF Changed
    <3> QED
      BY <3>1, <3>2 DEF ErrorsRun
  <2>2. CASE k # "error"
    <3>1. ran'["error"] = ran["error"] /\ due'["error"] = due["error"]
      BY <2>2, <1>1, <1>9 DEF Kinds
    <3>2. Len(stack) > 1 => m > 2
      BY <1>2, <1>6
    <3> QED
      BY <3>1, <3>2, <1>5, ErrorsKept
  <2> QED
    BY <2>1, <2>2
<1>13. ExitsRun'
  <2>1. CASE k = "exit"
    <3>1. ASSUME NEW i \in DOMAIN stack', stack'[i] = Walk("files", "stop") PROVE FALSE
      <4>1. PICK j \in DOMAIN stack : stack[j] = stack'[i]
        BY <3>1, <1>4, <1>5, OldFrames
      <4>2. Level(stack[j]) = 5 /\ stack[j].walk = "files"
        BY <4>1, <3>1, FrameLevels
      <4>3. Level(Top) = 3
        BY <2>1, <1>2, FrameKinds
      <4>4. j \in 1..(Len(stack) - 1)
        BY <4>2, <4>3, <1>2
      <4> QED
        BY <4>2, <4>3, <4>4, <1>7
    <3> QED
      BY <3>1 DEF ExitsRun
  <2>2. CASE k # "exit"
    <3>1. ran'["exit"] = ran["exit"] /\ due'["exit"] = due["exit"]
      BY <2>2, <1>1, <1>9 DEF Kinds
    <3> QED
      BY <3>1, <1>4, <1>5, ExitsKept
  <2> QED
    BY <2>1, <2>2
<1>14. Signalled => Signalled'
  <2>1. \A i \in 1..Len(stack) : ~(i >= m)
    BY <1>2, <1>6
  <2> QED
    BY <1>5, <2>1, SignalKept
<1>15. Handles'
  BY <1>1, <1>6, <1>14, HandlesKept
<1>16. Types'
  <2>1. stack' \in Seq(Activations \cup {MainProgram})
    BY <1>5 DEF Changed, Activation
  <2>2. ran' \in [Kinds -> Seq(Who)]
    <3>1. Append(ran[k], p) \in Seq(Who)
      BY <1>3, <1>10, AppendProperties
    <3> QED
      BY <3>1, <1>1 DEF Types
  <2> QED
    BY <2>1, <2>2, <1>1 DEF Types, lists, files
<1>17. Listed' /\ Ended'
  BY <1>1, ListsStand DEF Ended
<1> QED
  BY <1>8, <1>11, <1>12, <1>13, <1>15, <1>16, <1>17

(* A handler returns to its walk, which goes on behind it. *)
LEMMA ReturnKeeps ==
  ASSUME ShutdownAssumption, EndInv, HandlerReturns
  PROVE  EndInv'
<1> USE DEF EndInv
<1> DEFINE L == Len(stack)
           w == Front(stack)
           x == stack[L - 1]
<1>1. /\ Top.walk = "code" /\ end = "no" /\ Top # MainProgram /\ UNCHANGED <<due, ran, end, lists, files>>
      /\ \E n \in IF w[Len(w)].at \in live THEN {cell[w[Len(w)].at].next} ELSE Nodes \cup {NULL} :
           stack' = [w EXCEPT ![Len(w)].at = n]
  BY DEF HandlerReturns, InCode, Running
<1>2. /\ L \in Nat /\ L > 1 /\ Top = stack[L] /\ DOMAIN stack = 1..L /\ Top \in Activation /\ L \in DOMAIN stack
      /\ L - 1 \in Nat /\ L - 1 \in 1..L /\ x \in Activation
  BY <1>1, StackFacts
<1>3. w \in Seq(Activation) /\ Len(w) = L - 1 /\ \A i \in 1..(L - 1) : w[i] = stack[i]
  BY <1>2, FrontFacts
<1> DEFINE k == Top.kind
<1>4. k \in Kinds /\ x.walk = k /\ x.at # NULL
  <2>1. k \in {"main", "error", "exit"} /\ k # "main"
    BY <1>1, <1>2, FrameKinds
  <2>2. IsHandler(stack[L])
    BY <2>1, <1>1, <1>2 DEF IsHandler
  <2> QED
    BY <2>1, <2>2, <1>2 DEF Stacked, Kinds
<1> HIDE DEF w, k, L
<1>5. Goes(cell, live, x, ran[k], due[k], TRUE)
  <2>1. L - 1 < Len(stack) /\ (L - 1) + 1 = L /\ stack[(L - 1) + 1].walk = "code" /\ L - 1 \in 1..Len(stack)
    BY <1>1, <1>2 DEF L
  <2>2. TRUE = (L - 1 < Len(stack) /\ stack[(L - 1) + 1].walk = "code") /\ TRUE \in BOOLEAN
    BY <2>1
  <2>3. Goes(cell, live, stack[L - 1], ran[stack[L - 1].walk], due[stack[L - 1].walk], TRUE)
    BY <2>1, <2>2, <1>4, WalkBelow
  <2> QED
    BY <2>3, <1>4
<1>6. x = w[Len(w)] /\ x = stack[L - 1] /\ Len(w) \in DOMAIN w /\ DOMAIN w = 1..(L - 1)
  BY <1>2, <1>3
<1> DEFINE n == cell[x.at].next
           y == [x EXCEPT !.at = n]
<1>7. x \in [walk : Kinds, at : Nodes \cup {NULL}]
  <2>1. x # MainProgram
    BY <1>4 DEF MainProgram, Code, Kinds
  <2> QED
    BY <2>1, <1>2, <1>4 DEF Activation, Activations, Kinds
<1> HIDE DEF x
<1>8. x.at \in live /\ x.at \in Nodes /\ n \in Nodes \cup {NULL}
  <2>1. n = cell[x.at].next
    OBVIOUS
  <2>2. PICK z : z.at = n
    <3>1. [at |-> n].at = n
      OBVIOUS
    <3> QED
      BY <3>1
  <2>3. x.at \in live
    BY <2>2, <1>4, <1>5, GoesOn
  <2> QED
    BY <2>3 DEF Types
<1>9. stack' = [w EXCEPT ![Len(w)] = y]
  BY <1>1, <1>6, <1>8
<1>10. y \in [walk : Kinds, at : Nodes \cup {NULL}] /\ y.walk = k /\ y.at = n /\ y \in Activation
  <2>1. y \in [walk : Kinds, at : Nodes \cup {NULL}] /\ y.walk = x.walk /\ y.at = n
    BY <1>7, <1>8
  <2> QED
    BY <2>1, <1>4 DEF Activation, Activations
<1>11. Goes(cell, live, y, ran[k], due[k], FALSE)
  BY <1>4, <1>5, <1>10, GoesOn
<1> HIDE DEF y, n
<1>12. Changed(L - 1, y)
  <2>1. stack' \in Seq(Activation) /\ Len(stack') = L - 1
    BY <1>3, <1>6, <1>9, <1>10, ExceptSeq
  <2>2. stack'[L - 1] = y
    BY <1>2, <1>3, <1>6, <1>9
  <2>3. \A i \in 1..((L - 1) - 1) : stack'[i] = stack[i]
    <3>1. ASSUME NEW i \in 1..((L - 1) - 1) PROVE stack'[i] = stack[i]
      <4>1. i \in 1..(L - 1) /\ i # Len(w)
        BY <1>2, <1>3
      <4> QED
        BY <4>1, <1>3, <1>6, <1>9
    <3> QED
      BY <3>1
  <2>4. L - 1 \in 1..(Len(stack) + 1)
    BY <1>2 DEF L
  <2> QED
    BY <2>1, <2>2, <2>3, <2>4 DEF Changed
<1>13. Level(y) = Level(x) /\ y.walk \in {"error", "exit"} /\ y # Walk("files", "stop") /\ y # MainProgram /\ ~IsHandler(y)
  <2>1. y.walk \in {"error", "exit"} /\ x.walk = y.walk
    BY <1>4, <1>10 DEF Kinds
  <2>2. y # Walk("files", "stop") /\ y # MainProgram
    BY <2>1 DEF Walk, MainProgram, Code
  <2>3. Level(y) = Level(x)
    BY <2>1, <1>2, <1>10, FrameKinds
  <2>4. ~IsHandler(y)
    BY <2>1 DEF IsHandler
  <2> QED
    BY <2>1, <2>2, <2>3, <2>4
<1>14. x.walk \in {"error", "exit"} /\ x # MainProgram
  BY <1>4 DEF Kinds, MainProgram, Code
<1>15. L - 1 > 1
  <2>1. stack[1] = MainProgram
    BY StackFacts
  <2> QED
    BY <2>1, <1>2, <1>6, <1>14
<1>16. Stacked' /\ Top' = y
  <2>1. ASSUME NEW i \in 1..((L - 1) - 1) PROVE Level(stack[i]) < Level(y)
    <3>1. i \in DOMAIN stack /\ L - 1 \in DOMAIN stack /\ i < L - 1
      BY <1>2
    <3>2. Level(stack[i]) < Level(stack[L - 1]) \/ stack[L - 1].walk = "close"
      BY <3>1 DEF Stacked
    <3> QED
      BY <3>2, <1>6, <1>13, <1>14
  <2>2. L - 1 # 1
    BY <1>15
  <2> QED
    BY <1>10, <1>12, <1>13, <2>1, <2>2, StackKept
<1>17. Walked'
  <2>1. ASSUME stack[(L - 1) - 1].walk \in Kinds
        PROVE  Goes(cell, live, stack[(L - 1) - 1], ran[stack[(L - 1) - 1].walk], due[stack[(L - 1) - 1].walk], FALSE)
    <3>1. (L - 1) - 1 \in 1..Len(stack) /\ (L - 1) - 1 < Len(stack) /\ ((L - 1) - 1) + 1 = L - 1
      BY <1>2, <1>15 DEF L
    <3>2. stack[L - 1].walk # "code"
      BY <1>6, <1>14
    <3>3. FALSE = ((L - 1) - 1 < Len(stack) /\ stack[((L - 1) - 1) + 1].walk = "code") /\ FALSE \in BOOLEAN
      BY <3>1, <3>2
    <3> QED
      BY <2>1, <3>1, <3>3, WalkBelow
  <2>2. (y.walk = "code") = FALSE
    BY <1>13
  <2>3. \A i \in 1..((L - 1) - 1) : i # (L - 1) - 1 /\ stack[i].walk \in Kinds =>
           ran'[stack[i].walk] = ran[stack[i].walk] /\ due'[stack[i].walk] = due[stack[i].walk]
    BY <1>1
  <2>4. y.walk \in Kinds => Goes(cell, live, y, ran'[y.walk], due'[y.walk], FALSE)
    BY <1>1, <1>10, <1>11
  <2>5. UNCHANGED <<cell, live>>
    BY <1>1 DEF lists
  <2>6. L - 1 > 1 /\ stack[(L - 1) - 1].walk \in Kinds =>
          Goes(cell, live, stack[(L - 1) - 1], ran'[stack[(L - 1) - 1].walk], due'[stack[(L - 1) - 1].walk], y.walk = "code")
    BY <2>1, <2>2, <1>1
  <2> QED
    BY <1>10, <1>12, <2>3, <2>4, <2>5, <2>6, WalksKept
<1>18. ErrorsRun'
  <2>1. ASSUME stack[2].walk = "error" PROVE L - 1 > 2 \/ (L - 1 = 2 /\ y.walk = "error")
    <3>1. CASE L - 1 = 2
      BY <3>1, <2>1, <1>4, <1>6, <1>10
    <3> QED
      BY <3>1, <1>2, <1>15
  <2> QED
    BY <1>1, <1>12, <2>1, ErrorsKept
<1>19. ExitsRun'
  BY <1>1, <1>12, <1>13, ExitsKept
<1>20. Signalled => Signalled'
  <2>1. stack[L] # Walk("files", "signal") /\ stack[L - 1] # Walk("files", "signal")
    BY <1>1, <1>2, <1>6, <1>14 DEF Walk
  <2>2. \A i \in 1..Len(stack) : i >= L - 1 /\ stack[i] = Walk("files", "signal") => i = L - 1 /\ y = stack[i]
    <3>1. \A i \in 1..L : i >= L - 1 => i = L - 1 \/ i = L
      BY <1>2
    <3> QED
      BY <2>1, <3>1 DEF L
  <2> QED
    BY <1>12, <2>2, SignalKept
<1>21. Handles'
  BY <1>1, <1>20, HandlesKept
<1>22. Types'
  BY <1>1, <1>12 DEF Changed, Activation, Types, lists, files
<1>23. Listed' /\ Ended'
  BY <1>1, ListsStand DEF Ended
<1> QED
  BY <1>16, <1>17, <1>18, <1>19, <1>21, <1>22, <1>23

(* The handlers of a walk that has come to the null pointer have all run. *)
LEMMA WalkOver ==
  ASSUME ShutdownAssumption, EndInv, NEW k \in Kinds, Top.walk = k, Top.at = NULL
  PROVE  ran[k] = due[k]
<1> USE DEF EndInv
<1>1. /\ Top = stack[Len(stack)] /\ Len(stack) \in 1..Len(stack) /\ Len(stack) \in Nat
  BY StackFacts
<1>2. FALSE = (Len(stack) < Len(stack) /\ stack[Len(stack) + 1].walk = "code") /\ FALSE \in BOOLEAN
  BY <1>1
<1>3. Goes(cell, live, stack[Len(stack)], ran[stack[Len(stack)].walk], due[stack[Len(stack)].walk], FALSE)
  BY <1>1, <1>2, WalkBelow
<1>4. Goes(cell, live, Top, ran[k], due[k], FALSE)
  BY <1>1, <1>3
<1>5. NULL \notin live /\ ran[k] \in Seq(Who)
  BY DEF Types, ShutdownAssumption
<1> QED
  BY <1>4, <1>5, GoesEnds

(* Another walk takes the place of one that is over. *)
LEMMA ReplaceKeeps ==
  ASSUME ShutdownAssumption, EndInv, NEW y \in Activation, Top.walk \in Kinds, stack' = Replace(y),
         ~IsHandler(y), y.walk # "code", y.walk # "error",
         Level(Top) < Level(y), UNCHANGED <<cell, live, files>>,
         \A i \in 1..(Len(stack) - 1) : stack[i].walk \in Kinds =>
           ran'[stack[i].walk] = ran[stack[i].walk] /\ due'[stack[i].walk] = due[stack[i].walk],
         y.walk \in Kinds => Goes(cell, live, y, ran'[y.walk], due'[y.walk], FALSE)
  PROVE  /\ Changed(Len(stack), y) /\ stack' \in Seq(Activations \cup {MainProgram})
         /\ Stacked' /\ Top' = y /\ Walked' /\ Handles'
<1> USE DEF EndInv
<1> DEFINE m == Len(stack)
<1>1. /\ m \in Nat /\ m >= 1 /\ Top = stack[m] /\ Top \in Activation /\ DOMAIN stack = 1..m /\ m \in 1..m
      /\ \A i \in 1..m : stack[i] \in Activation
  BY StackFacts
<1>2. m > 1 /\ Top.walk # "close"
  <2>1. Top # MainProgram /\ Top.walk # "close"
    BY DEF MainProgram, Code, Kinds
  <2> QED
    BY <2>1, StackFacts
<1>3. Changed(m, y)
  BY <1>2, Replaced
<1> HIDE DEF m
<1>4. Stacked' /\ Top' = y
  <2>1. ASSUME NEW i \in 1..(m - 1) PROVE Level(stack[i]) < Level(y)
    <3>1. Level(stack[i]) < Level(Top)
      BY <1>2, StackFacts DEF m
    <3>2. stack[i] \in Activation
      BY <1>1
    <3>3. Level(stack[i]) \in 0..6 /\ Level(Top) \in 0..6 /\ Level(y) \in 0..6
      BY <3>2, <1>1, FrameKinds
    <3> QED
      BY <3>1, <3>3
  <2>2. m # 1
    BY <1>2
  <2> QED
    BY <1>3, <2>1, <2>2, StackKept
<1>5. Walked'
  <2>1. m > 1 /\ stack[m - 1].walk \in Kinds =>
          Goes(cell, live, stack[m - 1], ran'[stack[m - 1].walk], due'[stack[m - 1].walk], y.walk = "code")
    <3>1. ASSUME stack[m - 1].walk \in Kinds
          PROVE  Goes(cell, live, stack[m - 1], ran'[stack[m - 1].walk], due'[stack[m - 1].walk], FALSE)
      <4>1. m - 1 \in 1..(m - 1) /\ m - 1 \in 1..Len(stack) /\ (m - 1) + 1 = m
        BY <1>1, <1>2 DEF m
      <4>2. stack[m].walk # "code"
        BY <1>1 DEF Kinds
      <4>3. FALSE = (m - 1 < Len(stack) /\ stack[(m - 1) + 1].walk = "code") /\ FALSE \in BOOLEAN
        BY <4>1, <4>2
      <4>4. Goes(cell, live, stack[m - 1], ran[stack[m - 1].walk], due[stack[m - 1].walk], FALSE)
        BY <3>1, <4>1, <4>3, WalkBelow
      <4> QED
        BY <4>1, <4>4, <3>1 DEF m
    <3>2. (y.walk = "code") = FALSE
      OBVIOUS
    <3> QED
      BY <3>1, <3>2
  <2>2. \A i \in 1..(m - 1) : i # m - 1 /\ stack[i].walk \in Kinds =>
           ran'[stack[i].walk] = ran[stack[i].walk] /\ due'[stack[i].walk] = due[stack[i].walk]
    BY DEF m
  <2> QED
    BY <1>3, <2>1, <2>2, WalksKept
<1>6. Signalled => Signalled'
  <2>1. stack[m] # Walk("files", "signal")
    BY <1>1 DEF Walk, Kinds
  <2>2. \A i \in 1..Len(stack) : ~(i >= m /\ stack[i] = Walk("files", "signal"))
    <3>1. \A i \in 1..m : i >= m => i = m
      BY <1>1
    <3> QED
      BY <2>1, <3>1 DEF m
  <2> QED
    BY <1>3, <2>2, SignalKept
<1>7. Handles'
  BY <1>2, <1>6, HandlesKept
<1>8. stack' \in Seq(Activations \cup {MainProgram})
  BY <1>3 DEF Changed, Activation
<1> QED
  BY <1>3, <1>4, <1>5, <1>7, <1>8 DEF m

(* The error handlers are done with; the exit handlers follow. *)
LEMMA ErrorsDoneKeeps ==
  ASSUME ShutdownAssumption, EndInv, ErrorsDone
  PROVE  EndInv'
<1> USE DEF EndInv
<1> DEFINE y == Walk("exit", head["exit"])
<1>1. /\ end = "no" /\ Top.walk = "error" /\ Top.at = NULL /\ head' = [head EXCEPT !["error"] = NULL]
      /\ wanted' = [wanted EXCEPT !["error"] = <<>>] /\ stack' = Replace(y)
      /\ due' = [due EXCEPT !["exit"] = wanted["exit"]] /\ ran' = [ran EXCEPT !["exit"] = <<>>]
      /\ UNCHANGED <<cell, live, end, files>>
  BY DEF ErrorsDone, Running
<1>2. "exit" \in Kinds /\ "error" \in Kinds /\ Kinds = {"exit", "error"} /\ head["exit"] \in Nodes \cup {NULL}
  BY DEF Kinds, Types
<1>3. y \in Activation /\ y.walk = "exit" /\ y.at = head["exit"] /\ Level(y) = 3
  BY <1>2, FrameLevels
<1> HIDE DEF y
<1>4. /\ Len(stack) = 2 /\ Top \in Activation /\ Level(Top) = 1 /\ stack[1] = MainProgram /\ Top = stack[Len(stack)]
  BY <1>1, StackFacts, FrameKinds
<1>5. ran["error"] = due["error"]
  BY <1>1, <1>2, WalkOver
<1>6. /\ ran'["exit"] = <<>> /\ due'["exit"] = wanted["exit"] /\ wanted["exit"] \in Seq(Who)
      /\ ran'["error"] = ran["error"] /\ due'["error"] = due["error"]
  BY <1>1, <1>2 DEF Types
<1>7. Goes(cell, live, y, ran'[y.walk], due'[y.walk], FALSE)
  <2>1. PICK s : Chain(cell, live, s, y.at) /\ ProcsOf(cell, s) = wanted["exit"]
    BY <1>2, <1>3 DEF Listed
  <2>2. Goes(cell, live, y, <<>>, wanted["exit"], FALSE)
    BY <2>1, <1>6, GoesBegins
  <2> QED
    BY <2>2, <1>3, <1>6
<1>8. \A i \in 1..(Len(stack) - 1) : stack[i].walk \notin Kinds
  <2>1. \A i \in 1..(Len(stack) - 1) : stack[i] = MainProgram
    BY <1>4
  <2> QED
    BY <2>1, <1>2 DEF MainProgram, Code
<1>9. /\ Changed(Len(stack), y) /\ stack' \in Seq(Activations \cup {MainProgram})
      /\ Stacked' /\ Top' = y /\ Walked' /\ Handles'
  <2>1. ~IsHandler(y) /\ y.walk # "code" /\ y.walk # "error" /\ Level(Top) < Level(y) /\ Top.walk \in Kinds
    BY <1>1, <1>2, <1>3, <1>4 DEF IsHandler
  <2> QED
    BY <1>1, <1>3, <1>7, <1>8, <2>1, ReplaceKeeps
<1>10. Types'
  <2>1. <<>> \in Seq(Who)
    OBVIOUS
  <2>2. head' \in [Kinds -> Nodes \cup {NULL}]
    BY <1>1 DEF Types
  <2>3. wanted' \in [Kinds -> Seq(Who)] /\ due' \in [Kinds -> Seq(Who)] /\ ran' \in [Kinds -> Seq(Who)]
    BY <2>1, <1>1, <1>6 DEF Types
  <2> QED
    BY <1>1, <1>9, <2>2, <2>3 DEF Types, files
<1>11. Listed'
  <2>1. Chain(cell, live, <<>>, NULL) /\ ProcsOf(cell, <<>>) = <<>> /\ IsInjective(<<>>)
    <3>1. IsInjective(<<>>) /\ <<>> \in Seq(live) /\ DOMAIN <<>> = {}
      BY DEF IsInjective
    <3>2. ProcsOf(cell, <<>>) = <<>>
      BY DEF ProcsOf
    <3> QED
      BY <3>1, <3>2 DEF Chain
  <2>2. head'["error"] = NULL /\ wanted'["error"] = <<>> /\ head'["exit"] = head["exit"] /\ wanted'["exit"] = wanted["exit"]
    BY <1>1, <1>2 DEF Types
  <2>3. IsInjective(wanted'["error"]) /\ \E s : Chain(cell, live, s, head'["error"]) /\ ProcsOf(cell, s) = wanted'["error"]
    BY <2>1, <2>2
  <2>4. IsInjective(wanted'["exit"]) /\ \E s : Chain(cell, live, s, head'["exit"]) /\ ProcsOf(cell, s) = wanted'["exit"]
    BY <2>2, <1>2 DEF Listed
  <2> QED
    BY <2>3, <2>4, <1>1, <1>2 DEF Listed
<1>12. ErrorsRun'
  BY <1>5, <1>6 DEF ErrorsRun
<1>13. ExitsRun'
  <2>1. ASSUME NEW i \in DOMAIN stack', stack'[i] = Walk("files", "stop") PROVE FALSE
    <3>1. y # Walk("files", "stop") /\ MainProgram # Walk("files", "stop")
      BY <1>3 DEF Walk, MainProgram, Code
    <3>2. PICK j \in DOMAIN stack : stack[j] = stack'[i]
      BY <2>1, <3>1, <1>9, OldFrames
    <3>3. stack[2] # Walk("files", "stop")
      BY <1>1, <1>4 DEF Walk
    <3>4. j = 1 \/ j = 2
      BY <1>4, StackFacts
    <3> QED
      BY <2>1, <3>1, <3>2, <3>3, <3>4, <1>4
  <2> QED
    BY <2>1 DEF ExitsRun
<1>14. Ended'
  BY <1>1 DEF Ended
<1> QED
  BY <1>9, <1>10, <1>11, <1>12, <1>13, <1>14

(* The exit handlers are done with; the files follow. *)
LEMMA ExitsDoneKeeps ==
  ASSUME ShutdownAssumption, EndInv, ExitsDone
  PROVE  EndInv'
<1> USE DEF EndInv
<1> DEFINE y == Walk("files", "stop")
<1>1. /\ end = "no" /\ Top.walk = "exit" /\ Top.at = NULL /\ stack' = Replace(y)
      /\ UNCHANGED <<due, ran, end, lists, files>>
  BY DEF ExitsDone, Running
<1>2. "exit" \in Kinds
  BY DEF Kinds
<1>3. y \in Activation /\ y.walk = "files" /\ Level(y) = 5
  BY FrameLevels
<1> HIDE DEF y
<1>4. /\ Top \in Activation /\ Level(Top) = 3 /\ Top = stack[Len(stack)] /\ Len(stack) \in Nat /\ Len(stack) >= 1
  BY <1>1, StackFacts, FrameKinds
<1>5. ran["exit"] = due["exit"]
  BY <1>1, <1>2, WalkOver
<1>6. UNCHANGED <<cell, live>>
  BY <1>1 DEF lists
<1>7. /\ Changed(Len(stack), y) /\ stack' \in Seq(Activations \cup {MainProgram})
      /\ Stacked' /\ Top' = y /\ Walked' /\ Handles'
  <2>1. /\ ~IsHandler(y) /\ y.walk # "code" /\ y.walk # "error" /\ Level(Top) < Level(y) /\ Top.walk \in Kinds
        /\ y.walk \notin Kinds
    BY <1>1, <1>2, <1>3, <1>4 DEF IsHandler, Kinds
  <2> QED
    BY <1>1, <1>3, <1>6, <2>1, ReplaceKeeps
<1>8. Types'
  BY <1>1, <1>7 DEF Types, lists, files
<1>9. ErrorsRun'
  <2>1. Len(stack) > 1 /\ stack[2].walk = "error" => Len(stack) > 2
    <3>1. Len(stack) = 2 => stack[2].walk = "exit"
      BY <1>1, <1>4
    <3>2. Len(stack) \in Nat
      BY <1>4
    <3>3. SUFFICES ASSUME Len(stack) > 1, stack[2].walk = "error"
                   PROVE  Len(stack) > 2
      OBVIOUS
    <3>4. Len(stack) # 2
      BY <3>1, <3>3
    <3> QED
      BY <3>2, <3>3, <3>4
  <2> QED
    BY <1>1, <1>7, <2>1, ErrorsKept
<1>10. ExitsRun'
  BY <1>1, <1>5 DEF ExitsRun
<1>11. Listed' /\ Ended'
  BY <1>1, ListsStand DEF Ended
<1> QED
  BY <1>7, <1>8, <1>9, <1>10, <1>11

(* A signal comes. *)
LEMMA SignalKeeps ==
  ASSUME EndInv, Signal
  PROVE  EndInv'
<1> USE DEF EndInv
<1> DEFINE y == Walk("files", "signal")
<1>1. /\ end = "no" /\ (\A i \in DOMAIN stack : stack[i] # y) /\ stack' = Append(stack, y)
      /\ UNCHANGED <<due, ran, end, lists, files>>
  BY DEF Signal, Running
<1>2. y \in Activation /\ y.walk = "files" /\ Level(y) = 6 /\ y # Walk("files", "stop")
  BY FrameLevels
<1>3. ASSUME NEW i \in 1..Len(stack) PROVE Level(stack[i]) < Level(y)
  <2>1. stack[i] \in Activation /\ i \in DOMAIN stack
    BY StackFacts
  <2>2. Level(stack[i]) \in 0..6 /\ Level(stack[i]) # 6
    BY <2>1, <1>1, FrameKinds
  <2> QED
    BY <2>2, <1>2
<1> HIDE DEF y
<1>4. /\ stack' \in Seq(Activation) /\ Listed' /\ Stacked' /\ Walked' /\ ErrorsRun' /\ ExitsRun'
      /\ Top' = y
  <2>1. ~IsHandler(y) /\ y.walk \notin Kinds /\ y.walk # "code"
    BY <1>2 DEF IsHandler, Kinds
  <2> QED
    BY <1>1, <1>2, <1>3, <2>1, PushKeeps
<1>5. Handles'
  <2>1. Len(stack') \in DOMAIN stack' /\ stack'[Len(stack')] = y
    <3>1. Changed(Len(stack) + 1, y) /\ Len(stack) \in Nat
      BY <1>1, <1>2, Pushed, StackFacts
    <3> QED
      BY <3>1 DEF Changed
  <2> QED
    BY <2>1 DEF Handles, Signalled, y
<1>6. Types'
  BY <1>1, <1>4 DEF Types, lists, files, Activation
<1>7. Ended'
  BY <1>1 DEF Ended
<1> QED
  BY <1>4, <1>5, <1>6, <1>7

(* cob_exit_fileio closes a file. *)
LEMMA ExitFileioKeeps ==
  ASSUME EndInv, ExitFileio
  PROVE  EndInv'
<1> USE DEF EndInv
<1>1. PICK f \in Files :
        /\ end = "no" /\ Top.walk = "files" /\ mode[f] # "closed" /\ stack' = Append(stack, Walk("close", f))
        /\ mode' = [mode EXCEPT ![f] = "handle"] /\ closed' = [closed EXCEPT ![f] = @ + 1]
        /\ UNCHANGED <<due, ran, end, lists>>
  BY DEF ExitFileio, Running, CloseHandle
<1> DEFINE y == Walk("close", f)
<1>2. y \in Activation /\ y.walk = "close"
  BY FrameLevels
<1>3. y # Walk("files", "stop")
  BY DEF Walk
<1> HIDE DEF y
<1>4. /\ stack' \in Seq(Activation) /\ Listed' /\ Stacked' /\ Walked' /\ ErrorsRun' /\ ExitsRun'
      /\ Top' = y /\ (Signalled => Signalled')
  <2>1. ~IsHandler(y) /\ y.walk \notin Kinds /\ y.walk # "code" /\ stack' = Append(stack, y)
    BY <1>1, <1>2 DEF IsHandler, Kinds, y
  <2> QED
    BY <1>1, <1>2, <1>3, <2>1, PushKeeps
<1>5. Types'
  BY <1>1, <1>4 DEF Types, lists, Activation
<1>6. Handles'
  <2>1. CASE Signalled
    BY <2>1, <1>4 DEF Handles
  <2>2. CASE ~Signalled
    <3>1. ASSUME NEW g \in Files
          PROVE  closed'[g] <= 1 /\ (mode'[g] = "open" => closed'[g] = 0) /\ (mode'[g] = "handle" => Top' = Walk("close", g))
      <4>1. Top # Walk("close", g)
        BY <1>1 DEF Walk
      <4>2. mode[g] \in {"closed", "open", "handle"} /\ mode[g] # "handle"
        BY <4>1, <2>2 DEF Types, Handles
      <4>3. CASE g = f
        BY <4>2, <4>3, <2>2, <1>1, <1>4 DEF Types, Handles, y
      <4>4. CASE g # f
        BY <4>2, <4>4, <2>2, <1>1 DEF Types, Handles
      <4> QED
        BY <4>3, <4>4
    <3> QED
      BY <3>1 DEF Handles
  <2> QED
    BY <2>1, <2>2
<1>7. Ended'
  BY <1>1 DEF Ended
<1> QED
  BY <1>4, <1>5, <1>6, <1>7

(* The process ends. *)
LEMMA ExitKeeps ==
  ASSUME EndInv, Exit
  PROVE  EndInv'
<1> USE DEF EndInv
<1>1. /\ Top.walk = "files" /\ (\A f \in Files : mode[f] = "closed") /\ end' = Top.at
      /\ UNCHANGED <<stack, due, ran, lists, files>>
  BY DEF Exit
<1>2. Top.at \in {"stop", "signal"} /\ Top = Walk("files", Top.at)
  BY <1>1, StackFacts, FrameKinds
<1>3. Ended'
  <2>1. Top' = Top
    BY <1>1 DEF Top
  <2> QED
    BY <2>1, <1>1, <1>2 DEF Ended, files
<1>4. Types' /\ Listed' /\ Walked'
  BY <1>1, ListsStand DEF Types, Walked, Handled, lists, files
<1>5. Stacked' /\ ErrorsRun' /\ ExitsRun' /\ Handles'
  BY <1>1 DEF Stacked, ErrorsRun, ExitsRun, Handles, Signalled, Top, files
<1> QED
  BY <1>3, <1>4, <1>5

(* A step that changes nothing. *)
LEMMA StutterKeeps ==
  ASSUME EndInv, UNCHANGED shutdown_vars
  PROVE  EndInv'
<1> USE DEF EndInv, shutdown_vars
<1>1. Types' /\ Listed' /\ Walked'
  BY DEF Types, Listed, Walked, Handled
<1>2. Stacked' /\ ErrorsRun' /\ ExitsRun' /\ Handles' /\ Ended'
  BY DEF Stacked, ErrorsRun, ExitsRun, Handles, Signalled, Top, Ended
<1> QED
  BY <1>1, <1>2

(* At first the lists are empty and the main program runs. *)
LEMMA InitEstablishes ==
  ASSUME ShutdownInit
  PROVE  EndInv
<1>1. /\ head = [k \in Kinds |-> NULL] /\ cell = [a \in Nodes |-> [next |-> NULL, proc |-> NULL]]
      /\ live = {} /\ stack = <<MainProgram>> /\ mode = [f \in Files |-> "closed"]
      /\ wanted = [k \in Kinds |-> <<>>] /\ due = [k \in Kinds |-> <<>>] /\ ran = [k \in Kinds |-> <<>>]
      /\ closed = [f \in Files |-> 0] /\ end = "no"
  BY DEF ShutdownInit
<1>2. "exit" \in Kinds /\ "error" \in Kinds
  BY DEF Kinds
<1>3. MainProgram.walk = "code" /\ MainProgram.kind = "main"
  BY DEF MainProgram, Code
<1>4. Len(stack) = 1 /\ stack[1] = MainProgram /\ DOMAIN stack = {1} /\ Top = MainProgram
  BY <1>1 DEF Top
<1>5. Types
  <2>1. <<>> \in Seq(Who) /\ <<MainProgram>> \in Seq(Activations \cup {MainProgram})
    OBVIOUS
  <2>2. [next |-> NULL, proc |-> NULL] \in [next : Nodes \cup {NULL}, proc : Who]
    BY DEF Who
  <2>3. cell \in [Nodes -> [next : Nodes \cup {NULL}, proc : Who]]
    BY <1>1, <2>2
  <2> QED
    BY <1>1, <2>1, <2>3 DEF Types
<1>6. Stacked
  BY <1>1, <1>3, <1>4 DEF Stacked, IsHandler
<1>7. Listed
  <2>1. IsInjective(<<>>) /\ <<>> \in Seq(live) /\ DOMAIN <<>> = {}
    BY DEF IsInjective
  <2>2. ProcsOf(cell, <<>>) = <<>>
    BY DEF ProcsOf
  <2>3. Chain(cell, live, <<>>, NULL)
    BY <2>1 DEF Chain
  <2>4. \A k \in Kinds : head[k] = NULL /\ wanted[k] = <<>>
    BY <1>1
  <2> QED
    BY <2>1, <2>2, <2>3, <2>4 DEF Listed
<1>8. Walked
  BY <1>3, <1>4 DEF Walked, Kinds
<1>9. ErrorsRun /\ ExitsRun
  BY <1>1, <1>2 DEF ErrorsRun, ExitsRun
<1>10. Handles /\ Ended
  BY <1>1 DEF Handles, Ended
<1> QED
  BY <1>5, <1>6, <1>7, <1>8, <1>9, <1>10 DEF EndInv

(* Where only the newest handler is removed or registered again, EndInv holds. *)
LEMMA ShutdownInvariant ==
  ASSUME ShutdownAssumption, Removals = "newest"
  PROVE  ShutdownSpec => []EndInv
<1>1. ShutdownInit => EndInv
  BY InitEstablishes
<1>2. EndInv /\ [ShutdownNext]_shutdown_vars => EndInv'
  <2>1. SUFFICES ASSUME EndInv, [ShutdownNext]_shutdown_vars PROVE EndInv'
    OBVIOUS
  <2>2. ASSUME NEW k \in Kinds, NEW p \in Procs, Register(k, p) \/ Unregister(k, p) PROVE EndInv'
    BY <2>1, <2>2, RegisterKeeps, UnregisterKeeps
  <2>3. ASSUME NEW f \in Files, OpenFile(f) \/ CloseFile(f) PROVE EndInv'
    BY <2>1, <2>3, OpenKeeps, CloseKeeps
  <2>4. CASE EndClose \/ CobStopRun \/ RuntimeError
    BY <2>1, <2>4, EndCloseKeeps, StopRunKeeps, RuntimeErrorKeeps
  <2>5. CASE CallHandler \/ HandlerReturns \/ ErrorsDone \/ ExitsDone
    BY <2>1, <2>5, CallKeeps, ReturnKeeps, ErrorsDoneKeeps, ExitsDoneKeeps
  <2>6. CASE Signal \/ ExitFileio \/ Exit
    BY <2>1, <2>6, SignalKeeps, ExitFileioKeeps, ExitKeeps
  <2>7. CASE UNCHANGED shutdown_vars
    BY <2>1, <2>7, StutterKeeps
  <2> QED
    BY <2>1, <2>2, <2>3, <2>4, <2>5, <2>6, <2>7 DEF ShutdownNext
<1> QED
  BY <1>1, <1>2, PTL DEF ShutdownSpec

(* The lists hold the handlers that the calls have asked for, newest first, *)
(* in nodes that are allocated, for any number of handlers and calls, where *)
(* only the newest one is removed or registered again.                      *)
THEOREM HandlersListed ==
  ASSUME ShutdownAssumption, Removals = "newest"
  PROVE  ShutdownSpec => []ListsHold
<1>1. EndInv => ListsHold
  <2>1. SUFFICES ASSUME EndInv, NEW k \in Kinds
                 PROVE  /\ [i \in DOMAIN NodesOf(k) |-> cell[NodesOf(k)[i]].proc] = wanted[k]
                        /\ Range(NodesOf(k)) \subseteq live
    BY DEF ListsHold
  <2>2. PICK s : Chain(cell, live, s, head[k]) /\ ProcsOf(cell, s) = wanted[k]
    BY <2>1 DEF EndInv, Listed
  <2>3. NodesOf(k) = s
    BY <2>1, <2>2, WalkFinds DEF EndInv, Types
  <2>4. [i \in DOMAIN s |-> cell[s[i]].proc] = wanted[k]
    BY <2>2 DEF ProcsOf
  <2>5. Range(s) \subseteq live
    BY <2>2 DEF Chain, Range
  <2> QED
    BY <2>3, <2>4, <2>5
<1> QED
  BY <1>1, ShutdownInvariant, PTL

(* A run unit that has ended has run each handler that was due once, newest *)
(* first, error handlers before exit handlers, and closed its files; no     *)
(* handle is closed twice but for a signal between the steps of a CLOSE.    *)
THEOREM EndIsComplete ==
  ASSUME ShutdownAssumption, Removals = "newest"
  PROVE  ShutdownSpec => []EndComplete
<1>1. EndInv => EndComplete
  <2>1. SUFFICES ASSUME EndInv PROVE EndComplete
    OBVIOUS
  <2> USE <2>1 DEF EndInv
  <2>2. ShutdownTypeOK
    BY DEF Types, Stacked, Ended, ShutdownTypeOK, Who
  <2>3. DOMAIN stack = 1..Len(stack) /\ Len(stack) \in Nat /\ Len(stack) >= 1 /\ Top = stack[Len(stack)]
    BY StackFacts
  <2>4. ExitHandlersRun
    <3>1. ASSUME end = "stop" PROVE ran["exit"] = due["exit"]
      <4>1. Len(stack) \in DOMAIN stack /\ stack[Len(stack)] = Walk("files", "stop")
        BY <2>3, <3>1 DEF Ended
      <4> QED
        BY <4>1 DEF ExitsRun
    <3> QED
      BY <3>1 DEF ExitHandlersRun
  <2>5. ErrorHandlersRun
    <3>1. ASSUME NEW i \in DOMAIN stack, stack[i].walk = "exit", i = 2 PROVE ran["error"] = due["error"]
      BY <2>3, <3>1 DEF ErrorsRun
    <3> QED
      BY <3>1 DEF ErrorHandlersRun
  <2>6. FilesClosed
    <3>1. end # "no" => \A f \in Files : mode[f] = "closed"
      BY DEF Ended
    <3>2. ASSUME NEW f \in Files, closed[f] > 1 PROVE \E i \in DOMAIN stack : stack[i] = Walk("files", "signal")
      <4>1. closed[f] \in Nat /\ ~(closed[f] <= 1)
        BY <3>2 DEF Types
      <4>2. Signalled
        BY <4>1 DEF Handles
      <4> QED
        BY <4>2 DEF Signalled
    <3> QED
      BY <3>1, <3>2 DEF FilesClosed, Running
  <2> QED
    BY <2>2, <2>4, <2>5, <2>6 DEF EndComplete
<1> QED
  BY <1>1, ShutdownInvariant, PTL
=============================================================================
