--------------------------- MODULE PerformContract ---------------------------
(***************************************************************************)
(* What PERFORM promises: activations nest.  An activation stands for one  *)
(* execution of a PERFORM statement.  When control comes to the end of the *)
(* range that was performed last, it goes back to the beginning of that    *)
(* range, as often as the statement asks for, and then to the statement    *)
(* behind the PERFORM.  No other end of a range has any effect.            *)
(***************************************************************************)
EXTENDS Naturals, Sequences

CONSTANTS
  Spots,       \* the places control can be at
  Sites        \* PERFORM statements: [at, first, through, kind]

VARIABLES
  spot,        \* where control is
  active       \* the activations: [site, left], the last on top

Top == active[Len(active)]

\* Whether control has come to the end of the range performed last.
AtEnd == active # <<>> /\ spot = Top.site.through

\* Turns a statement may ask for; 0 stands for as many as its condition says.
Turns(s) == CASE s.kind = "once"  -> {1}
              [] s.kind = "until" -> {0}
              [] s.kind = "times" -> Nat \ {0}

\* Control moves on, or passes a loop that has nothing to do.
Move ==
  /\ ~AtEnd
  /\ spot' \in Spots
  /\ UNCHANGED active

Perform ==
  \E s \in Sites :
    /\ spot = <<s.at, 0>>
    /\ spot' = <<s.first, 0>>
    /\ Len(active') = Len(active) + 1
    /\ SubSeq(active', 1, Len(active)) = active
    /\ active'[Len(active')].site = s
    /\ active'[Len(active')].left \in Turns(s)

Again ==
  /\ AtEnd
  /\ Top.left # 1
  /\ spot' = <<Top.site.first, 0>>
  /\ active' = [active EXCEPT ![Len(active)].left = IF @ = 0 THEN 0 ELSE @ - 1]

Return ==
  /\ AtEnd
  /\ Top.left \in {0, 1}
  /\ spot' = <<Top.site.at, 0>>
  /\ active' = SubSeq(active, 1, Len(active) - 1)

Next == Move \/ Perform \/ Again \/ Return
=============================================================================
