------------------------------- MODULE MCLinage -------------------------------
(* Pages for Linage: two valid sets of values and one that is refused. *)
EXTENDS Linage

Page(l, f0, t, b) == [lines |-> l, foot |-> f0, top |-> t, bot |-> b]

Pages == {Page(3, 2, 1, 0), Page(2, 2, 0, 2), Page(2, 3, 1, 1), Page(0, 0, 0, 0)}
=============================================================================
