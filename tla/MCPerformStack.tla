--------------------------- MODULE MCPerformStack ---------------------------
(***************************************************************************)
(* Instance of PerformStack: three paragraphs in two sections, the first   *)
(* of them declaratives.  Nested programs have one or two PERFORM          *)
(* statements of any kind; they are compiled without stack checking and    *)
(* must not need it.  The others do as they like with up to two PERFORMs,  *)
(* one of them TIMES.                                                      *)
(***************************************************************************)
EXTENDS PerformStack

MCLastOf == {1, 3}

MCPrograms ==
  [sites : {{s, t} : s \in Statements, t \in Statements},
   osvs : BOOLEAN, check : {FALSE}, nested : {TRUE}]
  \cup
  [sites : {{s, t} : s \in {x \in Statements : x.at = 2 /\ x.kind = "times"},
                    t \in {x \in Statements : x.kind = "once"}},
   osvs : BOOLEAN, check : BOOLEAN, nested : {FALSE}]
=============================================================================
