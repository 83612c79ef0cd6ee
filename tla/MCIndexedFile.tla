---------------------------- MODULE MCIndexedFile ----------------------------
(***************************************************************************)
(* Instance of IndexedFile: a program alone, with two records and two      *)
(* alternate keys or with three duplicates of one; and two programs of     *)
(* which one reads the file in its order while the other changes it, or    *)
(* that both read and write by the primary key.                            *)
(***************************************************************************)
EXTENDS IndexedFile

Case(modes, numbered, environment, indexes, k, a) ==
  [access : {[c \in Conns |-> IF c = "c1" THEN x ELSE "RANDOM"] : x \in modes},
   dups : numbered, shared : {environment}, uses : {indexes}, keys : {k}, values : {a}]

MCSetups ==
  Case({"SEQUENTIAL"}, {TRUE}, FALSE, {0, 1}, 2, 2)
    \cup Case({"DYNAMIC"}, {FALSE}, FALSE, {0, 1}, 2, 2)
    \cup Case({"SEQUENTIAL"}, {FALSE}, FALSE, {0}, 2, 2)
    \cup Case({"DYNAMIC"}, {TRUE}, FALSE, {0, 1}, 2, 1)
    \cup Case({"DYNAMIC"}, {TRUE}, FALSE, {1}, 3, 1)
    \cup Case({"SEQUENTIAL"}, {TRUE}, TRUE, {}, 2, 2)
    \cup Case({"SEQUENTIAL"}, {TRUE}, TRUE, {0}, 1, 1)
    \cup Case({"RANDOM"}, {TRUE}, TRUE, {0}, 2, 1)
=============================================================================
