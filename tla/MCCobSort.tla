------------------------------- MODULE MCCobSort ------------------------------
(* Instance of CobSort: short programs of any order in every memory, whose *)
(* temporary files may fail; and one long enough for merges over files.    *)
EXTENDS CobSort

(* seven records of two keys in any order: queues, spills, every memory size *)
Short == [i \in 1..7 |-> {1, 2}]

(* one merge pass over files needs nine records when four fit the memory,  *)
(* two passes seventeen, and three, the last over files whose counts have  *)
(* wrapped, thirty-three                                                   *)
Long == [i \in 1..34 |-> IF i \in {2, 9, 18, 33} THEN {1, 2} ELSE {1 + ((i * 5) % 2)}]

MCSetups ==
  [choices : {Short}, memory : 0..5, mayFail : {TRUE}, using : BOOLEAN]
    \cup [choices : {Long}, memory : {4}, mayFail : {FALSE}, using : BOOLEAN]
=============================================================================
