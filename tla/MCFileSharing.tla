---------------------------- MODULE MCFileSharing ----------------------------
(***************************************************************************)
(* Instance of FileSharing: two run units, the first with two connectors   *)
(* when the programs keep their locks, and with one when they do not.      *)
(***************************************************************************)
EXTENDS FileSharing

MCOwnerOf == [c \in Connectors |-> IF c = "c3" THEN "r2" ELSE "r1"]

MCMaxRecords == [c \in Connectors |-> CASE c = "c1" -> 2 [] c = "c2" -> 0 [] c = "c3" -> 1]

MCSetups ==
  [used : {{"c1", "c2", "c3"}}, exclusive : {TRUE}, apart : {TRUE}]
    \cup [used : {{"c1", "c3"}}, exclusive : {FALSE}, apart : {TRUE}]
=============================================================================
