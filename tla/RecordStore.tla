----------------------------- MODULE RecordStore -----------------------------
(***************************************************************************)
(* What a keyed COBOL file promises whatever its organization: a set of    *)
(* records, at most one under a key, changed one record at a time and only *)
(* by the statement that is meant to.  RelativeFile and IndexedFile         *)
(* implement it.                                                           *)
(*                                                                         *)
(* The store is lenient where the run-time is: a REWRITE or DELETE of a    *)
(* key without a record may be answered as done, but then changes nothing. *)
(***************************************************************************)
EXTENDS Naturals

CONSTANTS Keys, Records, NoRecord

VARIABLES
  contents,   \* the records, by key
  reply       \* the last statement, and whether it was answered as done

vars == <<contents, reply>>

Done(op) == reply' = [op |-> op, done |-> TRUE]

Init == /\ contents \in [Keys -> Records \cup {NoRecord}]
        /\ reply = [op |-> "none", done |-> TRUE]

Put(k, r) ==
  /\ contents[k] = NoRecord
  /\ contents' = [contents EXCEPT ![k] = r]
  /\ Done("WRITE")

Replace(k, r) ==
  /\ contents[k] # NoRecord
  /\ contents' = [contents EXCEPT ![k] = r]
  /\ Done("REWRITE")

Remove(k) ==
  /\ contents[k] # NoRecord
  /\ contents' = [contents EXCEPT ![k] = NoRecord]
  /\ Done("DELETE")

Clear ==
  /\ contents' = [k \in Keys |-> NoRecord]
  /\ Done("OPEN")

(* any other statement, and whatever is refused or finds nothing to change; *)
(* a WRITE answered as done has put its record                             *)
Look ==
  /\ \/ reply'.op # "WRITE"
     \/ ~reply'.done
  /\ UNCHANGED contents

Next == \/ \E k \in Keys, r \in Records : Put(k, r) \/ Replace(k, r)
        \/ \E k \in Keys : Remove(k)
        \/ Clear
        \/ Look

Spec == Init /\ [][Next]_vars
=============================================================================
