---------------------------- MODULE SortContract -----------------------------
(***************************************************************************)
(* What a SORT promises the program: every record released is returned     *)
(* once, in the order of the keys, records with equal keys in the order    *)
(* they were released; nothing can be released once a record has been      *)
(* asked for.  CobSort implements it.                                      *)
(***************************************************************************)
EXTENDS Naturals, Sequences

CONSTANTS Keys

VARIABLES
  pool,     \* the records released and not yet returned
  out,      \* the records returned, in order
  sealed,   \* the first RETURN has been asked for
  failed    \* a temporary file has failed: nothing is promised any more

vars == <<pool, out, sealed, failed>>

Precedes(x, y) == x.key < y.key \/ (x.key = y.key /\ x.unique < y.unique)

Init == pool = {} /\ out = <<>> /\ sealed = FALSE /\ failed = FALSE

(* a record comes after all that were released before it *)
Accept ==
  /\ ~sealed
  /\ \E x \in pool' \ pool :
       /\ x.key \in Keys
       /\ \A y \in pool : y.unique < x.unique
       /\ pool' = pool \cup {x}
  /\ UNCHANGED <<out, sealed, failed>>

Seal == sealed' = TRUE /\ UNCHANGED <<pool, out, failed>>

Deliver ==
  /\ sealed
  /\ \E x \in pool :
       /\ \A y \in pool \ {x} : Precedes(x, y)
       /\ out' = Append(out, x)
       /\ pool' = pool \ {x}
  /\ UNCHANGED <<sealed, failed>>

Fail   == failed' = TRUE
Broken == failed /\ failed'

Next == Accept \/ Seal \/ Deliver \/ Fail \/ Broken
Spec == Init /\ [][Next]_vars
=============================================================================
