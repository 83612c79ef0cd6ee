----------------------------- MODULE IndexedFile -----------------------------
(***************************************************************************)
(* An INDEXED file over Berkeley DB: the driver indexed_* of               *)
(* libcob/fileio.c under the checks of the public interface (Connector).   *)
(*                                                                         *)
(* A file is one database of records by primary key and, here, one of      *)
(* primary keys by alternate key, with or without duplicates; duplicates   *)
(* carry a number (dupno) that orders them.  A record is its alternate     *)
(* key.  Two connectors, of different run units or of one, may share the   *)
(* file in a Berkeley environment: the write cursor and the read cursors   *)
(* held make every statement atomic, record locks belong to connectors.    *)
(*                                                                         *)
(* The file exists.  In sequential access REWRITE and DELETE use the key   *)
(* that the last READ left in the driver.  When there is no record under   *)
(* it, or REWRITE has put something else there, the driver goes on with    *)
(* whatever memory its pointers lead to: the model stops, and state says   *)
(* why.                                                                    *)
(***************************************************************************)
EXTENDS Connector, Sequences, SequencesExt

CONSTANTS
  K,          \* primary keys 1..K
  A,          \* alternate keys 1..A
  Conns,      \* the connectors
  Setups      \* what the programs are, see Setup

\* uses: the keys they read by, 0 the primary and 1 the alternate; keys, values:
\* the primary and the alternate keys of their records.
Setup == [access : [Conns -> AccessModes], dups : BOOLEAN, shared : BOOLEAN,
          uses : SUBSET {0, 1}, keys : 1..K, values : 1..A]

ASSUME IndexedAssumption ==
  /\ K \in Nat \ {0} /\ A \in Nat \ {0} /\ Conns # {}
  /\ Setups \subseteq Setup

VARIABLES
  f,       \* the cob_file record of each connector
  p,       \* its struct indexed_file, see Driver
  prim,    \* the record under each primary key, 0 for none
  alts,    \* under each alternate key the entries in their order
  setup,
  last,    \* the last statement: connector, name, status
  state    \* "running", or how a sequential REWRITE or DELETE lost its record

vars == <<f, p, prim, alts, setup, last, state>>
file == <<prim, alts>>

Keys       == 1..K
Conditions == {"EQ", "LT", "LE", "GT", "GE", "NE"}
LockOpts   == {"none", "lock", "ignore"}   \* with an environment only
Statements == {"none", "OPEN", "CLOSE", "UNLOCK", "CRASH", "START", "READ KEY", "READ NEXT",
               "READ PREVIOUS", "WRITE", "REWRITE", "DELETE", "LOST"}

Driver ==
  [index : {0, 1},                 \* key_index: the key that READ NEXT follows
   last0 : 0..K,                   \* last_readkey[0]
   last1 : 0..A, lastp : 0..K,     \* last_readkey[1] and the primary key that goes with it
   dup : 0..K,              \* last_dupno[1]
   data : BOOLEAN,                 \* p->data.data is not NULL
   pkey : 0..K,                    \* p->key as a successful READ leaves it
   last_key : 0..K,                \* key of the last WRITE
   lock : 0..K]                    \* the record locked

NewDriver == [index |-> 0, last0 |-> 0, last1 |-> 0, lastp |-> 0, dup |-> 0,
              data |-> FALSE, pkey |-> 0, last_key |-> 0, lock |-> 0]

TypeOK ==
  /\ f \in [Conns -> Cob_file] /\ p \in [Conns -> Driver]
  /\ prim \in [Keys -> 0..A]
  /\ alts \in [1..A -> Seq([prim : Keys, dup : IF setup.dups THEN 1..K ELSE {0}])]
  /\ setup \in Setup
  /\ last \in [conn : Conns \cup {"none"}, op : Statements, status : 0..99]
  /\ state \in {"running", "rekeyed", "garbage", "gone"}

Init ==
  /\ setup \in Setups
  /\ f = [c \in Conns |-> NewFile([organization |-> "INDEXED", access_mode |-> setup.access[c],
                                   flag_optional |-> FALSE, special |-> 0, linage |-> FALSE])]
  /\ p = [c \in Conns |-> NewDriver]
  /\ prim = [k \in Keys |-> 0]
  /\ alts = [a \in 1..A |-> <<>>]
  /\ last = [conn |-> "none", op |-> "none", status |-> SUCCESS]
  /\ state = "running"

\* What a later statement in this access mode looks at.
Used(access, q) ==
  CASE access = "SEQUENTIAL" -> q
    [] access = "DYNAMIC"    -> [q EXCEPT !.pkey = 0, !.last_key = 0]
    [] access = "RANDOM"     -> [NewDriver EXCEPT !.lock = q.lock]

Answer(c, op, status, g, q) ==
  /\ state = "running"
  /\ f' = [f EXCEPT ![c] = g]
  /\ p' = [p EXCEPT ![c] = Used(g.access_mode, q)]
  /\ last' = [conn |-> c, op |-> op, status |-> status]
  /\ UNCHANGED <<setup, state>>

Refused(c, op, status, g) ==
  /\ status # CallDriver
  /\ Answer(c, op, status, g, p[c])
  /\ UNCHANGED file

Sequential(c) == f[c].access_mode = "SEQUENTIAL"
Opts          == IF setup.shared THEN LockOpts ELSE {"none"}
Locking       == IF setup.shared THEN BOOLEAN ELSE {FALSE}

(***************************************************************************)
(* The databases as a cursor sees them: the entries of index i, in the     *)
(* order of their keys and, under one key, of their place.                 *)
(***************************************************************************)
Entries(i) ==
  IF i = 0
  THEN {[key |-> k, place |-> 1, dup |-> 0, prim |-> k] : k \in {x \in Keys : prim[x] # 0}}
  ELSE UNION {{[key |-> a, place |-> n, dup |-> alts[a][n].dup, prim |-> alts[a][n].prim] :
                 n \in DOMAIN alts[a]} : a \in 1..A}

Nothing == [key |-> 0, place |-> 0, dup |-> 0, prim |-> 0]   \* no entry is found

Behind(x, y) == x.key > y.key \/ (x.key = y.key /\ x.place > y.place)
FirstOf(S)   == IF S = {} THEN Nothing ELSE CHOOSE x \in S : \A y \in S \ {x} : Behind(y, x)
LastOf(S)    == IF S = {} THEN Nothing ELSE CHOOSE x \in S : \A y \in S \ {x} : Behind(x, y)

\* DB_SET_RANGE, and DB_NEXT up to another key or dupno d.
SetRange(L, v)     == FirstOf({e \in L : e.key >= v})
SkipTo(L, e, v, d) == FirstOf({x \in L : ~Behind(e, x) /\ ~(x.key = v /\ x.dup < d)})

Step(L, e, way) == IF way = "NEXT" THEN FirstOf({x \in L : Behind(x, e)})
                                   ELSE LastOf({x \in L : Behind(e, x)})

\* DB_PREV, or DB_LAST when the search has failed.
Below(L, e) == IF e = Nothing THEN LastOf(L) ELSE Step(L, e, "PREV")

Numbered(q) == q.index = 1 /\ setup.dups
LastKey(q)  == IF q.index = 0 THEN q.last0 ELSE q.last1

\* The driver's position after entry e was read.
PositionAt(q, e) ==
  IF q.index = 0
  THEN [q EXCEPT !.last0 = e.key, !.data = TRUE]
  ELSE [q EXCEPT !.last1 = e.key, !.lastp = e.prim, !.data = TRUE,
                 !.dup = IF setup.dups THEN e.dup ELSE @]

(***************************************************************************)
(* Record locks: one lock table of the environment, one owner a connector. *)
(***************************************************************************)
\* Mutant: a statement does not look for the locks of others.
Blocked_Never(c, k) == FALSE

Blocked(c, k) == setup.shared /\ \E d \in Conns \ {c} : p[d].lock = k

Unlocked(q) == IF setup.shared THEN [q EXCEPT !.lock = 0] ELSE q

\* READ tests the lock unless it ignores locks, and takes it in I-O mode.
ReadLocks(c, opt) == setup.shared /\ opt = "lock" /\ f[c].open_mode = "I_O"

(***************************************************************************)
(* OPEN and CLOSE.  Sharing programs open for INPUT or I-O, with LOCK MODE *)
(* MANUAL or AUTOMATIC: their locks on the file go together.               *)
(***************************************************************************)
Open(c, mode) ==
  \/ Refused(c, "OPEN", OpenCheck(f[c], mode, FALSE),
             IF f[c].open_mode = "CLOSED" THEN BeginOpen(f[c]) ELSE Touch(f[c]))
  \/ /\ OpenCheck(f[c], mode, FALSE) = CallDriver
     /\ setup.shared => mode \in {"INPUT", "I_O"}
     /\ prim' = IF mode = "OUTPUT" THEN [k \in Keys |-> 0] ELSE prim
     /\ alts' = IF mode = "OUTPUT" THEN [a \in 1..A |-> <<>>] ELSE alts
     /\ LET some == {k \in Keys : prim[k] # 0}
        IN Answer(c, "OPEN", SUCCESS, AfterOpen(f[c], mode, "ok"),
                  IF some = {} \/ mode = "OUTPUT" THEN NewDriver
                  ELSE [NewDriver EXCEPT !.last0 = Min(some), !.data = TRUE])

Close(c) ==
  \/ Refused(c, "CLOSE", CloseCheck(f[c]), Touch(f[c]))
  \/ /\ CloseCheck(f[c]) = CallDriver
     /\ Answer(c, "CLOSE", SUCCESS, AfterClose(f[c], "NORMAL", SUCCESS), NewDriver)
     /\ UNCHANGED file

\* UNLOCK, COMMIT and ROLLBACK, for the record lock.
Unlock(c) ==
  /\ p[c].lock # 0
  /\ Answer(c, "UNLOCK", SUCCESS, f[c], Unlocked(p[c]))
  /\ UNCHANGED file

(***************************************************************************)
(* START and READ KEY, indexed_start_internal: value v of key i.           *)
(***************************************************************************)
Found(L, v, cond, dups) ==
  LET e == SetRange(L, v)
      beyond == FirstOf({x \in L : x.key > v})
  IN CASE cond = "EQ" -> IF e # Nothing /\ e.key = v THEN e ELSE Nothing
       [] cond = "LT" -> Below(L, e)
       [] cond = "LE" -> IF e = Nothing \/ e.key # v THEN Below(L, e)
                         ELSE IF dups THEN Below(L, beyond) ELSE e
       [] cond = "GT" -> beyond
       [] cond \in {"GE", "NE"} -> e

\* key_index and what the cursor read stay, also when the search fails.
Searched(q, i, e) == [q EXCEPT !.index = i, !.data = @ \/ e # Nothing]

Start(c, i, v, cond) ==
  LET L == Entries(i)
      e == Found(L, v, cond, i = 1 /\ setup.dups)
      q == Searched(p[c], i, SetRange(L, v))
  IN \/ Refused(c, "START", StartCheck(f[c]), BeginStart(f[c]))
     \/ /\ StartCheck(f[c]) = CallDriver
        /\ IF e = Nothing
           THEN Answer(c, "START", KEY_NOT_EXISTS, AfterStart(f[c], KEY_NOT_EXISTS), q)
           ELSE Answer(c, "START", SUCCESS, AfterStart(f[c], SUCCESS), PositionAt(q, e))
        /\ UNCHANGED file

\* A READ has come to entry e of index q.index.
Deliver(c, op, how, e, q, opt) ==
  LET k == e.prim
  IN IF opt # "ignore" /\ Blocked(c, k)
     THEN Answer(c, op, RECORD_LOCKED, AfterRead(f[c], how, RECORD_LOCKED), q)
     ELSE Answer(c, op, SUCCESS, AfterRead(f[c], how, SUCCESS),
                 [PositionAt(q, e) EXCEPT !.pkey = k,
                                          !.lock = IF ReadLocks(c, opt) THEN k ELSE @])

ReadKey(c, i, v, opt) ==
  LET L == Entries(i)
      e == Found(L, v, "EQ", FALSE)
      q == Searched(Unlocked(p[c]), i, SetRange(L, v))
  IN \/ Refused(c, "READ KEY", ReadCheck(f[c], "KEY"), RefusedRead(f[c]))
     \/ /\ ReadCheck(f[c], "KEY") = CallDriver
        /\ IF e = Nothing
           THEN Answer(c, "READ KEY", KEY_NOT_EXISTS, AfterRead(f[c], "KEY", KEY_NOT_EXISTS), q)
           ELSE Deliver(c, "READ KEY", "KEY", e, q, opt)
        /\ UNCHANGED file

(***************************************************************************)
(* READ NEXT and PREVIOUS, indexed_read_next: no cursor stays open between *)
(* statements; the position is found again by the key and dupno last read. *)
(***************************************************************************)
\* The first READ after OPEN or START gives the record that was found then, if
\* it is still there.
StillThere(L, q) ==
  LET first == FirstOf({e \in L : e.key = LastKey(q)})
      e == IF first # Nothing /\ Numbered(q) THEN SkipTo(L, first, q.last1, q.dup) ELSE first
  IN IF q.index = 1 /\ ~(e.prim = q.lastp /\ e.key = q.last1 /\ (setup.dups => e.dup = q.dup))
     THEN Nothing ELSE e

Way(g, how) ==
  IF how = "PREVIOUS" THEN (IF g.flag_end_of_file THEN "LAST" ELSE "PREV")
  ELSE IF g.flag_begin_of_file THEN "FIRST" ELSE "NEXT"

\* Mutants: numbers up to the last one are not skipped; a place found behind a
\* deleted record is passed.
Beyond_FirstDuplicate(L, q, way) ==
  LET e == SetRange(L, LastKey(q))
  IN CASE way = "FIRST" -> FirstOf(L)
       [] way = "LAST"  -> LastOf(L)
       [] way \in {"NEXT", "PREV"} ->
            IF e # Nothing /\ e.key = LastKey(q) THEN Step(L, e, way)
            ELSE IF way = "PREV" THEN Below(L, e) ELSE e

Beyond(L, q, way) ==
  LET n == SetRange(L, LastKey(q))
      e == IF n # Nothing /\ Numbered(q) /\ n.key = q.last1 THEN SkipTo(L, n, q.last1, q.dup) ELSE n
      here == e # Nothing /\ e.key = LastKey(q) /\ (Numbered(q) => e.dup = q.dup)
  IN CASE way = "FIRST" -> FirstOf(L)
       [] way = "LAST"  -> LastOf(L)
       [] way = "NEXT"  -> IF here THEN Step(L, e, "NEXT") ELSE e
       [] way = "PREV"  -> Below(L, e)

\* the names of the READ statements in order
ReadOp == [NEXT |-> "READ NEXT", PREVIOUS |-> "READ PREVIOUS"]

ReadNext(c, how, opt) ==
  LET op == ReadOp[how]
      q == Unlocked(p[c])
      L == Entries(q.index)
      way == Way(f[c], how)
      first == f[c].flag_first_read # 0
      e == IF first /\ StillThere(L, q) # Nothing THEN StillThere(L, q) ELSE Beyond(L, q, way)
      nothing == first /\ (~q.data \/ (f[c].flag_first_read = 2 /\ way = "PREV"))
  IN \/ Refused(c, op, ReadCheck(f[c], how), RefusedRead(f[c]))
     \/ /\ ReadCheck(f[c], how) = CallDriver
        /\ IF nothing \/ e = Nothing
           THEN Answer(c, op, END_OF_FILE, AfterRead(f[c], how, END_OF_FILE), q)
           ELSE Deliver(c, op, how, e, q, opt)
        /\ UNCHANGED file

(***************************************************************************)
(* WRITE, REWRITE and DELETE.                                              *)
(***************************************************************************)
\* Mutant: the number of entries, not the last number, gives the next one.
NextDupno_Count(a) == Len(alts[a]) + 1

\* get_dupno: one more than the last of the set has.
NextDupno(a) == IF alts[a] = <<>> THEN 1 ELSE Last(alts[a]).dup + 1

\* The entries but those of k, one after the other as the cursor passes them.
Others(s, k) ==
  LET left[n \in 0..Len(s)] ==
        IF n = 0 THEN <<>>
        ELSE IF s[n].prim = k THEN left[n - 1] ELSE Append(left[n - 1], s[n])
  IN left[Len(s)]

\* The alternate database with an entry for k under a, and without its entries.
With(s, k, a)    == [s EXCEPT ![a] = Append(@, [prim |-> k, dup |-> IF setup.dups THEN NextDupno(a) ELSE 0])]
Without(s, k, a) == [s EXCEPT ![a] = Others(@, k)]

\* The bound on the numbers of duplicates.
Room(a) == setup.dups => NextDupno(a) <= setup.keys

\* check_alt_keys: a key without duplicates is taken, by a record other than k
\* when k is rewritten.
Taken(a, k, rewrite) ==
  /\ ~setup.dups
  /\ alts[a] # <<>>
  /\ rewrite => alts[a][1].prim # k

\* Mutant: the driver puts the record without looking for its key.
WriteStatus_Unchecked(c, k, a, lock) ==
  IF Sequential(c) /\ p[c].last_key > k THEN KEY_INVALID
  ELSE IF Taken(a, k, FALSE) THEN KEY_EXISTS ELSE SUCCESS

WriteStatus(c, k, a, lock) ==
  IF Sequential(c) /\ p[c].last_key > k THEN KEY_INVALID
  ELSE IF Taken(a, k, FALSE) \/ prim[k] # 0 THEN KEY_EXISTS
  ELSE IF lock /\ Blocked(c, k) THEN RECORD_LOCKED ELSE SUCCESS

\* The record is stored before the driver asks for its lock.
Write(c, k, a, lock) ==
  \/ Refused(c, "WRITE", WriteCheck(f[c], TRUE), Touch(f[c]))
  \/ /\ WriteCheck(f[c], TRUE) = CallDriver
     /\ Room(a)
     /\ LET status == WriteStatus(c, k, a, lock)
            q == Unlocked(p[c])
        IN /\ Answer(c, "WRITE", status, Touch(f[c]),
                     IF status = KEY_INVALID THEN q
                     ELSE [q EXCEPT !.last_key = k, !.data = TRUE,
                                    !.lock = IF status = SUCCESS /\ lock /\ setup.shared THEN k ELSE @])
           /\ IF status \in {SUCCESS, RECORD_LOCKED}
              THEN prim' = [prim EXCEPT ![k] = a] /\ alts' = With(alts, k, a)
              ELSE UNCHANGED file

\* A sequential REWRITE or DELETE that finds no record, or REWRITE of another
\* one.  check_alt_keys leaves an alternate key where the driver then looks for
\* the primary key.
GoAstray(c, why) ==
  /\ state = "running"
  /\ state' = why
  /\ last' = [conn |-> c, op |-> "LOST", status |-> KEY_NOT_EXISTS]
  /\ UNCHANGED <<f, p, prim, alts, setup>>

\* Mutant: the entry under the old alternate key stays.
Replaced_OldEntryKept(k, a) ==
  /\ prim' = [prim EXCEPT ![k] = a]
  /\ alts' = IF prim[k] = a THEN alts ELSE With(alts, k, a)

\* The entry stays where it is when the alternate key does not change.
Replaced(k, a) ==
  /\ prim' = [prim EXCEPT ![k] = a]
  /\ alts' = IF prim[k] = a THEN alts ELSE With(Without(alts, k, prim[k]), k, a)

Rewrite(c, k, a, lock) ==
  \/ Refused(c, "REWRITE", UpdateCheck(f[c], TRUE), Touch(f[c]))
  \/ /\ UpdateCheck(f[c], TRUE) = CallDriver
     /\ Room(a)
     /\ LET q == Unlocked(p[c])
        IN CASE Taken(a, k, TRUE) ->
                  Answer(c, "REWRITE", KEY_EXISTS, Touch(f[c]), [q EXCEPT !.data = TRUE]) /\ UNCHANGED file
             [] ~Taken(a, k, TRUE) /\ Sequential(c) /\ ~setup.dups -> GoAstray(c, "garbage")
             [] Sequential(c) /\ setup.dups /\ prim[q.pkey] = 0    -> GoAstray(c, "gone")
             [] Sequential(c) /\ setup.dups /\ prim[q.pkey] # 0 /\ k # q.pkey -> GoAstray(c, "rekeyed")
             [] ~Taken(a, k, TRUE) /\ ~Sequential(c) /\ prim[k] = 0 ->
                  Answer(c, "REWRITE", KEY_NOT_EXISTS, Touch(f[c]), q) /\ UNCHANGED file
             [] ~Taken(a, k, TRUE) /\ prim[k] # 0 /\ (Sequential(c) => setup.dups /\ k = q.pkey) ->
                  IF Blocked(c, k)
                  THEN Answer(c, "REWRITE", RECORD_LOCKED, Touch(f[c]), [q EXCEPT !.data = TRUE]) /\ UNCHANGED file
                  ELSE /\ Answer(c, "REWRITE", SUCCESS, Touch(f[c]),
                                 [q EXCEPT !.data = TRUE, !.lock = IF lock /\ setup.shared THEN k ELSE @])
                       /\ Replaced(k, a)

\* In sequential access k is not looked at.
Delete(c, k) ==
  \/ Refused(c, "DELETE", UpdateCheck(f[c], TRUE), Touch(f[c]))
  \/ /\ UpdateCheck(f[c], TRUE) = CallDriver
     /\ LET q == Unlocked(p[c])
            t == IF Sequential(c) THEN q.pkey ELSE k
        IN CASE prim[t] = 0 /\ Sequential(c)  -> GoAstray(c, "gone")
             [] prim[t] = 0 /\ ~Sequential(c) ->
                  Answer(c, "DELETE", KEY_NOT_EXISTS, Touch(f[c]), q) /\ UNCHANGED file
             [] prim[t] # 0 ->
                  IF Blocked(c, t)
                  THEN Answer(c, "DELETE", RECORD_LOCKED, Touch(f[c]), [q EXCEPT !.data = TRUE]) /\ UNCHANGED file
                  ELSE /\ Answer(c, "DELETE", SUCCESS, Touch(f[c]), [q EXCEPT !.data = TRUE])
                       /\ prim' = [prim EXCEPT ![t] = 0]
                       /\ alts' = Without(alts, t, prim[t])

\* The process of c ends: the environment frees its locks, the data is kept.
Crash(c) ==
  /\ setup.shared /\ f[c].open_mode \in OpenOptions
  /\ Answer(c, "CRASH", SUCCESS,
            NewFile([organization |-> "INDEXED", access_mode |-> f[c].access_mode,
                     flag_optional |-> FALSE, special |-> 0, linage |-> FALSE]), NewDriver)
  /\ UNCHANGED file

Next ==
  \E c \in (IF setup.shared THEN Conns ELSE {CHOOSE d \in Conns : TRUE}) :
     \/ \E mode \in OpenOptions : Open(c, mode)
     \/ Close(c) \/ Unlock(c) \/ Crash(c)
     \/ \E i \in setup.uses : \E v \in 1..(IF i = 0 THEN setup.keys ELSE setup.values) :
          \/ \E cond \in Conditions : Start(c, i, v, cond)
          \/ f[c].access_mode # "SEQUENTIAL" /\ \E opt \in Opts : ReadKey(c, i, v, opt)
     \/ f[c].access_mode # "RANDOM" /\ \E how \in {"NEXT", "PREVIOUS"}, opt \in Opts : ReadNext(c, how, opt)
     \/ \E k \in 1..setup.keys, a \in 1..setup.values, lock \in Locking : Write(c, k, a, lock) \/ Rewrite(c, k, a, lock)
     \/ \E k \in 1..setup.keys : Delete(c, k)

Spec == Init /\ [][Next]_vars

-----------------------------------------------------------------------------
(***************************************************************************)
(* Properties.                                                             *)
(***************************************************************************)

\* Every record is in the alternate database once, under its alternate key and
\* nowhere else, through failing statements too; the numbers of duplicates
\* ascend, so that they order the set; keys without duplicates are unique.
IndexesAgree ==
  \A a \in 1..A :
    /\ {alts[a][n].prim : n \in DOMAIN alts[a]} = {k \in Keys : prim[k] = a}
    /\ \A m, n \in DOMAIN alts[a] : m < n => /\ setup.dups
                                             /\ alts[a][m].dup < alts[a][n].dup
                                             /\ alts[a][m].prim # alts[a][n].prim

\* READ NEXT and PREVIOUS look for their place in up to three searches; what
\* they find is the entry next to the position by key and number, whatever was
\* written, rewritten or deleted since the position was taken; the first READ
\* after an OPEN or START gives the entry found there, if that is still there.
Position(q) == <<LastKey(q), IF Numbered(q) THEN q.dup ELSE 0>>

Precedes(x, y) == x[1] < y[1] \/ (x[1] = y[1] /\ x[2] < y[2])

Wanted(c, how) ==
  LET S == Entries(p[c].index)
      at(e) == <<e.key, e.dup>>
      same  == {e \in S : at(e) = Position(p[c]) /\ (p[c].index = 1 => e.prim = p[c].lastp)}
  IN IF f[c].flag_first_read # 0 /\ same # {} THEN same
     ELSE IF how = "NEXT" THEN IF f[c].flag_begin_of_file THEN S
                               ELSE {e \in S : Precedes(Position(p[c]), at(e))}
     ELSE IF f[c].flag_end_of_file THEN S
     ELSE {e \in S : Precedes(at(e), Position(p[c]))}

ScanIsExact ==
  [][\A c \in Conns, how \in {"NEXT", "PREVIOUS"} :
       last'.conn = c /\ last'.op = ReadOp[how] /\ p[c].data
         /\ ~(how = "PREVIOUS" /\ f[c].flag_first_read = 2) =>
       /\ last'.status = END_OF_FILE => Wanted(c, how) = {}
       /\ last'.status = SUCCESS =>
            \E e \in Wanted(c, how) :
              /\ e.prim = IF p'[c].index = 0 THEN p'[c].last0 ELSE p'[c].lastp
              /\ Position(p'[c]) = <<e.key, e.dup>>
              /\ \A d \in Wanted(c, how) :
                   ~Precedes(IF how = "NEXT" THEN <<d.key, d.dup>> ELSE <<e.key, e.dup>>,
                             IF how = "NEXT" THEN <<e.key, e.dup>> ELSE <<d.key, d.dup>>)]_vars

\* A record that a connector has locked is there, no other connector has locked
\* it, and until the lock is given up no other connector changes it.
LockedStands ==
  \A c \in Conns : p[c].lock # 0 =>
    /\ prim[p[c].lock] # 0
    /\ \A d \in Conns \ {c} : p[d].lock # p[c].lock

LockedUnchanged ==
  [][\A c \in Conns : p[c].lock # 0 /\ last'.conn # c
       => prim'[p[c].lock] = prim[p[c].lock]]_vars

\* Alone with its file a sequential program finds the record it has read when
\* it rewrites or deletes it: the key the driver keeps is that of the last READ.
UpdateFindsRecord == state = "gone" => setup.shared

\* The primary database implements a keyed record store: it changes by one
\* record, in the statement that answers it has, and a statement that is
\* refused changes nothing.
Store == INSTANCE RecordStore WITH
           Records  <- 1..A,
           NoRecord <- 0,
           contents <- prim,
           reply    <- [op |-> last.op, done |-> last.status = SUCCESS]
ImplementsStore == Store!Spec

\* The databases agree, and so do they with the keys and locks that drivers hold.
IndexSound == TypeOK /\ IndexesAgree /\ LockedStands /\ UpdateFindsRecord
=============================================================================
