----------------------------- MODULE FileSharing -----------------------------
(***************************************************************************)
(* One SEQUENTIAL file that several run units use at the same time.  Each  *)
(* run unit is a process with its own connectors (cob_file) for the file;  *)
(* they share the file and the table of fcntl locks that the kernel keeps, *)
(* one entry for the whole file and each process.                          *)
(*                                                                         *)
(* An OPEN is two steps that others can see, fopen and F_SETLK, and so is  *)
(* a CLOSE: F_UNLCK and fclose, which writes what stdio still has in its   *)
(* buffer.  WRITE and REWRITE fill that buffer.  The file exists; CLOSE    *)
(* WITH LOCK, which refuses every later OPEN, is not used.                 *)
(***************************************************************************)
EXTENDS Integers, Sequences, FiniteSets, SequencesExt

CONSTANTS
  RunUnits,
  Connectors,    \* names of the connectors, of all run units
  OwnerOf,       \* the run unit of a connector
  MaxRecords,    \* bound on the records that each connector writes
  Setups         \* the connectors used; LOCK MODE EXCLUSIVE; whether a run
                 \* unit has no more than one of its connectors open at a time

Setup == [used : SUBSET Connectors, exclusive : BOOLEAN, apart : BOOLEAN]

ASSUME SharingAssumption ==
  /\ IsFiniteSet(Connectors)
  /\ OwnerOf \in [Connectors -> RunUnits]
  /\ MaxRecords \in [Connectors -> Nat]
  /\ Setups \subseteq Setup

\* "before" and "hole" mark what no connector has written.
ASSUME NamesAssumption == "before" \notin Connectors /\ "hole" \notin Connectors

VARIABLES
  contents,   \* the records in the file
  lock,       \* the lock on the file that each process holds
  mode,       \* open_mode of each connector
  at,         \* the records in front of the position of each connector
  read_done,  \* the connectors whose last statement was a READ (flag_read_done)
  buffer,     \* what stdio has not written: [pos, rec, old]; pos 0 appends
  doing,      \* the OPEN or CLOSE of each run unit that is half done
  written,    \* the number of records each connector has made
  standing,   \* history: the records that must be in the file
  setup

vars == <<contents, lock, mode, at, read_done, buffer, doing, written, standing, setup>>

Modes   == {"INPUT", "OUTPUT", "I-O", "EXTEND"}
Records == {x \in Connectors \X Nat : x[2] <= MaxRecords[x[1]]} \cup {<<"before", 1>>}
Hole    == <<"hole", 0>>     \* bytes nobody has written
Idle    == [op |-> "none", conn |-> "none", mode |-> "CLOSED", sharing |-> FALSE]
Entry   == [pos : Nat, rec : Records, old : Records \cup {Hole}]

Of(r) == {c \in setup.used : OwnerOf[c] = r}

TypeOK ==
  /\ contents \in Seq(Records \cup {Hole})
  /\ lock \in [RunUnits -> {"none", "read", "write"}]
  /\ mode \in [Connectors -> Modes \cup {"CLOSED"}]
  /\ at \in [Connectors -> Nat]
  /\ read_done \subseteq Connectors
  /\ buffer \in [Connectors -> Seq(Entry)]
  /\ doing \in [RunUnits -> [op : {"none", "OPEN", "CLOSE"}, conn : Connectors \cup {"none"},
                             mode : Modes \cup {"CLOSED"}, sharing : BOOLEAN]]
  /\ written \in [Connectors -> Nat]
  /\ standing \subseteq Records
  /\ setup \in Setup
  /\ \A c \in Connectors : mode[c] \in {"CLOSED", "INPUT"} => buffer[c] = <<>>
  /\ \A r \in RunUnits : doing[r].op = "CLOSE" => lock[r] = "none"

Init ==
  /\ contents = << <<"before", 1>> >>
  /\ lock = [r \in RunUnits |-> "none"]
  /\ mode = [c \in Connectors |-> "CLOSED"]
  /\ at = [c \in Connectors |-> 0]
  /\ read_done = {}
  /\ buffer = [c \in Connectors |-> <<>>]
  /\ doing = [r \in RunUnits |-> Idle]
  /\ written = [c \in Connectors |-> 0]
  /\ standing = {<<"before", 1>>}
  /\ setup \in Setups

\* A statement on connector c can begin.
Ready(c) == c \in setup.used /\ doing[OwnerOf[c]] = Idle

(***************************************************************************)
(* OPEN: fopen, which truncates the file for OUTPUT, then the lock.        *)
(***************************************************************************)
\* SHARING WITH READ ONLY, or none, becomes NO OTHER unless the mode is INPUT.
OpenFile(c, m, noOther) ==
  /\ Ready(c) /\ mode[c] = "CLOSED"
  /\ m # "INPUT" => noOther
  /\ setup.apart => \A d \in Of(OwnerOf[c]) : mode[d] = "CLOSED"
  /\ contents' = IF m = "OUTPUT" THEN <<>> ELSE contents
  /\ standing' = IF m = "OUTPUT" THEN {} ELSE standing
  /\ at' = [at EXCEPT ![c] = IF m = "EXTEND" THEN Len(contents) ELSE 0]
  /\ doing' = [doing EXCEPT ![OwnerOf[c]] = [op |-> "OPEN", conn |-> c, mode |-> m, sharing |-> noOther]]
  /\ UNCHANGED <<lock, mode, read_done, buffer, written, setup>>

\* Mutant: only OUTPUT asks for a lock that excludes others.
LockType_OutputOnly(d) == IF d.mode = "OUTPUT" THEN "write" ELSE "read"

LockType(d) == IF d.sharing \/ d.mode = "OUTPUT" THEN "write" ELSE "read"

\* F_SETLK: a write lock needs a handle that can write, and no lock of
\* another process may conflict.  The process's own lock is replaced.
Granted(r) ==
  /\ LockType(doing[r]) = "write" => doing[r].mode # "INPUT"
  /\ \A q \in RunUnits \ {r} :
       lock[q] = "none" \/ (lock[q] = "read" /\ LockType(doing[r]) = "read")

\* Mutant: a file that cannot be locked stays open.
LockFile_Ignored(r) ==
  /\ doing[r].op = "OPEN"
  /\ lock' = [lock EXCEPT ![r] = IF Granted(r) THEN LockType(doing[r]) ELSE @]
  /\ mode' = [mode EXCEPT ![doing[r].conn] = doing[r].mode]
  /\ doing' = [doing EXCEPT ![r] = Idle]
  /\ UNCHANGED <<contents, at, read_done, buffer, written, standing, setup>>

\* A refused OPEN closes the file it has opened (61, or 30 for a write lock on
\* an INPUT file); closing a file drops every lock the process has on it.  An
\* OPEN OUTPUT is about to write over what came to the file since its fopen.
LockFile(r) ==
  /\ doing[r].op = "OPEN"
  /\ lock' = [lock EXCEPT ![r] = IF Granted(r) THEN LockType(doing[r]) ELSE "none"]
  /\ mode' = IF Granted(r) THEN [mode EXCEPT ![doing[r].conn] = doing[r].mode] ELSE mode
  /\ standing' = IF Granted(r) /\ doing[r].mode = "OUTPUT" THEN {} ELSE standing
  /\ doing' = [doing EXCEPT ![r] = Idle]
  /\ UNCHANGED <<contents, at, read_done, buffer, written, setup>>

(***************************************************************************)
(* READ, WRITE and REWRITE, and the buffer of stdio.                       *)
(***************************************************************************)
\* The position is of interest to a REWRITE only.
Read(c) ==
  /\ Ready(c) /\ mode[c] = "I-O"
  /\ at[c] < Len(contents)
  /\ at' = [at EXCEPT ![c] = @ + 1]
  /\ read_done' = read_done \cup {c}
  /\ UNCHANGED <<contents, lock, mode, buffer, doing, written, standing, setup>>

\* The file with entry e written at its place, or at the end.
Put(s, e) ==
  LET p == IF e.pos = 0 THEN Len(s) + 1 ELSE e.pos
  IN [i \in 1..(IF p > Len(s) THEN p ELSE Len(s)) |->
        IF i = p THEN e.rec ELSE IF i <= Len(s) THEN s[i] ELSE Hole]

\* The file after all entries, one after the other.
Flushed(s, entries) ==
  LET after[i \in 0..Len(entries)] == IF i = 0 THEN s ELSE Put(after[i - 1], entries[i])
  IN after[Len(entries)]

Made(entries)  == {entries[i].rec : i \in DOMAIN entries}
Taken(entries) == {entries[i].old : i \in DOMAIN entries}

\* The file stands with what was flushed, less what REWRITE meant to replace.
Stands(entries) == (standing \ Taken(entries)) \cup Made(entries)

\* A new record goes to the buffer, which may be full and written.
Store(c, pos, old) ==
  /\ written[c] < MaxRecords[c]
  /\ written' = [written EXCEPT ![c] = @ + 1]
  /\ LET entries == Append(buffer[c], [pos |-> pos, rec |-> <<c, written[c] + 1>>, old |-> old])
     IN \/ /\ buffer' = [buffer EXCEPT ![c] = entries]
           /\ UNCHANGED <<contents, standing>>
        \/ /\ buffer' = [buffer EXCEPT ![c] = <<>>]
           /\ contents' = Flushed(contents, entries)
           /\ standing' = Stands(entries)
  /\ UNCHANGED <<lock, mode, doing, setup>>

Write(c) ==
  /\ Ready(c) /\ mode[c] \in {"OUTPUT", "EXTEND"}
  /\ Store(c, IF mode[c] = "EXTEND" THEN 0 ELSE at[c] + 1, Hole)
  /\ at' = [at EXCEPT ![c] = @ + 1]
  /\ UNCHANGED read_done

\* REWRITE goes back over the record that was read.
Rewrite(c) ==
  /\ Ready(c) /\ mode[c] = "I-O"
  /\ c \in read_done
  /\ Store(c, at[c], IF at[c] <= Len(contents) THEN contents[at[c]] ELSE Hole)
  /\ read_done' = read_done \ {c}
  /\ UNCHANGED at

(***************************************************************************)
(* CLOSE, UNLOCK, COMMIT and ROLLBACK.                                     *)
(***************************************************************************)
BeginClose(c) ==
  /\ Ready(c) /\ mode[c] # "CLOSED"
  /\ lock' = [lock EXCEPT ![OwnerOf[c]] = "none"]
  /\ doing' = [doing EXCEPT ![OwnerOf[c]] = [op |-> "CLOSE", conn |-> c, mode |-> "CLOSED", sharing |-> FALSE]]
  /\ read_done' = read_done \ {c}
  /\ UNCHANGED <<contents, mode, at, buffer, written, standing, setup>>

\* Another run unit opens the file, or has it open.
Intruded(r) ==
  \E q \in RunUnits \ {r} : doing[q].op = "OPEN" \/ \E d \in Of(q) : mode[d] # "CLOSED"

\* fclose writes the buffer although the lock is gone, over whatever is there;
\* with another run unit in the file these records have nothing to protect them.
EndClose(r) ==
  /\ doing[r].op = "CLOSE"
  /\ LET c == doing[r].conn
         after == Flushed(contents, buffer[c])
     IN /\ contents' = after
        /\ standing' = (IF Intruded(r) THEN standing ELSE Stands(buffer[c])) \cap ToSet(after)
        /\ buffer' = [buffer EXCEPT ![c] = <<>>]
        /\ mode' = [mode EXCEPT ![c] = "CLOSED"]
        /\ at' = [at EXCEPT ![c] = 0]
  /\ lock' = [lock EXCEPT ![r] = "none"]
  /\ doing' = [doing EXCEPT ![r] = Idle]
  /\ UNCHANGED <<read_done, written, setup>>

\* The file after what cob_file_unlock flushes for each connector in order.
FlushedAll(order) ==
  LET after[i \in 0..Len(order)] ==
        IF i = 0 THEN contents ELSE Flushed(after[i - 1], buffer[order[i]])
  IN after[Len(order)]

\* cob_file_unlock for some connectors of r, one after the other; only LOCK
\* MODE EXCLUSIVE keeps the lock.
UnlockFiles(r, order) ==
  /\ contents' = FlushedAll(order)
  /\ standing' = (standing \ UNION {Taken(buffer[c]) : c \in ToSet(order)})
                    \cup UNION {Made(buffer[c]) : c \in ToSet(order)}
  /\ buffer' = [c \in Connectors |-> IF c \in ToSet(order) THEN <<>> ELSE buffer[c]]
  /\ lock' = [lock EXCEPT ![r] = IF setup.exclusive THEN @ ELSE "none"]
  /\ UNCHANGED <<mode, at, read_done, doing, written, setup>>

Unlock(c) ==
  /\ Ready(c) /\ mode[c] # "CLOSED"
  /\ UnlockFiles(OwnerOf[c], <<c>>)

\* COMMIT and ROLLBACK do the same for all connectors in file_cache.
CommitOrRollback(r) ==
  LET open == {c \in Of(r) : mode[c] # "CLOSED"}
  IN /\ doing[r] = Idle
     /\ open # {}
     /\ \E order \in SetToSeqs(open) : UnlockFiles(r, order)

\* The process ends without cob_exit_fileio and is started again: the kernel
\* drops its lock, the buffers are lost.
Crash(r) ==
  /\ lock' = [lock EXCEPT ![r] = "none"]
  /\ mode' = [c \in Connectors |-> IF OwnerOf[c] = r THEN "CLOSED" ELSE mode[c]]
  /\ at' = [c \in Connectors |-> IF OwnerOf[c] = r THEN 0 ELSE at[c]]
  /\ buffer' = [c \in Connectors |-> IF OwnerOf[c] = r THEN <<>> ELSE buffer[c]]
  /\ read_done' = {c \in read_done : OwnerOf[c] # r}
  /\ doing' = [doing EXCEPT ![r] = Idle]
  /\ UNCHANGED <<contents, written, standing, setup>>

Next ==
  \/ \E c \in Connectors : \/ \E m \in Modes, noOther \in BOOLEAN : OpenFile(c, m, noOther)
                           \/ Read(c)
                           \/ Write(c)
                           \/ Rewrite(c)
                           \/ BeginClose(c)
                           \/ Unlock(c)
  \/ \E r \in RunUnits : LockFile(r) \/ EndClose(r) \/ CommitOrRollback(r) \/ Crash(r)

Spec == Init /\ [][Next]_vars

-----------------------------------------------------------------------------
(***************************************************************************)
(* Properties.                                                             *)
(***************************************************************************)

\* Careful programs keep their locks: LOCK MODE EXCLUSIVE, and never a second
\* connector of the run unit, whose CLOSE would drop the lock of the first.
Careful == setup.exclusive /\ setup.apart

\* The connector is open, and not half closed.
Using(c) == mode[c] # "CLOSED" /\ doing[OwnerOf[c]].op # "CLOSE"

\* Among careful programs a connector that may write is alone with the file
\* from the end of its OPEN to the start of its CLOSE.
WriterAlone ==
  Careful => \A c, d \in setup.used : c # d /\ Using(c) /\ Using(d) => mode[c] = "INPUT"

\* Among careful programs nothing but an OPEN OUTPUT, even one that is refused,
\* and the buffer that a CLOSE writes behind its lock, destroys a record that
\* is in the file: not WRITE, not REWRITE of another record, not COMMIT.  What
\* that CLOSE writes while another run unit uses the file is not protected.
RecordsStand == Careful => standing \subseteq ToSet(contents)

\* The locks do what they are for, in OPEN, CLOSE and after the end of a process.
LocksSound == TypeOK /\ WriterAlone
=============================================================================
