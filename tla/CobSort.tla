------------------------------- MODULE CobSort --------------------------------
(***************************************************************************)
(* The SORT engine of libcob/fileio.c: RELEASE pushes records on the       *)
(* shorter of two queues; when memory is full, and at the first RETURN, a  *)
(* balanced merge over four queues sorts them; sorted blocks are spilled   *)
(* alternately on two temporary files, which a balanced merge over four    *)
(* files reduces to one block on each of two files; RETURN merges those.   *)
(*                                                                         *)
(* One action is one turn of a loop of the code; pc says which loop.  The  *)
(* records come from RELEASE, or from the loop of cob_file_sort_using      *)
(* (using); they go to RETURN, or to the loop of cob_file_sort_giving,     *)
(* which asks in the same way.                                             *)
(* The bytes of a temporary file that remain behind what has been written  *)
(* over them are garbage (tail).                                           *)
(***************************************************************************)
EXTENDS Naturals, Sequences, FiniteSets

CONSTANTS
  Keys,        \* the values of the sort key
  Setups,      \* the programs and their memories, see Setup
  SizeMax      \* the greatest size_t

(* choices[i]: the keys the i-th record may have, which bounds the program; *)
(* memory: the records that fit the sort memory; mayFail: whether temporary *)
(* files may fail; using: SORT ... USING                                    *)
Setup == [choices : Seq(SUBSET Keys), memory : Nat, mayFail : BOOLEAN, using : BOOLEAN]

ASSUME SortAssumption ==
  /\ Keys \subseteq Nat
  /\ Setups \subseteq Setup
  /\ SizeMax \in Nat \ {0}
  /\ \A s \in Setups : Len(s.choices) <= SizeMax   \* their stamps are size_t, too

VARIABLES
  setup,        \* one of Setups
  memory, unique, retrieving, files_used, destination_file, retrieval_queue,
  queue,        \* queue[i]: the items of list i, or its one item of a file merge
  empty,        \* how many items are on the free list
  file,         \* file[i]: what the temporary file i holds, and its block count
  using,        \* SORT ... USING
  pc, cont,     \* the loop that runs, and who waits for cob_sort_queues
  source, destination, ended,     \* its local variables
  pending,      \* the key of the record being released
  out,          \* the records returned
  ret,          \* the status of the last RELEASE or RETURN
  sort_return,  \* SORT-RETURN
  failed        \* a temporary file has failed

engine == <<memory, unique, retrieving, files_used, destination_file, retrieval_queue>>
local  == <<source, destination, ended>>
reply  == <<out, ret, sort_return, failed>>
vars   == <<setup, engine, queue, empty, file, using, pc, cont, local, pending, reply>>

Four   == 0..3
Other(s)   == 2 - s                                 \* source ^ 2
Twin(d)    == IF d % 2 = 0 THEN d + 1 ELSE d - 1    \* destination ^ 1
Base(d)    == IF d < 2 THEN 0 ELSE 2                \* destination & 2
Decrement(n) == IF n = 0 THEN SizeMax ELSE n - 1    \* a size_t wraps around
Increment(n) == IF n = SizeMax THEN 0 ELSE n + 1

Marker == [key |-> 0, unique |-> 0, eob |-> TRUE]
NoFile == [data |-> <<>>, at |-> 1, count |-> 0, tail |-> FALSE]

(* fault: equal keys in any order *)
Less_KeysOnly(x, y) == x.key < y.key

(* cob_file_sort_compare: the keys, then the stamps *)
Less(x, y) == \/ x.key < y.key
              \/ x.key = y.key /\ x.unique < y.unique

Init ==
  /\ setup \in Setups
  /\ memory = setup.memory /\ using = setup.using
  /\ unique = 0 /\ retrieving = FALSE /\ files_used = FALSE
  /\ destination_file = 0 /\ retrieval_queue = 0
  /\ queue = [i \in Four |-> <<>>]
  /\ empty = 0
  /\ file = [i \in Four |-> NoFile]
  /\ pc = "idle" /\ cont = "none"
  /\ source = 0 /\ destination = 0 /\ ended = [m \in 0..1 |-> FALSE]
  /\ pending = 0
  /\ out = <<>> /\ ret = 0 /\ sort_return = 0 /\ failed = FALSE

(* cob_new_item: an item is allocated when none is free *)
NewItem(e) == IF e > 0 THEN e - 1 ELSE 0

(* cob_file_sort_submit, from where it takes a new item *)
Push(k, q, e) ==
  LET z == IF Len(q[0]) <= Len(q[1]) THEN 0 ELSE 1
  IN  /\ queue' = [q EXCEPT ![z] = <<[key |-> k, unique |-> unique, eob |-> TRUE]>> \o @]
      /\ empty' = NewItem(e)
      /\ unique' = unique + 1

Full == Len(queue[0]) + Len(queue[1]) >= memory

(* fault: SORT-RETURN is forgotten *)
Refuse_Silent == ret' = 30 /\ UNCHANGED <<sort_return, out>>

(* RELEASE and RETURN report a failure in SORT-RETURN, USING does not *)
Refuse == /\ ret' = 30
          /\ sort_return' = IF using /\ ~retrieving THEN sort_return ELSE 16
          /\ UNCHANGED out

(* RELEASE: cob_file_release and cob_file_sort_submit *)
Release(k) ==
  /\ pc = "idle"
  /\ unique < Len(setup.choices)
  /\ k \in setup.choices[unique + 1]
  /\ \/ /\ retrieving /\ ~using
        /\ Refuse
        /\ UNCHANGED <<engine, queue, empty, file, pc, cont, local, pending, failed>>
     \/ /\ ~retrieving /\ ~Full
        /\ Push(k, queue, empty)
        /\ ret' = 0
        /\ UNCHANGED <<memory, retrieving, files_used, destination_file, retrieval_queue,
                       file, pc, cont, local, pending, out, sort_return, failed>>
     \/ /\ ~retrieving /\ Full
        /\ files_used' = TRUE
        /\ destination_file' = IF files_used THEN destination_file ELSE 0
        /\ pending' = k
        /\ pc' = "pass" /\ cont' = "submit" /\ source' = 0
        /\ UNCHANGED <<memory, unique, retrieving, retrieval_queue, queue, empty, file,
                       destination, ended, reply>>

(***************************************************************************)
(* cob_sort_queues: merge the blocks of two queues onto the other two,     *)
(* alternately, until one block is left.                                   *)
(***************************************************************************)
(* fault: the passes go on while the first queue holds anything *)
Unmerged_FirstQueue == queue[source] # <<>>

Unmerged == queue[source + 1] # <<>>

QueuePass ==
  /\ pc = "pass"
  /\ IF Unmerged
       THEN /\ pc' = "pair"
            /\ destination' = Other(source)
            /\ queue' = [queue EXCEPT ![Other(source)] = <<>>, ![Other(source) + 1] = <<>>]
       ELSE pc' = "sorted" /\ UNCHANGED <<queue, destination>>
  /\ UNCHANGED <<engine, empty, file, cont, source, ended, pending, reply>>

QueuePair ==
  /\ pc = "pair"
  /\ ended' = [m \in 0..1 |-> queue[source + m] = <<>>]
  /\ IF ended'[0] /\ ended'[1]
       THEN pc' = "pass" /\ source' = Base(destination)
       ELSE pc' = "move" /\ UNCHANGED source
  /\ UNCHANGED <<engine, queue, empty, file, cont, destination, pending, reply>>

Smaller == IF Less(queue[source][1], queue[source + 1][1]) THEN 0 ELSE 1
Chosen  == IF ended[0] THEN 1 ELSE IF ended[1] THEN 0 ELSE Smaller

QueueMove ==
  /\ pc = "move"
  /\ ~(ended[0] /\ ended[1])
  /\ LET q == queue[source + Chosen][1]
     IN  /\ queue' = [queue EXCEPT
                        ![source + Chosen] = Tail(@),
                        ![destination] = Append(@, [q EXCEPT !.eob = FALSE])]
         /\ ended' = [ended EXCEPT ![Chosen] = @ \/ q.eob]
  /\ UNCHANGED <<engine, empty, file, pc, cont, source, destination, pending, reply>>

QueueBlock ==
  /\ pc = "move"
  /\ ended[0] /\ ended[1]
  /\ queue' = [queue EXCEPT ![destination][Len(queue[destination])].eob = TRUE]
  /\ destination' = Twin(destination)
  /\ pc' = "pair"
  /\ UNCHANGED <<engine, empty, file, cont, source, ended, pending, reply>>

(***************************************************************************)
(* cob_write_block: the sorted queue becomes a block of the current file.  *)
(***************************************************************************)
Block(q)   == Append([i \in DOMAIN q |-> [q[i] EXCEPT !.eob = FALSE]], Marker)
Written(n) == [file EXCEPT ![destination_file].data = @ \o Block(queue[n]),
                           ![destination_file].count = Increment(@)]

Freed(n) == empty + Len(queue[n])

SubmitSorted ==
  /\ pc = "sorted" /\ cont = "submit"
  /\ file' = Written(source)
  /\ destination_file' = 1 - destination_file
  /\ Push(pending, [queue EXCEPT ![source] = <<>>], Freed(source))
  /\ pc' = "idle" /\ cont' = "none"
  /\ ret' = 0
  /\ UNCHANGED <<memory, retrieving, files_used, retrieval_queue, local, pending, out,
                 sort_return, failed>>

(* The block cannot be written.  What has left the queue is lost or half  *)
(* written; what the statements after this one find is not modelled.       *)
SubmitFails ==
  /\ setup.mayFail
  /\ pc = "sorted" /\ cont = "submit"
  /\ Refuse
  /\ failed' = TRUE
  /\ pc' = "broken"
  /\ UNCHANGED <<engine, queue, empty, file, cont, local, pending>>

(***************************************************************************)
(* RETURN: cob_file_return, cob_file_sort_retrieve, and cob_file_sort_process *)
(* at the first one.                                                       *)
(***************************************************************************)
Return ==
  /\ pc = "idle" /\ ~retrieving
  /\ retrieving' = TRUE
  /\ pc' = "pass" /\ cont' = "retrieve" /\ source' = 0
  /\ UNCHANGED <<memory, unique, files_used, destination_file, retrieval_queue, queue,
                 empty, file, destination, ended, pending, reply>>

SortedInMemory ==
  /\ pc = "sorted" /\ cont = "retrieve" /\ ~files_used
  /\ retrieval_queue' = source
  /\ pc' = "retrieve"
  /\ UNCHANGED <<memory, unique, retrieving, files_used, destination_file, queue, empty,
                 file, cont, local, pending, reply>>

(* the last block is written, an item is taken from the free list for each *)
(* file - there are none when fewer than four records fit the memory - and *)
(* the files are rewound                                                   *)
SortedOnFiles ==
  /\ pc = "sorted" /\ cont = "retrieve" /\ files_used
  /\ IF Freed(source) >= 4
       THEN /\ queue' = [i \in Four |-> <<Marker>>]
            /\ empty' = Freed(source) - 4
            /\ file' = Written(source)
            /\ source' = 0
            /\ pc' = "filepass"
       ELSE /\ pc' = "crashed"
            /\ UNCHANGED <<queue, empty, file, source>>
  /\ UNCHANGED <<engine, cont, destination, ended, pending, reply>>


(* cob_read_item: the next item of file i, or the end of its block; the    *)
(* end of the file counts as one                                           *)
ReadItem(fl, i) ==
  IF fl[i].at <= Len(fl[i].data) THEN fl[i].data[fl[i].at] ELSE Marker
Advance(fl, i) == [fl EXCEPT ![i].at = IF @ <= Len(fl[i].data) THEN @ + 1 ELSE @]
Garbage(fl, i) == fl[i].at > Len(fl[i].data) /\ fl[i].tail

(* fault: the last pass is left out *)
MoreBlocks_OffByOne == file[source].count > 2

(* A pass over the files is over when each of two holds one block. *)
MoreBlocks == file[source].count > 1
Fresh(d)   == [file EXCEPT ![d].count = 0, ![d + 1].count = 0]

FilePass ==
  /\ pc = "filepass"
  /\ IF MoreBlocks
       THEN /\ destination' = Other(source)
            /\ file' = Fresh(Other(source))
            /\ pc' = "filepair"
            /\ UNCHANGED <<queue, retrieval_queue>>
       ELSE /\ retrieval_queue' = source
            /\ queue' = [queue EXCEPT ![source] = <<ReadItem(file, source)>>,
                                      ![source + 1] = <<ReadItem(file, source + 1)>>]
            /\ file' = Advance(Advance(file, source), source + 1)
            /\ pc' = IF Garbage(file, source) \/ Garbage(file, source + 1)
                       THEN "garbage" ELSE "retrieve"
            /\ UNCHANGED destination
  /\ UNCHANGED <<memory, unique, retrieving, files_used, destination_file, empty, cont,
                 source, ended, pending, reply>>

(* what is left of a file whose blocks have all been merged, rewound *)
Spent(x) == [x EXCEPT !.data = <<>>, !.at = 1, !.tail = TRUE]

(* the second file still has a block for this pair *)
Paired == file[source + 1].count > 0

FilePair ==
  /\ pc = "filepair"
  /\ IF file[source].count = 0
       THEN /\ source' = Base(destination)
            /\ file' = [i \in Four |-> IF Base(i) = source THEN Spent(file[i])
                                       ELSE [file[i] EXCEPT !.at = 1]]
            /\ pc' = "filepass"
            /\ UNCHANGED queue
       ELSE LET left == Advance(file, source)
            IN  /\ queue' = [queue EXCEPT
                               ![source] = <<ReadItem(file, source)>>,
                               ![source + 1] = IF Paired THEN <<ReadItem(file, source + 1)>>
                                               ELSE <<[@[1] EXCEPT !.eob = TRUE]>>]
                /\ file' = IF Paired THEN Advance(left, source + 1) ELSE left
                /\ pc' = IF Garbage(file, source) \/ (Paired /\ Garbage(file, source + 1))
                           THEN "garbage" ELSE "filemove"
                /\ UNCHANGED source
  /\ UNCHANGED <<engine, empty, cont, destination, ended, pending, reply>>

Head1(m)   == queue[source + m][1]
HeadChosen == IF Head1(0).eob THEN 1
              ELSE IF Head1(1).eob THEN 0
              ELSE IF Less(Head1(0), Head1(1)) THEN 0 ELSE 1

FileMove ==
  LET i == source + HeadChosen
  IN  /\ pc = "filemove"
      /\ ~(Head1(0).eob /\ Head1(1).eob)
      /\ file' = Advance([file EXCEPT ![destination].data = Append(@, queue[i][1])], i)
      /\ queue' = [queue EXCEPT ![i] = <<ReadItem(file, i)>>]
      /\ pc' = IF Garbage(file, i) THEN "garbage" ELSE pc
      /\ UNCHANGED <<engine, empty, cont, local, pending, reply>>

FileBlock ==
  /\ pc = "filemove"
  /\ Head1(0).eob /\ Head1(1).eob
  /\ file' = [file EXCEPT ![destination].data = Append(@, Marker),
                          ![destination].count = Increment(@),
                          ![source].count = Decrement(@),
                          ![source + 1].count = Decrement(@)]
  /\ destination' = Twin(destination)
  /\ pc' = "filepair"
  /\ UNCHANGED <<engine, queue, empty, cont, source, ended, pending, reply>>

(* a block of the last sort or of a merge cannot be written or read: the   *)
(* statements after this one may find no item at the head of a list        *)
ProcessFails ==
  /\ setup.mayFail
  /\ \/ pc = "sorted" /\ cont = "retrieve" /\ files_used
     \/ pc \in {"filepair", "filemove"}
  /\ Refuse
  /\ failed' = TRUE
  /\ pc' = "broken"
  /\ UNCHANGED <<engine, queue, empty, file, cont, local, pending>>

(* RETURN from the queue, or from the two blocks on files *)
Deliver(x) == /\ out' = Append(out, [key |-> x.key, unique |-> x.unique])
              /\ ret' = 0
End        == /\ ret' = 10
              /\ UNCHANGED out

RetrieveFromQueue ==
  /\ pc = "retrieve" /\ ~files_used
  /\ IF queue[retrieval_queue] = <<>>
       THEN End /\ UNCHANGED <<queue, empty>>
       ELSE /\ Deliver(queue[retrieval_queue][1])
            /\ queue' = [queue EXCEPT ![retrieval_queue] = Tail(@)]
            /\ empty' = empty + 1
  /\ pc' = "idle"
  /\ UNCHANGED <<engine, file, cont, local, pending, sort_return, failed>>

RetrieveFromFiles ==
  LET i == source + HeadChosen
  IN  /\ pc = "retrieve" /\ files_used
      /\ IF Head1(0).eob /\ Head1(1).eob
           THEN /\ End
                /\ pc' = "idle"
                /\ UNCHANGED <<queue, file>>
           ELSE /\ Deliver(queue[i][1])
                /\ queue' = [queue EXCEPT ![i] = <<ReadItem(file, i)>>]
                /\ file' = Advance(file, i)
                /\ pc' = IF Garbage(file, i) THEN "garbage" ELSE "idle"
      /\ UNCHANGED <<engine, empty, cont, local, pending, sort_return, failed>>

ReturnAgain ==
  /\ pc = "idle" /\ retrieving
  /\ pc' = "retrieve"
  /\ UNCHANGED <<engine, queue, empty, file, cont, local, pending, reply>>

Loops == \/ QueuePass \/ QueuePair \/ QueueMove \/ QueueBlock
         \/ SubmitSorted \/ SubmitFails \/ SortedInMemory \/ SortedOnFiles
         \/ FilePass \/ FilePair \/ FileMove \/ FileBlock \/ ProcessFails
         \/ RetrieveFromQueue \/ RetrieveFromFiles

Next == /\ (\E k \in Keys : Release(k)) \/ Return \/ ReturnAgain \/ Loops
        /\ UNCHANGED <<setup, using>>

(* the loops of a statement run on by themselves; the program may stop *)
Spec == Init /\ [][Next]_vars /\ WF_vars(Loops /\ UNCHANGED <<setup, using>>)

-----------------------------------------------------------------------------
(* What the engine holds. *)
RangeOf(s) == {s[i] : i \in DOMAIN s}
Record(x)  == [key |-> x.key, unique |-> x.unique]

OnFiles == retrieving /\ files_used /\ pc \notin {"pass", "pair", "move", "sorted", "crashed"}

(* every item of the queues; of the heads of a file merge, those not spent *)
Queued  == {x \in UNION {RangeOf(queue[i]) : i \in Four} : OnFiles => ~x.eob}

(* the records of file i that have not been read *)
Unread(i) == {file[i].data[j] : j \in file[i].at..Len(file[i].data)} \ {Marker}

Pool == {Record(x) : x \in Queued \cup UNION {Unread(i) : i \in Four}}

Sum4(f) == f[0] + f[1] + f[2] + f[3]
Live == Sum4([i \in Four |-> Len(queue[i])])

-----------------------------------------------------------------------------
Item == [key : Keys \cup {0}, unique : 0..Len(setup.choices), eob : BOOLEAN]

(* Every variable keeps its type; no file is read behind its end           *)
(* (cob_read_item), and no block count but a wrapped one exceeds the run.  *)
TypeOK ==
  /\ setup \in Setups /\ memory = setup.memory /\ using = setup.using
  /\ unique \in 0..Len(setup.choices)
  /\ retrieving \in BOOLEAN /\ files_used \in BOOLEAN
  /\ destination_file \in 0..1 /\ retrieval_queue \in Four
  /\ queue \in [Four -> Seq(Item)]
  /\ empty \in 0..(Len(setup.choices) + 1)
  /\ \A i \in Four : /\ file[i].data \in Seq(Item)
                     /\ file[i].at \in 1..(Len(file[i].data) + 1)
                     /\ file[i].count \in 0..SizeMax
                     /\ file[i].tail \in BOOLEAN
  /\ pc \in {"idle", "pass", "pair", "move", "sorted", "filepass", "filepair", "filemove",
             "retrieve", "crashed", "broken", "garbage"}
  /\ cont \in {"none", "submit", "retrieve"}
  /\ source \in {0, 2} /\ destination \in Four /\ ended \in [0..1 -> BOOLEAN]
  /\ pending \in Keys \cup {0}
  /\ ret \in {0, 10, 30} /\ sort_return \in {0, 16} /\ failed \in BOOLEAN
  /\ out \in Seq([key : Keys, unique : 0..Len(setup.choices)])

(* The engine keeps what SORT promises: through every RELEASE, spill, pass *)
(* and merge no record is lost, none is doubled, and RETURN hands out the  *)
(* least one, the first released of equal ones (cob_file_sort_compare      *)
(* falls back on the stamp, "Force SORT to put duplicates in order").      *)
Contract == INSTANCE SortContract WITH pool <- Pool, sealed <- retrieving
ImplementsSort == Contract!Spec

(* When RETURN answers AT END every record released has been returned: the *)
(* two blocks that are left on files are the only ones, none was forgotten *)
(* by the block counts of cob_file_sort_process.                           *)
CompleteAtEnd == ret = 10 => Pool = {} /\ Len(out) = unique

(* The items never outgrow the sort memory: each RELEASE reuses the ones   *)
(* the last spilled block has freed (cob_new_item).                        *)
MemoryBound == Live + empty <= IF memory = 0 THEN 1 ELSE memory

(* The merge never takes what an earlier pass left behind on a file for a  *)
(* record, whatever the block counts have wrapped to; and the four items   *)
(* it needs are there, unless fewer than four records fit the memory       *)
(* (COB_SORT_MEMORY is at least 1 MB: the records are then longer than     *)
(* 256 KB), when the free list runs out and the program crashes.           *)
MergeIsSafe == /\ pc # "garbage"
               /\ pc = "crashed" => memory < 4

(* A temporary file that fails is reported in SORT-RETURN; not by USING,   *)
(* whose loop just stops reading (cob_file_sort_using).                    *)
LossReported == failed => \/ sort_return = 16
                          \/ using /\ ~retrieving

(* Every statement comes to its end: the passes over queues and over files *)
(* get down to one block.                                                  *)
AtRest == pc \in {"idle", "crashed", "broken", "garbage"}
StatementEnds == ~AtRest ~> AtRest

(* The blocks on queues and files are those that the counts say: none is   *)
(* read that an earlier pass left, none is forgotten, none outgrows memory.*)
BlocksSound == TypeOK /\ MemoryBound /\ CompleteAtEnd /\ MergeIsSafe
=============================================================================
