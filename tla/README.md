# OpenCOBOL: TLA+ models of the run time and of the code the compiler generates

This directory holds TLA+ modules that model parts of OpenCOBOL (GNU Cobol 1.1):
the run-time library `libcob` and the code that `cobc` generates around it. TLC
checks the modules on small instances; TLAPS proves what can be proved for
every instance. File and line numbers refer to `src/` of this repository;
`PROJECT.json` maps every definition to the lines it stands for.

Contents: [inventory](#1-inventory), [hard behaviours](#2-what-is-hard),
[plan](#3-plan), [modules](#4-modules-and-code), [runs](#5-runs-and-bounds),
[fairness](#6-fairness), [proofs](#7-proofs), [findings](#8-findings),
[limits](#9-what-is-not-modelled).

## 1. Inventory

A COBOL program becomes a C function with static data. It calls `libcob` for
everything that is not a jump or simple arithmetic. A *run unit* is one
process; `libcob` keeps its state in static variables, and nothing runs
concurrently inside a run unit. Run units meet only in files.

| component | state it keeps | operations | interacts with | what makes it correct |
|---|---|---|---|---|
| **File connector**, `fileio.c` 3768-4309 | `cob_file`: open mode, access mode, flags (first read, read done, end/begin of file, nonexistent), handle; `file_cache`, `cob_error_file` | OPEN, CLOSE, START, READ, WRITE, REWRITE, DELETE, UNLOCK, exit | calls the driver of the organization; called by programs, SORT, exit | a REWRITE or DELETE concerns the record just read; AT END holds; a missing file is never read; a locked file stays locked; no handle is lost |
| **RELATIVE driver**, 1312-1589 | slots, one stdio position, the key field | start, read, read next, write, rewrite, delete | connector | a keyed record store; a scan skips nothing |
| **SEQUENTIAL, LINE SEQUENTIAL**, 986-1306 | position, `flag_needs_nl`, `flag_needs_top` | read, write, rewrite | connector | what is written is read back |
| **LINAGE**, 718-756, 904-965, 1210-1306 | LINAGE-COUNTER, values in effect, `eop_status` | open, write with ADVANCING | line sequential driver; data items of the program | the counter is where the file is; records stand in the page body; end of page is reported |
| **INDEXED driver**, 1598-3629 | one database per key, cursors, last key and duplicate number, locks | open, start, read, read next/previous, write, rewrite, delete | Berkeley DB or ISAM (external) | indexes agree; a scan is exact under updates |
| **File sharing**, 835-849, 884-890, 3700-3766 | `fcntl` locks, stdio buffers | open, close, unlock, commit | other run units | a writer is alone with the file; records written stand |
| **SORT engine**, 5062-5762 | two to four queues, four temporary files, free list, stamp | RELEASE, RETURN, USING, GIVING | connectors of USING and GIVING | sorted, stable, complete; bounded memory; ends |
| **Run unit**, `call.c`, `codegen.c` 3777-4330, 4580-4591, `common.c` 830-845 | module chain, call table, `initialized`, storage, parameters | CALL, CANCEL, GOBACK, EXIT PROGRAM, STOP RUN | every program | the chain is the call stack; a program keeps its own data |
| **PERFORM**, `codegen.c` 2713-2796 | frame stack of a program | PERFORM, end of paragraph, GO TO | run unit (global USE entries) | control returns to where it came from |
| **Handlers**, `common.c` 750-870, 1777-1854 | two lists of procedures | CBL_EXIT_PROC, CBL_ERROR_PROC, stop, run-time error | run unit | every handler runs once |
| **Strings**, `strings.c` | static state between the calls of a statement | INSPECT, STRING, UNSTRING | fields | as the statement is defined |
| **Numbers and moves**, `numeric.c`, `move.c`, `codegen.h` | four static decimals | arithmetic, conversions, editing | fields, GMP | value, size error, field restored |
| **Intrinsic functions**, `intrinsic.c` | a ring of eight result fields in turn | 70 functions, each a C call nested in another | fields, exception code, STRING and UNSTRING | their definitions; a result stands as long as the expression needs it |
| **Services**, `common.c` | exception code, switches, externals | comparison, class tests, ACCEPT, memory | all | |
| **Terminal and screen**, `termio.c`, `screenio.c` | cursor, field list | DISPLAY, ACCEPT | curses | |
| **Expressions**, `typeck.c` 1455-2390, `parser.y`, `codegen.c` | the stack of operands and operators, two globals of abbreviated relations | one call for each token, build the tree, generate C | numbers, comparisons | a condition means what the rules of COBOL say; targets get the value from before the statement |
| **Rest of the compiler** `cobc/` | token queue, tree, tables | preprocess, scan, parse, check, lay out, generate | writes the C code modelled above | |

`PROJECT.json` lists all components, modelled or not, with the reason.

## 2. What is hard

There is no concurrency inside a run unit, so the difficult behaviours are of
other kinds (the full list, each at its line, is under `hazards`):

* **Long sequences of legal calls.** Every statement is checked by flags that
  earlier statements have left (`flag_read_done`, `flag_nonexistent`,
  `flag_first_read`); one that is not reset shows three statements later.
* **One position for everything.** The RELATIVE driver has one stdio position;
  a statement that fails leaves it somewhere, and the next one starts there.
* **Static state.** `eop_status`, `cob_save_call_params`, module records and
  call tables outlive the statement or program that set them.
* **Two accounts of one thing.** LINAGE-COUNTER and the lines written; the
  chain of modules and the C stack; block counts and the blocks on a file.
* **Partial failure.** An OPEN that fails after the file is open, a page that
  fails after it was filled, a spill that fails in the middle of a RELEASE.
* **Limits.** A key field too small for a slot number, a memory that is full at
  every RELEASE, a `size_t` that is decremented at 0.
* **Several run units on one file.** OPEN and CLOSE are two system calls each,
  `fcntl` locks belong to the process and not to the connector, and stdio
  writes when it likes.
* **Many ways to one result.** The compiler picks one of some hundred routines
  for an ADD or a comparison; all must agree with the decimal arithmetic.

## 3. Plan

Modules are written in the order of what a program depends on most.

1. *Done.* `Connector`, `FileConnector`: the checks all files share. Proofs.
2. *Done.* `RecordStore`, `RelativeFile`: a driver behind these checks, and the
   abstract store it implements.
3. *Done.* `SortContract`, `CobSort`: the engine and what a SORT promises. Proofs.
4. *Done.* `RunUnit`: programs that call and cancel each other. Proofs.
5. *Done.* `Linage`: print files. Proofs.
6. *Done.* `PerformContract`, `PerformStack`: the frames of PERFORM, with GO TO
   out of a range, `perform-osvs` and stack checking, against structured
   returns.
7. *Done.* `FileSharing`: run units that open, write and close one file.
8. *Done.* `IndexedFile`: primary and alternate keys against `RecordStore`.
9. *Done.* `Shutdown`: exit and error handlers, signals, the end of a run unit.
   Proofs.
10. *Done.* `Strings`, `Numbers`, `Expressions`.
11. *Done.* `Moves`: conversions and editing, checked together with `Numbers`.
12. *Done.* `Decimals`, `Intrinsics`: the functions and the ring their results
    lie in, checked together with `Strings`.

Abstract specifications: `RecordStore` (for RELATIVE and INDEXED files),
`SortContract`, `PerformContract`; the algorithms are held against definitions
of what the statement means. Proved are the theorems of section 7: the safety
properties of every module that models state over time.

A run asks everything that is asked of one model; properties that belong
together are conjunctions of named parts.

## 4. Modules and code

### Connector, FileConnector

`Connector` has no variables: it defines the record `Cob_file` and, for each
statement, what the public routine answers by itself (`OpenCheck`, `ReadCheck`,
...; `CallDriver` when it goes on to the driver) and what it does to the record
(`AfterOpen`, `AfterRead`, ...). The order of the `CASE` arms is the order of
the tests in the code.

`FileConnector` runs one connector of any organization, access mode, OPTIONAL
or not, ASSIGN TO KEYBOARD or DISPLAY or not, against a driver that may give
any answer the drivers of its organization can give. Its actions are the
public routines, `ExitFileio` (`cob_exit_fileio`) and `Crash`, which follows a
null or dead handle. `last` records the call for the properties.

### RecordStore, RelativeFile

`RelativeFile` puts the driver `relative_*` behind `Connector`. A file is a
sequence of slots (`NoRecord`: header 0). `pos` is the stdio position, before a
slot or *inside* it, where a START leaves it that gives up after reading a
header. A header read from inside a slot stops the model (`adrift`), as do the
endless loop of START NOT EQUAL (`hung`) and the null key field (`crashed`).
`recno`, `scan` and `seen` are history for the properties. `RecordStore` is
what a keyed file promises; `ImplementsStore` is the refinement.

### SortContract, CobSort, MCCobSort

One action of `CobSort` is one turn of a loop of `cob_sort_queues` or
`cob_file_sort_process`; `pc` says which loop, `cont` who called. Items are
records of key, stamp (`unique`) and `end_of_block`; a file is the items on it,
a read position, the block count and whether leftovers of an earlier pass lie
behind (`tail`). A `size_t` wraps at `SizeMax`, which no program has more records
than. `SortContract` is a pool of records of
which RETURN hands out the least.

### RunUnit

`frames` is the C stack; `current` and `next` are `cob_current_module` and the
`next` of each program's static module record; `entry` is the call table. A
`Call` is the whole way from `output_call` through the prologue of
`output_internal_function`: record the parameters, push the module, register
the CANCEL function when there is a caller, initialize, save the number of
parameters. `Cancel` runs the cancel function the table has. One storage item
and one file stand for what a program has. CONSTANTs say which programs are
INITIAL, which may recurse and whether an active program may be cancelled.

### Linage, MCLinage

`row` counts the newlines in the file and `base` is where the current page
starts; `counter`, `lin` and `needs_top` are the code's. A WRITE is one action
for each way through `cob_linage_write_opt`: on the page, over its end, PAGE,
or on a page whose values were invalid. `items` are the data items of the
clause, changed by the program at any moment. `WriteOther` writes another LINE
SEQUENTIAL file, which shares `eop_status`. `zeros` counts the writes that
advance by 0 lines.

### PerformContract, PerformStack, MCPerformStack

A program is a set of PERFORM statements over numbered paragraphs. Control is
at a *spot*: in the statements of a paragraph, or at the test at the end of a
paragraph or section that some PERFORM names as its end. `frames` is
`frame_stack`; `Perform` is `output_perform_call` (push, jump), `Ended` the test
`if (frame_ptr->perform_through == n)`, with `perform-osvs` over all frames.
`times` are the C variables that count the turns of each PERFORM TIMES. GO TO
may jump to any paragraph. `PerformContract` is what PERFORM promises: ranges
nest and give control back to their statement. `StackSound` is `TypeOK`,
`ControlInRange` (no frame returns to a place that is none), `NoOverrun`
(checked programs never write behind the stack) and `NestedFits` (nested
programs leave no frame behind and need no check).

### FileSharing, MCFileSharing

`lock` is the kernel's table: one lock for each process, whatever connector
asked for it. OPEN is `fopen` and then `F_SETLK`, CLOSE is `F_UNLCK` and then
`fclose`, which writes `buffer`; between the two steps other processes run.
`standing` are the records that a WRITE has put on the file and that nothing
destroyed which is entitled to. `LocksSound` is `TypeOK` and `WriterAlone`;
`RecordsStand` says that only OPEN OUTPUT and what CLOSE writes behind its own
lock destroy a record.

### IndexedFile, MCIndexedFile

`IndexedFile` puts the driver `indexed_*` over Berkeley DB behind `Connector`.
`prim` is the database of records, `alts` the one of the alternate key with the
number of each duplicate; `p` is `struct indexed_file`: the key read last, the
last duplicate number, cursors, the record lock. Records are their alternate
key. `Entries(i)` is an index as a cursor sees it, entries in the order of
their key and place; the calls of the database are searches in it (`SetRange`,
`SkipTo`, `Step`). The loop of DELETE and REWRITE that walks the duplicates to
the entry of its record is the recursive function of `Others`. A statement is
one action: the write cursor and the environment make it so. `IndexSound` is `TypeOK`, `IndexesAgree` (each record is found under its
alternate key exactly once and in the order of its number), `LockedStands` (a
record locked by a connector is there) and `UpdateFindsRecord`. `ScanIsExact`
says READ NEXT and READ PREVIOUS find the neighbour of the position whatever
was written or deleted since; `LockedUnchanged` that nobody else changes a
locked record; `ImplementsStore` is the refinement of `RecordStore`.

### Strings, MCStrings

One action is one call of `strings.c`, in the order in which `typeck.c` emits
them; `mode`, `lo`, `hi`, `mark`, `offset` and so on are its static variables,
`exc` is `cob_exception_code`, through which STRING and UNSTRING remember that
they have ended. `claims` and `phrases` are history: what each phrase has taken
and what it asked for. `InspectSound` is `TypeOK`, `InspectOnce` (no character
is taken twice), `InspectExact` (each phrase takes what it promises of what the
earlier ones left) and `ConvertsOnce`. `TransfersSound` is `StringFills` (STRING
appends its operands, each up to its delimiter, until the field is full) and
`UnstringSound`: `UnstringSplits`, `OverflowTold` and `StaysInField`.

### Decimals, Intrinsics, MCStrings

`Decimals` are the `cob_decimal` operations of `numeric.c`, which `Numbers` and
`Intrinsics` share. A behaviour of `Intrinsics` is one expression, built from
the inside out as the nested C calls run: `Refer` puts a field of the program on
`terms`, a call takes its arguments from the end and puts a reference to its
result there. Each of the actions `NumberCall` ... `CharCall` stands for the
functions of one kind; `MakeFieldEntry` is `make_field_entry`, so the result lies in one
of `Depth` cells and is gone when the ring comes round. `Seen` is an argument
that is read after the result has been made, and cleared, in its place. A field
has its C type: a value wraps at `IntLimit` or `LongLimit`, and `Binop` chooses
the type by digits and scale. `FunctionsExact` is a conjunction by kind, each
against a definition that does not compute as the code does: dates by the
calendar whose year begins in March, a median by counting, TRIM by what may be
taken away. It speaks of arguments that still stand; `ResultsStand` says how
long that is: until `Depth` more results have been made, nothing writes over a
result that an expression refers to.

### Numbers, MCNumbers

A field is its attributes and its bytes or digits. `Statement`-s choose, as
`cb_build_add`, `cb_build_cond` and the optimizations of `typeck.c` do, between
the general way over decimals (`cob_add`, `cob_decimal_get_field`,
`cob_div_quotient`) and the routines made for one format: the inline functions
of `codegen.h` for binary fields of one to eight bytes, aligned or swapped,
`cob_add_packed_int`, `display_add_int` and the comparisons. The base of a byte,
the radix and the sizes of the C types are CONSTANTs: the instance has bytes of
two bits, so that fields of one to eight bytes can be tried on many contents.
`ResultsExact` is `TypeOK`, `ExactWhenRoom` (the value of the arithmetic, when
it fits), `LowPlacesKept` (when it does not, only high places are lost) and
`RemainderExact`, and `SizeErrorKeeps` (a refused result leaves the field);
`ComparesRight` says that every comparison gives the order of the values.

### Moves, MCNumbers

A behaviour of `StatementSpec` is one statement of `Numbers` or a `trail`: one
value, moved to a field of any category and, if that is not numeric, moved on.
`Moved` chooses as `cb_build_move` does between `cob_move` (`CobMove`, with the
conversions of `move.c` below it: text read as a number, editing symbol by
symbol, de-editing, temporary fields) and the bytes, values, copies and fills
that the compiler emits instead. `FieldOf` computes size, digits, scale and
category of a picture as `cb_build_picture` does. `MovesSound` is two parts: `MovesRight` holds every
receiver against the definition of a MOVE: the number cut to the places of the
field, the picture shown place by place (`EditedText`), text padded or cut;
`ShortcutsAgree` says that the emitted code does what `cob_move` would;
`EditedBack` that an edited number is read back as the number it shows.
`Regular`, `FloatingDecimals`, `Overrun` and `Uncut` name the pictures and
values that the library treats otherwise (section 8). The instance was compared
field by field with programs compiled by this compiler.

### Shutdown

The end of a run unit. What `RunUnit` also has (`Init`, `Next`, CALL, OPEN) is
called otherwise here (`ShutdownInit`, `CallHandler`, `OpenFile`), so that
`RunUnitProofs` extends both. `cell` are the nodes of the two lists, `stack` the
C activations: the program or a handler, and the walks of `cob_stop_run`,
`cob_runtime_error`, `cob_exit_fileio` and the signal handler, which interrupts
any of them. `wanted` is what the registrations asked for. `ListsHold` relates
both, `EndComplete` is `ShutdownTypeOK`, `ExitHandlersRun`, `ErrorHandlersRun`
and `FilesClosed`, and `EndReached` says that a run unit that has begun to end
does.

### Expressions, MCExpressions

A behaviour is one expression, token by token (`cb_expr_shift` and its
relatives), its tree (`cb_expr_finish`, `cb_build_cond`) and the C text that
`codegen.c` writes for it; an arithmetic expression may be the source of a
statement with several targets. `MeansWhatItSays` evaluates the code and the
expression as the rules of COBOL read it - own grammar, abbreviated relations
expanded - under every assignment of values and demands the same result;
`TargetsTogether` that every target gets the value of the operands before the
statement. Expressions outside the rules, and the few the compiler refuses or
gives up on (section 8), are named by operators and excluded.

## 5. Runs and bounds

| run | question and bounds |
|---|---|
| `connector` | Every SELECT, every call sequence; the state space is finite without bounds. |
| `relative` | Three slots, key field 0..2, two records: three slots are the least with a record below, at and above a deleted one; a key field of 2 makes slot 3 too big for it; two records tell a changed record from a kept one. Every access mode. |
| `indexed` | A program alone with the file: two records and two alternate keys, with and without duplicates, or three duplicates of one key, so that duplicates of a key and neighbours of a key both occur, reading by either key. Two programs: one reads the file in its order while the other changes it, or both work by the primary key; two is the least number of which one can meet the lock of another. |
| `sharing` | Two run units, the first with two connectors under LOCK MODE EXCLUSIVE and one without; two records of the first and one of the second: one record stands while another is written behind it. |
| `sort` | Up to seven records of two keys in any order, memory for 0 to 5, failing files: memory for less than the four items a merge takes, spills at every RELEASE, and queues of all lengths. And 34 records, memory for 4: nine records give two blocks on a file, 17 two passes, 33 a third over files whose block counts have wrapped and that hold leavings of the first. |
| `run_unit` | Main, one program, one INITIAL program, depth 3, up to one parameter: three programs are the least where a caller waits while two others call and cancel each other; one parameter tells a recorded count from none. |
| `perform` | Three paragraphs, two sections, one of them declaratives, all pairs of PERFORM statements, a stack of four frames, two turns: pairs are enough for ranges that overlap, nest or end together. |
| `linage` | Pages of 2 and 3 lines with and without margins and footing, invalid values, advances of 0, 1, 2 and PAGE, WRITEs until line 10 is passed: enough for three pages and a change of values at each. |
| `shutdown` | Two handlers, one file, four calls, a signal at any step: two handlers are the least of which one can remove or follow the other. Only the newest handler is removed or registered again (section 8). |
| `strings` | Fields of 1 and 4 of two characters, four operands of one and two, two phrases, pointers 0 to 5: operands that overlap, and delimiters that begin alike or run into the end. Or an expression of functions of one of 15 families, each with operands of its own: up to four operands, five results in a ring of three (eight in the code), so that it comes round within one expression; `int` up to 32 and `long` up to 512, so that results of every type and at their limits occur; two decimals; every kind of day around the ends of months, years, centuries and of the range, which ends in 2010 instead of 9999. |
| `numbers` | Binary fields of 1 to 8 bytes of two bits, packed and display fields of 1 to 3 digits, scale 0 and 1; operands below, at and beyond the range of each. Moves: 28 editing pictures, numeric, binary, packed and text fields of up to 8 places, four digits where the code has 18: enough for a digit lost at either end, for suppression that ends before, at and behind the point, and for every pair of symbols that float. |
| `expressions` | Six vocabularies of up to 19 tokens; 4 tokens of all, 11 of the smallest: enough for two abbreviations behind one another and parentheses in both operands. |

`CHECK_DEADLOCK FALSE` where a run unit may stop: it is over, has crashed, or
all records have been sorted. Every property has a mutant: a plausible fault of
the code, defined beside the definition it replaces, under which TLC finds the
property violated.

## 6. Fairness

`StatementEnds` of `CobSort` needs `WF_vars(Loops)`, where `Loops` are the turns
of the loops inside one statement, and `EndReached` of `Shutdown` needs weak
fairness of the steps of the walks. Both are one thread of C code that runs on
by itself; nothing else is enabled while it does. What the program does next
(RELEASE, RETURN, a CALL) has no fairness. All other properties are safety.

## 7. Proofs

`FileConnectorProofs` (on `FileConnector` and on `Linage`), `RunUnitProofs` (on
`RunUnit` and on `Shutdown`), `PerformStackProofs`, `FileSharingProofs`,
`RelativeFileProofs`, `IndexedFileProofs`, `CobSortProofs` and `StringsProofs`
(on `Strings` and on `Intrinsics`) are checked by TLAPS to the last leaf.
They assume nothing but the named assumptions of the modules, which say what the constants are, and
what the theorems state as hypotheses (`Conforming` of *RunUnit*, the removals of
*Shutdown*); none of them bounds a number of records, keys, frames, lines,
connectors, handlers or statements. Each component has one
inductive invariant (`IInv`, for `Linage` `PageInv`, for `Shutdown` `EndInv`, for
`Strings` `TransferInv` and `InspectInv`, for `Intrinsics` `RingInv`), one lemma for each action
that keeps it, and lemmas about the operators of the model below. The invariants were first checked by
TLC on the instances of section 5.

*FileConnector.* For every connector and every behaviour of the drivers: type
correctness, `UpdateFollowsRead`, `NoReadPastEnd`, `MissingNeverRead`,
`DeadHandleCalls`, `NoHandleLost`. None is inductive: that a REWRITE follows a
READ needs that `flag_read_done` implies that the last call was a successful
READ under the present open mode (`ReadDoneFlag`); that AT END holds needs that
the flag is set whenever the last call answered 10 (`EndFlags`); that a missing
file is never read needs that the flag stands only with an empty or closed
handle and both end flags (`MissingFlag`); which calls reach a driver with a
dead handle follows from what the handle is in each open mode (`OpenIsLive`).

*RunUnit.* Type correctness holds in every run unit. Under `Conforming` (no
program is called while active, none is cancelled while active, which COBOL
demands and the code does not test) the chain of modules is the C stack, EXIT
PROGRAM returns from exactly the called programs, active programs are
initialized, C$NARG and C$PARAMSIZE concern the present CALL, CANCEL finds what
there is to undo, only INITIAL programs lose an open file, and a waiting
program keeps its storage and file. The strengthening: no program is on the
stack twice (`Distinct`) - else a push rewrites a link that is in use -, the
bottom is the main program (`MainFirst`), whose link is null, and every frame
but the last has called (`CallersCalled`). Both halves of `Conforming` are
needed: a recursive CALL links the static module record to itself, and CANCEL
of an active program takes its storage, because `flag_is_active`, which
`call.c` 501 tests, is never set.

*Linage.* For every set of values, every advance and files of any length,
LINAGE-COUNTER is where the file is (`CursorAtCounter`), records written
BEFORE ADVANCING stand in the body (`RecordInBody`), and no page is filled
without END-OF-PAGE being told (`EndOfPageTold`). The strengthening is
`OnValidPage`: while the counter is not 0 it lies on the page, and the values
in effect are valid, so that the rest of the page is never negative.

*PerformStack.* For every set of paragraphs and PERFORM statements and every
stack size: control is always at a place of the program, a program compiled
with stack checking never writes behind the stack, a nested program that has
no more PERFORM statements than the stack has frames needs no check
(`StackSound`), and nested programs refine `PerformContract` (`Structured`). The
strengthening is `FramesNest`: in a nested program every frame belongs to another
statement, which stands in the range of the frame below - so that there are no
more frames than statements -, and has turns left; and `CountsUsed`, which bounds
the counts of PERFORM TIMES from below.

*FileSharing.* For every finite set of connectors, run units and records of any
number: among careful programs (one open connector of a process at a time,
LOCK MODE EXCLUSIVE) a connector that may write is alone with the file
(`LocksSound`), and no statement but OPEN OUTPUT and a CLOSE behind its lock
destroys a record (`RecordsStand`). The strengthening: which step of OPEN or
CLOSE is under way (`UnderWay`), what each step has locked (`LocksHeld`), and where
in the file the entries of a buffer will go (`Unread`, `Named`, `Placed`,
`Sheltered`). Writing a buffer is a loop over its entries; its effect is proved
by induction over the number of entries written.

*RelativeFile.* For files of any length, any key field and any records: a
sequential REWRITE or DELETE stands on the record that was read, READ NEXT skips
nothing (`PositionSound`), START and READ report the record they found
(`ReportsExact`), and the slots refine `RecordStore` (`ImplementsStore`). The
strengthening relates the stdio position to the slot read last (`RewriteTarget`),
to the history of the scan (`ScanIsExact`) and to a START before the first READ
(`FirstAtStart`); the records that a scan passes lie between two slots, and a
search stops at the least or greatest of a set of slots.

*IndexedFile.* For any number of keys, alternate keys, connectors and setups:
each record is in the database of the alternate key exactly once and the
duplicates are in the order of their numbers (`IndexSound`), nobody changes a
record that another connector has locked (`LockedUnchanged`), the primary
database refines `RecordStore` (`ImplementsStore`), and READ NEXT and READ
PREVIOUS deliver the nearest entry behind or before the position, or AT END when
there is none, whatever was changed since (`ScanIsExact`). The strengthening is
`IndexesAgree`, that a locked record is there and locked once (`LockedStands`),
that a program without an environment is alone (`Alone`), and that what it read is
still there until it changes it (`ReadStands`). The loop of `Others`, which walks
through the duplicates, is proved by induction over its steps.

*CobSort.* For every program that releases and retrieves, every memory, any
number of records and temporary files that fail at any step: the blocks are
those that the counts say (`BlocksSound`), a file that fails is reported
(`LossReported`), and the engine refines `SortContract` (`ImplementsSort`): what
is released is returned once and in order, equal keys in the order of release.
The strengthening has three parts. `Engine` says what stands on the queues and
files at each of its loops: which blocks are ended, that the counts - of a
`size_t` that may wrap - are those of the blocks left to be read, that both
queues of a pass differ by at most the block in hand, that each block rises, and
that the heads which the merge holds come before the rest of their files.
`PoolKept` says that, until a file fails, no record is in two places (`NoTwice`)
and that with those returned they are as many as were released (`Counted`);
together with
`AllReturned` they hand out what the contract's pool hands out. Each step maps
the places of the records one to one onto those of the next state, so that the
pool stands or loses its least record.

*Shutdown.* For any number of handlers, list nodes, files and calls, where only
the newest handler is removed or registered again (`Removals = "newest"`; section
8 says what else happens): the lists hold the handlers asked for, in nodes that
are not freed (`ListsHold`), and a run unit that ends has run each handler that
was due once and closed its files (`EndComplete`), with a signal at any step and
handlers that remove themselves or stop the run unit. The strengthening: a list
is a chain of distinct allocated nodes from its head to the null pointer, with
the handlers of `wanted` (`Listed`); the activations on the C stack rise in
`Level`, so that no walk is begun twice (`Stacked`); what a walk has run, followed
by what is still linked behind its node, is what was due (`Walked`), which holds
when a handler unlinks its own node because that node keeps its `next`; and
before a signal no handle is closed twice (`Handles`).

*Strings.* For all fields, operands, delimiters and pointers, and operands that
set or clear the exception code between the calls: STRING and UNSTRING move what
they promise (`TransfersSound`). The strengthening `TransferInv` is what the field
holds when the texts strung so far are put one behind the other and cut where it
is full (`StringFilled`), and that the pieces cut so far are the field up to the
offset (`UnstringState`). What one more text or piece does to them needs
`FlattenSeq` of the community modules, which is a recursive function over the
sequence: `FlattenIs` and `FlattenAppend` show, from the stages of joining, that
it puts the texts one behind the other. `RunIs` does the same for the loop that
counts an ALL delimiter, and `CutIsSound` says of the search for a delimiter that
the piece, and the delimiters behind it, are the field from the offset on.
INSPECT takes every character once at most and takes what its phrases promise
(`InspectSound`), for all fields, operands, regions and any number of phrases.
The strengthening `InspectInv` says it of the claims, the marks, the tally and the
field apart from the last phrase: claims lie in the field and apart from each
other (`ClaimsOK`), a mark is set exactly where a claim lies, with the number of
its phrase (`MarksOK`), and what a phrase took is a fact about the claims of it
and of those before it (`PhraseOK`), which no later phrase can change
(`PhraseStays`). `FoundIs` says what the two loops of `inspect_common` find, from
the left or from the right, as a statement about every place of the part; from
it follow the promises of ALL, FIRST, LEADING and TRAILING. `TurnsDone` follows
the turns of CONVERTING one after the other. `Found` and `FoldLeft` are recursive
functions; that there are functions with these values is shown from a rank
(`RankedRecursion`), and what they are by the least place at which a claim about
them could fail.

*Intrinsics.* For every depth of the ring of results, every field and every
list of functions, whatever they compute: a result reads as it was returned
until `Depth` more have been made (`ResultsStand`) - also when MOD and REM make
three for one, when MAX, MIN and MEDIAN hand on a reference that is older than
the call, and when the result is cleared in the place of an argument. The
strengthening says where a result is: one with `n` results made since lies `n`
entries behind the one filled last, as long as `n` is below `Depth` (`Lies`); the
next entry to be filled is the only one that no such result can be in.

What stays with TLC, and why:

* `StatementEnds` and `EndReached`: liveness under fairness is beyond the prover.
* `FunctionsExact` of `Intrinsics`, `Decimals`, `Numbers`, `Moves`,
  `Expressions`: what a pure algorithm computes, against a definition that is
  recursive over the same data. For `Expressions` that is an induction over trees
  with an operator as parameter, and its modules need RECURSIVE operators; for the
  others it is the arithmetic of numerals in any base with rounding and overflow,
  products and powers of variables that the provers do not find.
  Loops over the places of a field or the turns of a statement are another matter:
  those of `Strings`, `FileSharing` and `IndexedFile` are recursive functions of a
  number, and their proofs find the least number at which a claim could fail.

## 8. Findings

No run ends in a violation: what the repository says of its programs in so
many words holds of the models. What follows was seen while modelling; the
inputs it needs are left out of the instances, at the place named.

*Run unit.* A recursive CALL makes the module chain a loop and the stack of
modules never gets back to the caller's. CANCEL of an active program is not
refused. Removing an exit handler that is not the newest, or registering it
again, frees the node in front of it, which stays linked (`common.c` 1799,
1838): `Removals = "any"` of `Shutdown` violates `ListsHold`.

*Files.* CLOSE WITH LOCK of a missing OPTIONAL file can be undone by a second
CLOSE. The first READ NEXT after START moves 1 to the relative key. A START
that gives up leaves the position inside a slot; START KEY NOT EQUAL loops for
ever on an empty slot; START KEY LESS than a number beyond the end finds
nothing; REWRITE of an empty slot reports 00; a sequential DELETE of a relative
record removes that of the key field, not the one read. A sequential REWRITE
of an indexed record whose unique alternate key is taken goes on with memory it
does not own. An overflow of a print page that fails with 57 makes the next
WRITE of another file report 52. WRITE AFTER ADVANCING over the end of a page
prints in front of the new page's body. OPEN OUTPUT that is refused by another
run unit's lock has already emptied the file; CLOSE writes its buffer behind
its lock. A spill of SORT that fails leaves the queue half written.

*Strings.* STRING and UNSTRING go outside their field when a function among
their operands clears the exception code after the end was reached.

*Numbers.* `cob_add_packed` drops digits of the operand beyond those of the
field. Signed BINARY cut to its digits loses its sign in some routines; the
unsigned ones wrap below zero. The carry of `cob_add_packed_int` runs into the
pad half byte. A packed -0 of ten digits or more is less than 0. The least
signed value is reported as a size error. An unsigned operand of four bytes
from 2^31 is taken as negative. The remainder is stored even when the quotient
is refused. Negative scales are not followed everywhere.

*Moves.* A picture with P is misaligned when it is moved to PACKED-DECIMAL, and
text moved to one with all places behind the point is read beyond its end.
`0` and `/` are inserted among suppressed places; a single leading sign or
currency sign before Z moves with the number (`+ZZ9` shows 5 as two spaces and
`+5`), and a digit lost at that place ends the suppression. De-editing does not
know DB. Floating signs behind the point do not count as decimals, so that a
COMPUTE into `$$$.$$` loses them. A number moved to a JUSTIFIED field is not
justified, a literal is. ALL literals of more than one character skip the
editing of an alphanumeric-edited field, and a number gets the last digits of
18. A literal is stored into a binary field without truncation, a negative one
into an unsigned field with its sign; a text literal is copied into a numeric
field as it is. A negative number that is cut to zero still shows its sign. A
number with 18 digits and a scale runs over a `long long` on its way to a binary
field with decimals (`cob_move_display_to_binary`).

*Functions.* The ring is too small for some expressions: FUNCTION SUM of nine
FUNCTION ABS adds the ninth twice, because the first was overwritten. INTEGER
below zero, and with it MOD, looks at one decimal: INTEGER(-1.05) is -1.
FRACTION-PART overflows from ten on: that of 12.5 is -.946744073709551616.
Functions that take an integer read a binary argument without its scale:
CHAR(FUNCTION MEAN(66 66)) is not "A". NUMVAL sees CR or DB only at the very end,
with a zero byte behind it, as after a literal. DATE-TO-YYYYMMDD(19990101 50
2000) answers 38990101. ORD-MAX of one argument is 0. FACTORIAL(21) is cut.
A reference modification that begins behind the end is ignored. LOCALE-TIME
accepts hour 24. C leaves open, and this compiler takes, the order of arguments
from right to left, which shows where one changes the exception code.

*Expressions.* `NOT ZERO` at the start of a comparison loses NOT or is refused;
`NOT LESS THAN OR EQUAL` is refused; `x = y AND NOT c NOT = d` makes the
compiler give up; a condition-name as subject or operator too. `ADD A TO A B`
adds the changed A to B, while other statements use the value from before.

## 9. What is not modelled

* Inside modelled components: errors of the disk in `RelativeFile`,
  `IndexedFile` and `Linage`, what follows a failed temporary file in `CobSort`,
  the output files of GIVING, how a name is resolved to a library, ENTRY names,
  EXTERNAL items, a negative ADVANCING, global USE procedures, run-time errors
  inside handlers, exit handlers that stop the run unit, crashes by SIGSEGV,
  functions computed with doubles (trigonometry, logarithms, roots, ANNUITY,
  PRESENT-VALUE, STANDARD-DEVIATION), RANDOM, the clock, EXCEPTION-...,
  exponentiation, division by zero and other locales than "C" in functions, texts
  whose cell was used again, negative LOCALE-TIME-FROM-SECONDS,
  floating-point fields, signs that are LEADING or SEPARATE, groups, more than
  one alternate key.
* Build options: the external file handlers (EXTFH), ISAM instead of Berkeley
  DB, the variants of variable records, `-fimplicit-init`, systems other than
  POSIX.
* Components: those marked not modelled in `PROJECT.json`, most of them still
  in the plan; formatting, messages, curses, operating-system wrappers, and
  vendored and generated code are left out for good.
