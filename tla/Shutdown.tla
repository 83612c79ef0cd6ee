------------------------------ MODULE Shutdown ------------------------------
(***************************************************************************)
(* How a run unit ends (libcob/common.c): STOP RUN, a run-time error and   *)
(* the signals INT, HUP and QUIT.  Programs register exit and error        *)
(* handlers with CBL_EXIT_PROC and CBL_ERROR_PROC, kept in two linked      *)
(* lists; STOP RUN and run-time errors walk them, and then every file of   *)
(* file_cache that is open is closed.                                      *)
(***************************************************************************)
EXTENDS Integers, Sequences, FiniteSets, SequencesExt

CONSTANTS
  Procs,       \* procedures that can be registered
  Nodes,       \* addresses of list nodes
  Files,       \* the files of file_cache
  Removals,    \* "newest": only the newest handler is registered again or removed; or "any"
  MaxCalls,    \* bound on the calls that the main program makes
  NULL         \* the null pointer

ASSUME ShutdownAssumption ==
  /\ Removals \in {"newest", "any"}
  /\ MaxCalls \in Nat
  /\ IsFiniteSet(Nodes)
  /\ NULL \notin Nodes

Kinds == {"exit", "error"}

VARIABLES
  head,    \* exit_hdlrs and hdlrs
  cell,    \* the nodes: next and proc
  live,    \* nodes allocated and not freed
  stack,   \* C activations: the program or a handler, and the walks over lists and files
  mode,    \* of each file: "closed", "open", or "handle" when cob_close has
           \* closed the handle and not yet the connector
  calls,   \* calls the main program has made
  wanted,  \* the handlers registered, newest first, as the calls asked for them
  due,     \* wanted when the walk over the list began
  ran,     \* the handlers that a walk has run
  closed,  \* how often the handle of a file was closed in this OPEN
  end      \* how the process ended, "no" while it runs

shutdown_vars == <<head, cell, live, stack, mode, calls, wanted, due, ran, closed, end>>
lists == <<head, cell, live, wanted>>
files == <<mode, closed>>

Walk(kind, at) == [walk |-> kind, at |-> at]
Code(k, p) == [walk |-> "code", kind |-> k, proc |-> p]
MainProgram == Code("main", NULL)

Top == stack[Len(stack)]
Replace(f) == Append(Front(stack), f)

Running == end = "no"
InCode == Running /\ Top.walk = "code"
InMain == Running /\ Top = MainProgram

ShutdownInit ==
  /\ head = [k \in Kinds |-> NULL]
  /\ cell = [a \in Nodes |-> [next |-> NULL, proc |-> NULL]]
  /\ live = {}
  /\ stack = <<MainProgram>>
  /\ mode = [f \in Files |-> "closed"]
  /\ calls = 0
  /\ wanted = [k \in Kinds |-> <<>>]
  /\ due = [k \in Kinds |-> <<>>]
  /\ ran = [k \in Kinds |-> <<>>]
  /\ closed = [f \in Files |-> 0]
  /\ end = "no"

-----------------------------------------------------------------------------
(* CBL_EXIT_PROC and CBL_ERROR_PROC *)

\* the list from its head on; one bent into a ring is cut off
NodesOf(k) ==
  LET from[n \in 0..Cardinality(Nodes)] ==
        IF n = 0 THEN <<>>
        ELSE LET s == from[n - 1]
                 a == IF s = <<>> THEN head[k] ELSE cell[s[Len(s)]].next
             IN  IF a = NULL \/ a \in Range(s) THEN s ELSE Append(s, a)
  IN from[Cardinality(Nodes)]

\* the position of the node of p in the list, 0 if there is none
Place(k, p) ==
  LET at == {i \in DOMAIN NodesOf(k) : cell[NodesOf(k)[i]].proc = p}
  IN  IF at = {} THEN 0 ELSE CHOOSE i \in at : \A j \in at : i <= j

\* mutant: the list still begins with the handler removed
UnlinkedFirst(k, i) ==
  IF i < 2 THEN [head |-> head[k], cell |-> cell, live |-> live]
  ELSE [head |-> head[k],
        cell |-> [cell EXCEPT ![NodesOf(k)[i - 1]].next = cell[NodesOf(k)[i]].next],
        live |-> live]

Unlinked(k, i) ==
  LET n == NodesOf(k)
  IN  IF i = 0 THEN [head |-> head[k], cell |-> cell, live |-> live]
      ELSE IF i = 1 THEN [head |-> cell[n[1]].next, cell |-> cell, live |-> live]
      \* it is the node in front that is freed
      ELSE [head |-> head[k],
            cell |-> [cell EXCEPT ![n[i - 1]].next = cell[n[i]].next],
            live |-> live \ {n[i - 1]}]

Allowed(k, p) == Removals = "newest" => Place(k, p) \in {0, 1}

Without(k, p) == RemoveFirst(wanted[k], p)

Register(k, p) ==
  /\ InMain /\ calls < MaxCalls /\ Allowed(k, p)
  /\ LET u == Unlinked(k, Place(k, p))
     IN  \E a \in Nodes \ u.live :
           /\ cell' = [u.cell EXCEPT ![a] = [next |-> u.head, proc |-> p]]
           /\ head' = [head EXCEPT ![k] = a]
           /\ live' = u.live \union {a}
  /\ wanted' = [wanted EXCEPT ![k] = <<p>> \o Without(k, p)]
  /\ calls' = calls + 1
  /\ UNCHANGED <<stack, due, ran, end, files>>

\* by the main program, or by an exit handler of itself
Unregister(k, p) ==
  /\ \/ InMain /\ calls < MaxCalls /\ calls' = calls + 1
     \/ InCode /\ Top = Code("exit", p) /\ k = "exit" /\ Place(k, p) # 0 /\ UNCHANGED calls
  /\ Allowed(k, p)
  /\ LET u == Unlinked(k, Place(k, p))
     IN  /\ head' = [head EXCEPT ![k] = u.head]
         /\ cell' = u.cell
         /\ live' = u.live
  /\ wanted' = [wanted EXCEPT ![k] = Without(k, p)]
  /\ UNCHANGED <<stack, due, ran, end, files>>

-----------------------------------------------------------------------------
(* Files, as far as their ends are concerned *)

OpenFile(f) ==
  /\ InMain /\ calls < MaxCalls /\ mode[f] = "closed"
  /\ mode' = [mode EXCEPT ![f] = "open"]
  /\ closed' = [closed EXCEPT ![f] = 0]
  /\ calls' = calls + 1
  /\ UNCHANGED <<stack, due, ran, end, lists>>

\* cob_close: the driver closes the handle, then the connector is closed
CloseHandle(f) ==
  /\ mode' = [mode EXCEPT ![f] = "handle"]
  /\ closed' = [closed EXCEPT ![f] = @ + 1]
CloseConnector(f) ==
  /\ mode' = [mode EXCEPT ![f] = "closed"]
  /\ UNCHANGED closed

\* CLOSE by the program or by a handler
CloseFile(f) ==
  /\ InCode /\ mode[f] = "open"
  /\ CloseHandle(f)
  /\ stack' = Append(stack, Walk("close", f))
  /\ UNCHANGED <<calls, due, ran, end, lists>>

EndClose ==
  /\ Running /\ Top.walk = "close"
  /\ CloseConnector(Top.at)
  /\ stack' = Front(stack)
  /\ UNCHANGED <<calls, due, ran, end, lists>>

-----------------------------------------------------------------------------
(* The ways to the end *)

\* mutant: the walk begins behind the first node
BeginSecond(k, below) ==
  /\ stack' = below \o <<Walk(k, IF head[k] = NULL THEN NULL ELSE cell[head[k]].next)>>
  /\ due' = [due EXCEPT ![k] = wanted[k]]
  /\ ran' = [ran EXCEPT ![k] = <<>>]
  /\ UNCHANGED <<calls, end, lists, files>>

Begin(k, below) ==
  /\ stack' = below \o <<Walk(k, head[k])>>
  /\ due' = [due EXCEPT ![k] = wanted[k]]
  /\ ran' = [ran EXCEPT ![k] = <<>>]
  /\ UNCHANGED <<calls, end, lists, files>>

\* STOP RUN (cob_stop_run), by the program or by an error handler
CobStopRun ==
  /\ InCode /\ Top.kind \in {"main", "error"}
  /\ Begin("exit", stack)

\* cob_runtime_error, whose callers go on with cob_stop_run
RuntimeError ==
  /\ InMain
  /\ Begin("error", stack)

\* a handler is called
CallHandler ==
  /\ Running /\ Top.walk \in Kinds /\ Top.at # NULL
  /\ LET p == cell[Top.at].proc
     IN  /\ stack' = Append(stack, Code(Top.walk, p))
         /\ ran' = [ran EXCEPT ![Top.walk] = Append(@, p)]
  /\ UNCHANGED <<calls, due, end, lists, files>>

\* it returns, and its node is read again; a node that was freed meanwhile
\* may hold anything
HandlerReturns ==
  /\ InCode /\ Top # MainProgram
  /\ LET w == Front(stack)
         a == w[Len(w)].at
     IN  \E n \in IF a \in live THEN {cell[a].next} ELSE Nodes \union {NULL} :
           stack' = [w EXCEPT ![Len(w)].at = n]
  /\ UNCHANGED <<calls, due, ran, end, lists, files>>

\* the error handlers are done with: hdlrs is emptied, then STOP RUN
ErrorsDone ==
  /\ Running /\ Top.walk = "error" /\ Top.at = NULL
  /\ head' = [head EXCEPT !["error"] = NULL]
  /\ wanted' = [wanted EXCEPT !["error"] = <<>>]
  /\ stack' = Replace(Walk("exit", head["exit"]))
  /\ due' = [due EXCEPT !["exit"] = wanted["exit"]]
  /\ ran' = [ran EXCEPT !["exit"] = <<>>]
  /\ UNCHANGED <<calls, cell, live, end, files>>

\* mutant: back to the statement behind STOP RUN
ExitsDoneBack ==
  /\ Running /\ Top.walk = "exit" /\ Top.at = NULL
  /\ stack' = Front(stack)
  /\ UNCHANGED <<calls, due, ran, end, lists, files>>

ExitsDone ==
  /\ Running /\ Top.walk = "exit" /\ Top.at = NULL
  /\ stack' = Replace(Walk("files", "stop"))
  /\ UNCHANGED <<calls, due, ran, end, lists, files>>

\* INT, HUP or QUIT at any point, once: the handler does not come back
Signal ==
  /\ Running /\ \A i \in DOMAIN stack : stack[i] # Walk("files", "signal")
  /\ stack' = Append(stack, Walk("files", "signal"))
  /\ UNCHANGED <<calls, due, ran, end, lists, files>>

\* cob_exit_fileio: cob_close, file by file
ExitFileio ==
  /\ Running /\ Top.walk = "files"
  /\ \E f \in Files :
       /\ mode[f] # "closed"
       /\ CloseHandle(f)
       /\ stack' = Append(stack, Walk("close", f))
  /\ UNCHANGED <<calls, due, ran, end, lists>>

Exit ==
  /\ Running /\ Top.walk = "files" /\ \A f \in Files : mode[f] = "closed"
  /\ end' = Top.at
  /\ UNCHANGED <<stack, calls, due, ran, lists, files>>

ShutdownNext ==
  \/ \E k \in Kinds, p \in Procs : Register(k, p) \/ Unregister(k, p)
  \/ \E f \in Files : OpenFile(f) \/ CloseFile(f)
  \/ EndClose \/ CobStopRun \/ RuntimeError
  \/ CallHandler \/ HandlerReturns \/ ErrorsDone \/ ExitsDone
  \/ Signal \/ ExitFileio \/ Exit

\* The run-time system and the handlers go on; a program need not stop.
ShutdownSpec ==
  /\ ShutdownInit /\ [][ShutdownNext]_shutdown_vars
  /\ WF_shutdown_vars(\/ EndClose \/ CallHandler \/ HandlerReturns
                      \/ ErrorsDone \/ ExitsDone \/ ExitFileio \/ Exit)

-----------------------------------------------------------------------------
(* What the end of a run unit promises *)

ShutdownTypeOK ==
  /\ head \in [Kinds -> Nodes \union {NULL}]
  /\ cell \in [Nodes -> [next : Nodes \union {NULL}, proc : Procs \union {NULL}]]
  /\ live \subseteq Nodes
  /\ mode \in [Files -> {"closed", "open", "handle"}]
  /\ stack # <<>> /\ stack[1] = MainProgram
  /\ end \in {"no", "stop", "signal"}

\* The lists hold exactly the handlers that the calls have asked for, newest
\* first, in nodes that are allocated ("remove handler anyway", then link the
\* new one: CBL_EXIT_PROC, CBL_ERROR_PROC).
ListsHold ==
  \A k \in Kinds :
    /\ [i \in DOMAIN NodesOf(k) |-> cell[NodesOf(k)[i]].proc] = wanted[k]
    /\ Range(NodesOf(k)) \subseteq live

\* A run unit that stops has run each exit handler that was registered once,
\* newest first, whatever error handlers, CLOSEs and removals came in between
\* (cob_stop_run, cob_runtime_error).
ExitHandlersRun == end = "stop" => ran["exit"] = due["exit"]

\* Error handlers run before exit handlers, each once, unless one stops the
\* run unit itself.
ErrorHandlersRun ==
  \A i \in DOMAIN stack :
    stack[i].walk = "exit" /\ (i = 2) => ran["error"] = due["error"]

\* However the run unit ends, its files are closed, and but for a signal that
\* comes between the two steps of a CLOSE no handle is closed twice
\* (cob_exit_fileio).
FilesClosed ==
  /\ ~Running => \A f \in Files : mode[f] = "closed"
  /\ \A f \in Files : closed[f] > 1 => \E i \in DOMAIN stack : stack[i] = Walk("files", "signal")

\* A run unit that has begun to end does end.
EndReached == (Running /\ Len(stack) > 1 /\ stack[2].walk # "close") ~> ~Running

\* A run unit that has ended has run its handlers, each once, and closed its files.
EndComplete == ShutdownTypeOK /\ ExitHandlersRun /\ ErrorHandlersRun /\ FilesClosed
=============================================================================
