----------------------------- MODULE PageBroker -----------------------------
(***************************************************************************)
(* The large-page memory broker (share/cpp/LargePageSharedMemory.cpp, run  *)
(* by BackgroundMemory) and the threads of the wrapper processes that ask  *)
(* it for their scratch memory (yescryptAllocateMemory in Wrapper).  The   *)
(* broker serves one pipe connection at a time, lends blocks of its NUMA   *)
(* nodes, and takes a block back only when the next request finds the      *)
(* borrower's process dead.  Two threads hashing in one block would both   *)
(* compute wrong hashes.                                                   *)
(***************************************************************************)
EXTENDS Integers, FiniteSets

CONSTANTS
    Pids,          \* process ids of wrappers
    Threads,       \* their threads
    PidOf,         \* of a thread
    Denied,        \* processes the broker may not open
    Nodes,         \* NUMA nodes
    NoNode,        \* NUMA_NO_PREFERRED_NODE
    Null,          \* the handle NULL
    Reserved,      \* blocks of a node to be made at the start
    MaxBlocks,     \* bound: blocks of a node the system has memory for
    MaxRuns        \* bound: processes of one id something refers to

ASSUME ThreadsAssumption == PidOf \in [Threads -> Pids] /\ Denied \subseteq Pids
ASSUME NodesAssumption == NoNode \notin Nodes /\ Null \notin Pids \X Nat
ASSUME BlocksAssumption == Reserved \in Nat /\ MaxBlocks \in Nat /\ Reserved <= MaxBlocks
ASSUME RunsAssumption == MaxRuns \in Nat \ {0}

VARIABLES
    alive,      \* process ids in use
    run,        \* of a process id: number of the process that has it, or had it last
    asking,     \* threads with a query: its NUMA node
    using,      \* of a thread: the block it was given, if any
    own,        \* threads with memory of their own
    size,       \* of a node: number of its blocks
    free,       \* blocks with free = true
    list,       \* SharedMemoryMng.list: handles and the blocks lent to them
    serving,    \* the query being served, if any
    freed       \* SharedMemoryMng.free has run for it

vars == <<alive, run, asking, using, own, size, free, list, serving, freed>>

Blocks == Nodes \X (1 .. MaxBlocks)
Handles == (Pids \X (1 .. MaxRuns)) \cup {Null}
Queries == [thread : Threads, pid : Pids, node : Nodes \cup {NoNode}]

-----------------------------------------------------------------------------
(* The wrappers *)

\* The id may have been another process's; a number of the model is used
\* again once no handle refers to it.
StartWrapper(p) ==
    /\ p \notin alive
    /\ alive' = alive \cup {p}
    /\ \E r \in 1 .. MaxRuns :
         /\ \A e \in list : e.handle # <<p, r>>
         /\ run' = [run EXCEPT ![p] = r]
    /\ UNCHANGED <<asking, using, own, size, free, list, serving, freed>>

\* A wrapper ends, with its threads; a query it wrote stays with the broker.
WrapperDies(p) ==
    /\ p \in alive
    /\ alive' = alive \ {p}
    /\ using' = [t \in Threads |-> IF PidOf[t] = p THEN {} ELSE using[t]]
    /\ own' = {t \in own : PidOf[t] # p}
    /\ asking' = {q \in asking : q.pid # p}
    /\ UNCHANGED <<run, size, free, list, serving, freed>>

\* sharedMemoryClient: the thread waits for the pipe, at least until a query
\* left by a former process of its id has been answered.
Ask(t, node) ==
    /\ PidOf[t] \in alive /\ using[t] = {} /\ t \notin own
    /\ \A q \in asking \cup serving : q.thread # t
    /\ asking' = asking \cup {[thread |-> t, pid |-> PidOf[t], node |-> node]}
    /\ UNCHANGED <<alive, run, using, own, size, free, list, serving, freed>>

\* There is no broker, or the pipe stays busy for five seconds.
GiveUp(q) ==
    /\ q \in asking \ serving
    /\ asking' = asking \ {q}
    /\ own' = own \cup {q.thread}
    /\ UNCHANGED <<alive, run, using, size, free, list, serving, freed>>

-----------------------------------------------------------------------------
(* The broker *)

\* ConnectNamedPipe and ReadFile.
Read(q) ==
    /\ serving = {} /\ q \in asking
    /\ serving' = {q} /\ freed' = FALSE
    /\ UNCHANGED <<alive, run, asking, using, own, size, free, list>>

\* isProcessAlive of the handle h; NULL is no process.
IsProcessAlive(h) == h # Null /\ h[1] \in alive /\ run[h[1]] = h[2]

\* Mutant: what was lent to NULL is kept.
FreeNotNull ==
    LET dead == {e \in list : e.handle # Null /\ ~IsProcessAlive(e.handle)}
    IN /\ list' = list \ dead
       /\ free' = free \cup {e.block : e \in dead}

\* Mutant: every block is taken back.
FreeAll == list' = {} /\ free' = free \cup {e.block : e \in list}

\* SharedMemoryMng.free
FreeDead ==
    LET dead == {e \in list : ~IsProcessAlive(e.handle)}
    IN /\ list' = list \ dead
       /\ free' = free \cup {e.block : e \in dead}

Free ==
    /\ serving # {} /\ ~freed
    /\ FreeDead
    /\ freed' = TRUE
    /\ UNCHANGED <<alive, run, asking, using, own, size, serving>>

\* OpenProcess.  The process may be gone, and its id may be another's, or
\* still its own if somebody holds a handle.  It fails with NULL, which the
\* code takes for a handle.
Opened(q) ==
    IF q.pid \in Denied THEN {Null}
    ELSE IF q.pid \in alive THEN {<<q.pid, run[q.pid]>>}
    ELSE {Null, <<q.pid, run[q.pid]>>}

\* The free block with the least index, or a new one if the system gives it.
Alloc(n) ==
    LET least == {b \in free : b[1] = n /\ \A c \in free : c[1] = n => b[2] <= c[2]}
    IN IF n = NoNode THEN {}
       ELSE IF least # {} THEN least
       ELSE IF size[n] < MaxBlocks THEN {<<n, size[n] + 1>>} ELSE {}

\* WriteFile and DisconnectNamedPipe.  The thread takes the block, if there is
\* one, or its own memory, unless its process has died meanwhile.
Reply(q, memory) ==
    /\ serving' = {} /\ freed' = FALSE
    /\ asking' = asking \ {q}
    /\ using' = IF q \in asking THEN [using EXCEPT ![q.thread] = memory] ELSE using
    /\ own' = IF q \in asking /\ memory = {} THEN own \cup {q.thread} ELSE own
    /\ UNCHANGED <<alive, run>>

\* The rest of getMemory with a block: list[hProcess] = name replaces what was
\* lent to that handle; a handle opened again is a new one, except NULL.  The
\* thread may fail to open the block, and then uses its own memory.
Lend(q, b) ==
    /\ q \in serving /\ freed /\ b \in Alloc(q.node)
    /\ \E h \in Opened(q) :
         list' = {e \in list : e.handle # Null \/ h # Null} \cup {[handle |-> h, block |-> b]}
    /\ size' = IF b[2] > size[b[1]] THEN [size EXCEPT ![b[1]] = b[2]] ELSE size
    /\ free' = free \ {b}
    /\ \E memory \in {{b}, {}} : Reply(q, memory)

\* No block is free, and the system has no memory for another.
Refuse(q) ==
    /\ q \in serving /\ freed /\ Alloc(q.node) \cap free = {}
    /\ Reply(q, {})
    /\ UNCHANGED <<size, free, list>>

-----------------------------------------------------------------------------
\* The system may have less memory than is to be reserved.
Init ==
    /\ alive = {} /\ run = [p \in Pids |-> 1]
    /\ asking = {} /\ using = [t \in Threads |-> {}] /\ own = {}
    /\ size \in [Nodes -> 0 .. Reserved]
    /\ free = {b \in Blocks : b[2] <= size[b[1]]}
    /\ list = {} /\ serving = {} /\ freed = FALSE

Next ==
    \/ \E p \in Pids : StartWrapper(p) \/ WrapperDies(p)
    \/ \E t \in Threads, n \in Nodes \cup {NoNode} : Ask(t, n)
    \/ \E q \in asking : GiveUp(q) \/ Read(q)
    \/ Free
    \/ \E q \in serving : Refuse(q) \/ \E b \in Blocks : Lend(q, b)

Spec == Init /\ [][Next]_vars

-----------------------------------------------------------------------------
(* Properties *)

\* The types of the code; at most one query is served.
TypeOK ==
    /\ alive \subseteq Pids /\ run \in [Pids -> 1 .. MaxRuns]
    /\ asking \subseteq Queries
    /\ using \in [Threads -> SUBSET Blocks] /\ own \subseteq Threads
    /\ size \in [Nodes -> 0 .. MaxBlocks]
    /\ free \subseteq Blocks
    /\ list \subseteq [handle : Handles, block : Blocks]
    /\ serving \subseteq Queries /\ Cardinality(serving) <= 1 /\ freed \in BOOLEAN

\* No block is used by two threads at once, although blocks are taken back
\* without asking, processes die between query and answer, and ids are used
\* again; unless the broker could not open the process of one of them.
BlocksExclusive ==
    \A t, u \in Threads :
        t # u /\ using[t] \cap using[u] # {} =>
            PidOf[t] \in Denied \/ PidOf[u] \in Denied

\* No block is lost: each one is free or lent to exactly one handle, also when
\* the borrower was gone, or could not be opened, when it was lent.
NoBlockLost ==
    /\ free \cup {e.block : e \in list} = {b \in Blocks : b[2] <= size[b[1]]}
    /\ \A e \in list : e.block \notin free
    /\ \A d, e \in list : d.block = e.block => d = e

=============================================================================
