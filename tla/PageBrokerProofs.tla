-------------------------- MODULE PageBrokerProofs --------------------------
(***************************************************************************)
(* Proofs about PageBroker, for any processes, threads, nodes and number   *)
(* of blocks.                                                              *)
(***************************************************************************)
EXTENDS PageBroker, TLAPS, FiniteSetTheorems

\* Queries are those of living threads.
Asking == \A q \in asking : q.pid = PidOf[q.thread] /\ q.pid \in alive

\* Whoever uses a block lives, and the block is lent to a handle of it.
Holders ==
    \A t \in Threads : \A b \in using[t] :
        PidOf[t] \notin Denied =>
            /\ PidOf[t] \in alive
            /\ [handle |-> <<PidOf[t], run[PidOf[t]]>>, block |-> b] \in list

\* While a query is served nothing is lent to NULL once free has run.
NullTaken == freed => \A e \in list : e.handle # Null

IInv == TypeOK /\ NoBlockLost /\ BlocksExclusive /\ Asking /\ Holders /\ NullTaken


USE ThreadsAssumption, NodesAssumption, BlocksAssumption, RunsAssumption

-----------------------------------------------------------------------------
(* Types *)

LEMMA TypeInit == Init => TypeOK
<1> SUFFICES ASSUME Init PROVE TypeOK  OBVIOUS
<1>1. run \in [Pids -> 1 .. MaxRuns]  BY DEF Init
<1>2. size \in [Nodes -> 0 .. MaxBlocks]  BY DEF Init
<1>3. Cardinality(serving) <= 1  BY FS_EmptySet DEF Init
<1>4. QED  BY <1>1, <1>2, <1>3 DEF Init, TypeOK

\* What Alloc offers is a block of the node: free, or the one after the last.
LEMMA AllocBlock ==
    ASSUME TypeOK, NEW n \in Nodes \cup {NoNode}, NEW b \in Alloc(n)
    PROVE  /\ b \in Blocks /\ b[1] \in Nodes /\ b[2] \in 1 .. MaxBlocks
           /\ b \in free \/ (b = <<b[1], size[b[1]] + 1>> /\ b[2] = size[b[1]] + 1)
<1>1. n \in Nodes  BY DEF Alloc
<1>2. size[n] \in 0 .. MaxBlocks /\ free \subseteq Blocks  BY <1>1 DEF TypeOK
<1>3. CASE b \in free  BY <1>2, <1>3 DEF Blocks
<1>4. CASE b \notin free
  <2>1. b = <<n, size[n] + 1>> /\ size[n] < MaxBlocks  BY <1>1, <1>4 DEF Alloc
  <2>2. QED  BY <1>1, <1>2, <2>1 DEF Blocks
<1>5. QED  BY <1>3, <1>4

LEMMA ReplyTypes ==
    ASSUME TypeOK, NEW q \in serving, NEW memory \in SUBSET Blocks, Reply(q, memory)
    PROVE  /\ using' \in [Threads -> SUBSET Blocks] /\ own' \subseteq Threads
           /\ asking' \subseteq Queries /\ serving' = {} /\ freed' = FALSE
           /\ Cardinality(serving') <= 1
<1>1. q.thread \in Threads  BY DEF TypeOK, Queries
<1>2. Cardinality({}) = 0  BY FS_EmptySet
<1>3. QED  BY <1>1, <1>2 DEF TypeOK, Reply

LEMMA TypeStep == TypeOK /\ [Next]_vars => TypeOK'
<1> SUFFICES ASSUME TypeOK, [Next]_vars PROVE TypeOK'  OBVIOUS
<1>1. ASSUME NEW p \in Pids, StartWrapper(p) PROVE TypeOK'
  BY <1>1 DEF StartWrapper, TypeOK
<1>2. ASSUME NEW p \in Pids, WrapperDies(p) PROVE TypeOK'
  BY <1>2 DEF WrapperDies, TypeOK
<1>3. ASSUME NEW t \in Threads, NEW n \in Nodes \cup {NoNode}, Ask(t, n) PROVE TypeOK'
  <2>1. [thread |-> t, pid |-> PidOf[t], node |-> n] \in Queries  BY <1>3 DEF Queries
  <2>2. QED  BY <1>3, <2>1 DEF Ask, TypeOK
<1>4. ASSUME NEW q \in asking, GiveUp(q) PROVE TypeOK'
  BY <1>4 DEF GiveUp, TypeOK, Queries
<1>5. ASSUME NEW q \in asking, Read(q) PROVE TypeOK'
  <2>1. Cardinality({q}) = 1  BY FS_Singleton
  <2>2. serving' = {q} /\ serving' \subseteq Queries  BY <1>5 DEF Read, TypeOK
  <2>3. Cardinality(serving') <= 1  BY <2>1, <2>2
  <2>4. QED  BY <1>5, <2>2, <2>3 DEF Read, TypeOK
<1>6. CASE Free
  <2>1. free' \subseteq Blocks /\ list' \subseteq list  BY <1>6 DEF Free, FreeDead, TypeOK
  <2>2. QED  BY <1>6, <2>1 DEF Free, TypeOK
<1>7. ASSUME NEW q \in serving, Refuse(q) PROVE TypeOK'
  <2>1. Reply(q, {})  BY <1>7 DEF Refuse
  <2>2. QED  BY <1>7, <2>1, ReplyTypes DEF Refuse, TypeOK, Reply
<1>8. ASSUME NEW q \in serving, NEW b \in Blocks, Lend(q, b) PROVE TypeOK'
  <2>1. q \in Queries /\ q.node \in Nodes \cup {NoNode} /\ q.pid \in Pids  BY DEF TypeOK, Queries
  <2>2. PICK memory \in {{b}, {}} : Reply(q, memory)  BY <1>8 DEF Lend
  <2>3. /\ using' \in [Threads -> SUBSET Blocks] /\ own' \subseteq Threads
        /\ asking' \subseteq Queries /\ serving' = {} /\ freed' = FALSE
        /\ Cardinality(serving') <= 1
    BY <2>2, ReplyTypes
  <2>4. alive' \subseteq Pids /\ run' \in [Pids -> 1 .. MaxRuns]  BY <2>2 DEF Reply, TypeOK
  <2>5. Opened(q) \subseteq Handles  BY <2>1 DEF Opened, Handles, TypeOK
  <2>6. list' \subseteq [handle : Handles, block : Blocks]
    <3>1. PICK h \in Opened(q) :
            list' = {e \in list : e.handle # Null \/ h # Null} \cup {[handle |-> h, block |-> b]}
      BY <1>8 DEF Lend
    <3>2. QED  BY <2>5, <3>1 DEF TypeOK
  <2>7. size' \in [Nodes -> 0 .. MaxBlocks] /\ free' \subseteq Blocks
    <3>1. b[1] \in Nodes /\ b[2] \in 1 .. MaxBlocks  BY DEF Blocks
    <3>2. QED  BY <1>8, <3>1 DEF Lend, TypeOK
  <2>8. QED  BY <2>3, <2>4, <2>6, <2>7 DEF TypeOK
<1>9. CASE UNCHANGED vars  BY <1>9 DEF vars, TypeOK
<1>10. QED
  BY <1>1, <1>2, <1>3, <1>4, <1>5, <1>6, <1>7, <1>8, <1>9 DEF Next

\* In every reachable state the variables of the broker and the wrappers have
\* their types, and at most one query is served.
THEOREM TypeCorrect == Spec => []TypeOK
<1>1. QED  BY TypeInit, TypeStep, PTL DEF Spec

-----------------------------------------------------------------------------
(* The blocks *)

LEMMA InvInit == Init => IInv
<1> SUFFICES ASSUME Init PROVE IInv  OBVIOUS
<1>1. TypeOK  BY TypeInit
<1>2. \A t \in Threads : using[t] = {}  BY DEF Init
<1>3. NoBlockLost  BY DEF Init, NoBlockLost
<1>4. BlocksExclusive /\ Holders  BY <1>2 DEF BlocksExclusive, Holders
<1>5. Asking /\ NullTaken  BY DEF Init, Asking, NullTaken
<1>6. QED  BY <1>1, <1>3, <1>4, <1>5 DEF IInv

\* A handle to a living process is alive.
LEMMA LivingHandle ==
    ASSUME TypeOK, NEW p \in alive
    PROVE  <<p, run[p]>> # Null /\ IsProcessAlive(<<p, run[p]>>)
<1>1. p \in Pids /\ run[p] \in Nat  BY DEF TypeOK
<1>2. QED  BY <1>1 DEF IsProcessAlive

\* free takes back exactly what it takes off the list.
LEMMA FreeKeeps ==
    ASSUME IInv, Free
    PROVE  NoBlockLost' /\ Holders' /\ NullTaken'
<1> DEFINE dead == {e \in list : ~IsProcessAlive(e.handle)}
<1>1. /\ list' = list \ dead /\ free' = free \cup {e.block : e \in dead}
      /\ alive' = alive /\ run' = run /\ using' = using /\ size' = size
  BY DEF Free, FreeDead
<1>2. NoBlockLost'
  <2>1. free' \cup {e.block : e \in list'} = free \cup {e.block : e \in list}  BY <1>1
  <2>2. \A e \in list' : e.block \notin free'  BY <1>1 DEF IInv, NoBlockLost
  <2>3. QED  BY <1>1, <2>1, <2>2 DEF IInv, NoBlockLost, Blocks
<1>3. Holders'
  <2>1. SUFFICES ASSUME NEW t \in Threads, NEW b \in using[t], PidOf[t] \notin Denied
                 PROVE  /\ PidOf[t] \in alive
                        /\ [handle |-> <<PidOf[t], run[PidOf[t]]>>, block |-> b] \in list'
    BY <1>1 DEF Holders
  <2>2. /\ PidOf[t] \in alive
        /\ [handle |-> <<PidOf[t], run[PidOf[t]]>>, block |-> b] \in list
    BY <2>1 DEF IInv, Holders
  <2>3. IsProcessAlive(<<PidOf[t], run[PidOf[t]]>>)  BY <2>2, LivingHandle DEF IInv
  <2>4. QED  BY <1>1, <2>2, <2>3
<1>4. NullTaken'
  <2>1. \A e \in list' : IsProcessAlive(e.handle)  BY <1>1
  <2>2. QED  BY <2>1 DEF NullTaken, IsProcessAlive
<1>5. QED  BY <1>2, <1>3, <1>4

\* A block offered is lent to nobody, so nobody the broker could open uses it.
LEMMA OfferedIsUnused ==
    ASSUME IInv, NEW n \in Nodes \cup {NoNode}, NEW b \in Alloc(n)
    PROVE  /\ \A e \in list : e.block # b
           /\ \A t \in Threads : b \in using[t] => PidOf[t] \in Denied
<1>1. \A e \in list : e.block # b
  <2>1. /\ b \in Blocks /\ b[1] \in Nodes
        /\ b \in free \/ (b = <<b[1], size[b[1]] + 1>> /\ b[2] = size[b[1]] + 1)
    BY AllocBlock DEF IInv
  <2>2. CASE b \in free  BY <2>2 DEF IInv, NoBlockLost
  <2>3. CASE b[2] = size[b[1]] + 1
    <3>1. ~(b[2] <= size[b[1]])  BY <2>1, <2>3 DEF IInv, TypeOK
    <3>2. b \notin {e.block : e \in list}  BY <3>1 DEF IInv, NoBlockLost
    <3>3. QED  BY <3>2
  <2>4. QED  BY <2>1, <2>2, <2>3
<1>2. QED  BY <1>1 DEF IInv, Holders

\* Lending moves one block from the free ones, or a new one, to the list.
LEMMA LendKeeps ==
    ASSUME IInv, NEW q \in serving, NEW b \in Blocks, Lend(q, b)
    PROVE  NoBlockLost'
<1>1. PICK h \in Opened(q) :
        list' = {e \in list : e.handle # Null \/ h # Null} \cup {[handle |-> h, block |-> b]}
  BY DEF Lend
<1> DEFINE new == [handle |-> h, block |-> b]
<1>2. list' = list \cup {new}  BY <1>1 DEF Lend, IInv, NullTaken
<1>3. q.node \in Nodes \cup {NoNode} /\ b \in Alloc(q.node)  BY DEF Lend, IInv, TypeOK, Queries
<1>4. \A e \in list : e.block # b  BY <1>3, OfferedIsUnused
<1>5. new.block = b  OBVIOUS
<1> HIDE DEF new
<1>6. free' = free \ {b}  BY DEF Lend
<1>7. \A e \in list' : e.block \notin free'
  BY <1>2, <1>4, <1>5, <1>6 DEF IInv, NoBlockLost
<1>8. \A d, e \in list' : d.block = e.block => d = e
  BY <1>2, <1>4, <1>5 DEF IInv, NoBlockLost
<1>9. free' \cup {e.block : e \in list'} = free \cup {e.block : e \in list} \cup {b}
  BY <1>2, <1>5, <1>6
<1>10. {c \in Blocks : c[2] <= size'[c[1]]} = {c \in Blocks : c[2] <= size[c[1]]} \cup {b}
  <2>1. b \in Blocks /\ b[1] \in Nodes /\ b[2] \in 1 .. MaxBlocks
    BY <1>3, AllocBlock DEF IInv
  <2>2. b \in free \/ (b = <<b[1], size[b[1]] + 1>> /\ b[2] = size[b[1]] + 1)
    BY <1>3, AllocBlock DEF IInv
  <2>3. size \in [Nodes -> 0 .. MaxBlocks]  BY DEF IInv, TypeOK
  <2>4. CASE b \in free
    <3>1. b[2] <= size[b[1]]  BY <2>4 DEF IInv, NoBlockLost
    <3>2. size' = size  BY <2>1, <2>3, <3>1 DEF Lend
    <3>3. QED  BY <2>1, <3>1, <3>2
  <2>5. CASE b = <<b[1], size[b[1]] + 1>> /\ b[2] = size[b[1]] + 1
    <3>1. size' = [size EXCEPT ![b[1]] = b[2]]  BY <2>1, <2>3, <2>5 DEF Lend
    <3>2. \A c \in Blocks : c[2] <= size'[c[1]] <=> c[2] <= size[c[1]] \/ c = b
      <4>1. SUFFICES ASSUME NEW c \in Blocks
                     PROVE  c[2] <= size'[c[1]] <=> c[2] <= size[c[1]] \/ c = b
        OBVIOUS
      <4>2. c[1] \in Nodes /\ c[2] \in 1 .. MaxBlocks /\ c = <<c[1], c[2]>>  BY DEF Blocks
      <4>3. CASE c[1] = b[1]
        <5>1. size'[c[1]] = size[c[1]] + 1  BY <2>1, <2>3, <2>5, <3>1, <4>3
        <5>2. c = b <=> c[2] = size[c[1]] + 1  BY <2>5, <4>2, <4>3
        <5>3. size[c[1]] \in Nat /\ c[2] \in Nat  BY <2>3, <4>2
        <5>4. QED  BY <5>1, <5>2, <5>3
      <4>4. CASE c[1] # b[1]  BY <2>1, <2>3, <3>1, <4>2, <4>4
      <4>5. QED  BY <4>3, <4>4
    <3>3. QED  BY <2>1, <3>2
  <2>6. QED  BY <2>2, <2>4, <2>5
<1>11. free' \cup {e.block : e \in list'} = {c \in Blocks : c[2] <= size'[c[1]]}
  BY <1>9, <1>10 DEF IInv, NoBlockLost
<1>12. QED  BY <1>7, <1>8, <1>11 DEF NoBlockLost, Blocks

\* The thread that is answered may take what is lent to its handle.
LEMMA ReplyKeeps ==
    ASSUME IInv, NEW q \in serving, NEW memory \in SUBSET Blocks, Reply(q, memory),
           q \in asking => \A b \in memory :
               /\ \A t \in Threads : b \in using[t] => PidOf[t] \in Denied
               /\ q.pid \notin Denied =>
                    [handle |-> <<q.pid, run[q.pid]>>, block |-> b] \in list',
           \A t \in Threads : \A b \in using[t] : PidOf[t] \notin Denied =>
               [handle |-> <<PidOf[t], run[PidOf[t]]>>, block |-> b] \in list'
    PROVE  BlocksExclusive' /\ Asking' /\ Holders' /\ NullTaken'
<1>1. q.thread \in Threads  BY DEF IInv, TypeOK, Queries
<1>2. using \in [Threads -> SUBSET Blocks]  BY DEF IInv, TypeOK
<1>3. alive' = alive /\ run' = run /\ asking' = asking \ {q} /\ freed' = FALSE  BY DEF Reply
<1>4. \A t \in Threads :
        using'[t] = IF q \in asking /\ t = q.thread THEN memory ELSE using[t]
  BY <1>1, <1>2 DEF Reply
<1>5. q \in asking => q.pid = PidOf[q.thread] /\ q.pid \in alive  BY DEF IInv, Asking
<1>6. BlocksExclusive'
  <2>1. SUFFICES ASSUME NEW t \in Threads, NEW u \in Threads, t # u,
                        NEW b, b \in using'[t], b \in using'[u]
                 PROVE  PidOf[t] \in Denied \/ PidOf[u] \in Denied
    BY DEF BlocksExclusive
  <2>2. CASE q \in asking /\ t = q.thread
    <3>1. b \in memory /\ b \in using[u]  BY <1>4, <2>1, <2>2
    <3>2. QED  BY <2>2, <3>1
  <2>3. CASE q \in asking /\ u = q.thread
    <3>1. b \in memory /\ b \in using[t]  BY <1>4, <2>1, <2>3
    <3>2. QED  BY <2>3, <3>1
  <2>4. CASE ~(q \in asking /\ t = q.thread) /\ ~(q \in asking /\ u = q.thread)
    <3>1. b \in using[t] /\ b \in using[u]  BY <1>4, <2>1, <2>4
    <3>2. QED  BY <2>1, <3>1 DEF IInv, BlocksExclusive
  <2>5. QED  BY <2>2, <2>3, <2>4
<1>7. Holders'
  <2>1. SUFFICES ASSUME NEW t \in Threads, NEW b \in using'[t], PidOf[t] \notin Denied
                 PROVE  /\ PidOf[t] \in alive
                        /\ [handle |-> <<PidOf[t], run[PidOf[t]]>>, block |-> b] \in list'
    BY <1>3 DEF Holders
  <2>2. CASE q \in asking /\ t = q.thread
    <3>1. b \in memory  BY <1>4, <2>2
    <3>2. QED  BY <1>5, <2>1, <2>2, <3>1
  <2>3. CASE ~(q \in asking /\ t = q.thread)
    <3>1. b \in using[t]  BY <1>4, <2>3
    <3>2. QED  BY <2>1, <3>1 DEF IInv, Holders
  <2>4. QED  BY <2>2, <2>3
<1>8. Asking' /\ NullTaken'
  BY <1>3 DEF IInv, Asking, NullTaken
<1>9. QED  BY <1>6, <1>7, <1>8

LEMMA InvStep == IInv /\ [Next]_vars => IInv'
<1> SUFFICES ASSUME IInv, [Next]_vars PROVE IInv'  OBVIOUS
<1> USE DEF IInv
<1>0. TypeOK'  BY TypeStep
<1>1. ASSUME NEW p \in Pids, StartWrapper(p) PROVE IInv'
  <2>1. PICK r \in 1 .. MaxRuns : run' = [run EXCEPT ![p] = r]  BY <1>1 DEF StartWrapper
  <2>2. p \notin alive /\ alive' = alive \cup {p} /\ run \in [Pids -> 1 .. MaxRuns]
    BY <1>1 DEF StartWrapper, TypeOK
  <2>3. Holders'
    <3>1. SUFFICES ASSUME NEW t \in Threads, NEW b \in using[t], PidOf[t] \notin Denied
                   PROVE  /\ PidOf[t] \in alive'
                          /\ [handle |-> <<PidOf[t], run'[PidOf[t]]>>, block |-> b] \in list
      BY <1>1 DEF StartWrapper, Holders
    <3>2. /\ PidOf[t] \in alive
          /\ [handle |-> <<PidOf[t], run[PidOf[t]]>>, block |-> b] \in list
      BY <3>1 DEF Holders
    <3>3. PidOf[t] # p /\ PidOf[t] \in Pids  BY <2>2, <3>2
    <3>4. QED  BY <2>1, <2>2, <3>2, <3>3
  <2>4. NoBlockLost' /\ BlocksExclusive' /\ Asking' /\ NullTaken'
    BY <1>1, <2>2 DEF StartWrapper, NoBlockLost, Blocks, BlocksExclusive, Asking, NullTaken
  <2>5. QED  BY <1>0, <2>3, <2>4
<1>2. ASSUME NEW p \in Pids, WrapperDies(p) PROVE IInv'
  <2>1. \A t \in Threads : using'[t] = IF PidOf[t] = p THEN {} ELSE using[t]
    BY <1>2 DEF WrapperDies
  <2>2. alive' = alive \ {p} /\ run' = run /\ list' = list  BY <1>2 DEF WrapperDies
  <2>3. BlocksExclusive' /\ Holders'  BY <2>1, <2>2 DEF BlocksExclusive, Holders
  <2>4. NoBlockLost' /\ Asking' /\ NullTaken'
    BY <1>2 DEF WrapperDies, NoBlockLost, Blocks, Asking, NullTaken
  <2>5. QED  BY <1>0, <2>3, <2>4
<1>3. ASSUME NEW t \in Threads, NEW n \in Nodes \cup {NoNode}, Ask(t, n) PROVE IInv'
  <2>1. Asking'  BY <1>3 DEF Ask, Asking
  <2>2. NoBlockLost' /\ BlocksExclusive' /\ Holders' /\ NullTaken'
    BY <1>3 DEF Ask, NoBlockLost, Blocks, BlocksExclusive, Holders, NullTaken
  <2>3. QED  BY <1>0, <2>1, <2>2
<1>4. ASSUME NEW q \in asking, GiveUp(q) \/ Read(q) PROVE IInv'
  <2>1. Asking' /\ NullTaken'  BY <1>4 DEF GiveUp, Read, Asking, NullTaken
  <2>2. NoBlockLost' /\ BlocksExclusive' /\ Holders'
    BY <1>4 DEF GiveUp, Read, NoBlockLost, Blocks, BlocksExclusive, Holders
  <2>3. QED  BY <1>0, <2>1, <2>2
<1>5. CASE Free
  <2>1. NoBlockLost' /\ Holders' /\ NullTaken'  BY <1>5, FreeKeeps
  <2>2. BlocksExclusive' /\ Asking'  BY <1>5 DEF Free, BlocksExclusive, Asking
  <2>3. QED  BY <1>0, <2>1, <2>2
<1>6. ASSUME NEW q \in serving, Refuse(q) PROVE IInv'
  <2>1. Reply(q, {}) /\ list' = list /\ free' = free /\ size' = size  BY <1>6 DEF Refuse
  <2>2. BlocksExclusive' /\ Asking' /\ Holders' /\ NullTaken'
    <3>1. {} \in SUBSET Blocks  OBVIOUS
    <3>2. QED  BY <2>1, <3>1, ReplyKeeps DEF Holders
  <2>3. NoBlockLost'  BY <2>1 DEF NoBlockLost, Blocks
  <2>4. QED  BY <1>0, <2>2, <2>3
<1>7. ASSUME NEW q \in serving, NEW b \in Blocks, Lend(q, b) PROVE IInv'
  <2>1. NoBlockLost'  BY <1>7, LendKeeps
  <2>2. PICK memory \in {{b}, {}} : Reply(q, memory)  BY <1>7 DEF Lend
  <2>3. PICK h \in Opened(q) :
          list' = {e \in list : e.handle # Null \/ h # Null} \cup {[handle |-> h, block |-> b]}
    BY <1>7 DEF Lend
  <2>4. list' = list \cup {[handle |-> h, block |-> b]}
    BY <1>7, <2>3 DEF Lend, NullTaken
  <2>5. \A t \in Threads : b \in using[t] => PidOf[t] \in Denied
    <3>1. q.node \in Nodes \cup {NoNode} /\ b \in Alloc(q.node)
      BY <1>7 DEF Lend, TypeOK, Queries
    <3>2. QED  BY <3>1, OfferedIsUnused
  <2>6. q \in asking /\ q.pid \notin Denied => h = <<q.pid, run[q.pid]>>
    BY DEF Asking, Opened
  <2>7. memory \in SUBSET Blocks /\ memory \subseteq {b}  BY <2>2
  <2>8. \A t \in Threads : \A c \in using[t] : PidOf[t] \notin Denied =>
          [handle |-> <<PidOf[t], run[PidOf[t]]>>, block |-> c] \in list'
    BY <2>4 DEF Holders
  <2>9. q \in asking => \A c \in memory :
          /\ \A t \in Threads : c \in using[t] => PidOf[t] \in Denied
          /\ q.pid \notin Denied => [handle |-> <<q.pid, run[q.pid]>>, block |-> c] \in list'
    BY <2>4, <2>5, <2>6, <2>7
  <2>10. BlocksExclusive' /\ Asking' /\ Holders' /\ NullTaken'
    BY <2>2, <2>7, <2>8, <2>9, ReplyKeeps
  <2>11. QED  BY <1>0, <2>1, <2>10
<1>8. CASE UNCHANGED vars
  <2>1. NoBlockLost' /\ BlocksExclusive'
    BY <1>8 DEF vars, NoBlockLost, Blocks, BlocksExclusive
  <2>2. Asking' /\ Holders' /\ NullTaken'  BY <1>8 DEF vars, Asking, Holders, NullTaken
  <2>3. QED  BY <1>0, <2>1, <2>2
<1>9. QED
  BY <1>1, <1>2, <1>3, <1>4, <1>5, <1>6, <1>7, <1>8 DEF Next

LEMMA InvAlways == Spec => []IInv
<1>1. QED  BY InvInit, InvStep, PTL DEF Spec

\* Two threads never use the same block, whatever dies between query and
\* answer and whichever process ids are used again, unless the broker could
\* not open one of their processes.
THEOREM BlocksAreExclusive == Spec => []BlocksExclusive
<1>1. IInv => BlocksExclusive  BY DEF IInv
<1>2. QED  BY <1>1, InvAlways, PTL

\* Every block made is free or lent to exactly one handle.
THEOREM BlocksAreKept == Spec => []NoBlockLost
<1>1. IInv => NoBlockLost  BY DEF IInv
<1>2. QED  BY <1>1, InvAlways, PTL

=============================================================================
