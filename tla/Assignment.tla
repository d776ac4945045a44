----------------------------- MODULE Assignment -----------------------------
(***************************************************************************)
(* What StratumProxy promises the machines and the pools, without saying   *)
(* how: every machine is with one open pool or waits in one queue, first   *)
(* come first served; a pool has at most MaxWorkersCount machines; a       *)
(* machine leaves its pool only by disconnecting or because the pool is    *)
(* lost, and then it queues at the back.  How many pools are opened, when, *)
(* for which settings, and what the counters are for is left to the code.  *)
(***************************************************************************)
EXTENDS Integers, Sequences, FiniteSets, SequencesExt

CONSTANTS Workers, Clients, NoPool, MaxWorkersCount

VARIABLES
    machines,   \* those connected
    place,      \* the pool of a machine, NoPool while it waits or is gone
    queue,      \* the waiting machines
    open        \* the connected pools

vars == <<machines, place, queue, open>>

Members(c, pl) == {w \in Workers : pl[w] = c}

\* A prefix of the queue q goes to pools of `ps', the others wait on.
Serve(q, ps) ==
    \E k \in 0..Len(q) :
        /\ queue' = SubSeq(q, k + 1, Len(q))
        /\ place' \in [Workers -> Clients \cup {NoPool}]
        /\ \A w \in Workers :
             IF \E i \in 1..k : q[i] = w THEN place'[w] \in ps ELSE place'[w] = place[w]
        /\ \A c \in ps : Cardinality(Members(c, place')) <= MaxWorkersCount

Arrive(w) ==
    /\ w \notin machines
    /\ machines' = machines \cup {w}
    /\ Serve(Append(queue, w), open)
    /\ UNCHANGED open

Depart(w) ==
    /\ w \in machines
    /\ machines' = machines \ {w}
    /\ place' = [place EXCEPT ![w] = NoPool]
    /\ IF place[w] = NoPool
       THEN \E i \in DOMAIN queue : queue[i] = w /\ queue' = RemoveAt(queue, i)
       ELSE UNCHANGED queue
    /\ UNCHANGED open

\* A pool is there, with nobody in it.
Open(c) ==
    /\ c \notin open
    /\ open' = open \cup {c}
    /\ Serve(queue, open')
    /\ UNCHANGED machines

\* A pool is lost: its machines, in some order, wait behind the others.
Lose(c) ==
    /\ c \in open
    /\ open' = open \ {c}
    /\ place' = [w \in Workers |-> IF place[w] = c THEN NoPool ELSE place[w]]
    /\ \E back \in [1..Cardinality(Members(c, place)) -> Workers] :
         /\ {back[i] : i \in DOMAIN back} = Members(c, place)
         /\ queue' = queue \o back
    /\ UNCHANGED machines

Init ==
    /\ machines = {}
    /\ place = [w \in Workers |-> NoPool]
    /\ queue = <<>>
    /\ open = {}

Next ==
    \/ \E w \in Workers : Arrive(w) \/ Depart(w)
    \/ \E c \in Clients : Open(c) \/ Lose(c)

Spec == Init /\ [][Next]_vars

=============================================================================
