---------------------------- MODULE StratumProxy ----------------------------
(***************************************************************************)
(* The stratum proxy of the control server (ControlServer/StratumProxy.js) *)
(* together with the life of the pool connections it owns (StratumClient   *)
(* on JsonRpcClient on NetClient) and of the mining machines connected to  *)
(* WorkersServer.                                                          *)
(*                                                                         *)
(* The server is one Node.js process: every event handler, with all the    *)
(* events it emits synchronously, runs to completion.  One action is one   *)
(* such handler; what interleaves are socket events, the 5 s loop and the  *)
(* commands of WebControl.  A socket that was told to close raises its     *)
(* "close" event only later, in a turn of its own, and in between the      *)
(* proxy still holds the client: that window is what this module explores. *)
(***************************************************************************)
EXTENDS Integers, Sequences, FiniteSets, SequencesExt

CONSTANTS
    Workers,          \* ids of connections from mining machines
    Clients,          \* ids of StratumClient objects
    PoolInfos,        \* pool settings a command may select
    BadPoolInfos,     \* those whose address or settings StratumClient refuses
    NoPool,           \* JavaScript's null
    MaxWorkersCount   \* StratumProxy.maxWorkersCount (1e6 in the code)

\* Ids come from one global counter and are the keys of the objects the
\* handlers iterate over, in increasing order.  An id of the model is used
\* again once nothing refers to it any more.
ASSUME WorkersAssumption == Workers \subseteq Nat /\ IsFiniteSet(Workers)
ASSUME ClientsAssumption == Clients \subseteq Nat /\ IsFiniteSet(Clients)
ASSUME PoolInfosAssumption == BadPoolInfos \subseteq PoolInfos
ASSUME NoPoolAssumption == NoPool \notin Clients /\ NoPool \notin PoolInfos
ASSUME MaxWorkersCountAssumption == MaxWorkersCount \in Nat \ {0}

VARIABLES
    phase,               \* of a client's socket: "none", "opening", "connected"
    destroyed,           \* clients whose socket was told to close (NetClient)
    options,             \* the settings a live client was created with
    pool_connect_info,   \* the selected settings, NoPool when stopped
    workers,             \* keys of StratumProxy.workers
    workerPool,          \* WrapperWorker.pool
    freeWorkers,         \* StratumProxy.freeWorkers
    pools,               \* keys of StratumProxy.pools
    poolWorkers,         \* keys of WrapperPool.workers
    workersCount,        \* WrapperPool.workersCount
    openNoConnectPools   \* keys of StratumProxy.openNoConnectPools

clientVars == <<phase, destroyed, options>>
assignVars == <<workerPool, freeWorkers, poolWorkers, workersCount>>
vars == <<phase, destroyed, options, pool_connect_info, workers, workerPool,
          freeWorkers, pools, poolWorkers, workersCount, openNoConnectPools>>

-----------------------------------------------------------------------------
(* Helpers *)

Live == {c \in Clients : phase[c] # "none"}

\* What StratumProxy can reach with a disconnect command.
Held == pools \cup openNoConnectPools

Ceil(n, d) == (n + d - 1) \div d

\* The keys of an object in the order of for(let i in ...).
InKeyOrder(S) ==
    {s \in [1..Cardinality(S) -> S] :
        /\ \A i, j \in DOMAIN s : i < j => s[i] < s[j]
        /\ S \subseteq {s[i] : i \in DOMAIN s}}

-----------------------------------------------------------------------------
(* StratumProxy.freeWorkersToPools.  The loop offers the queue, front      *)
(* first, to each pool in key order; a pool takes workers until addWorker  *)
(* refuses.  Its outcome: to[i] is the pool of the i-th free worker, and   *)
(* the workers with an entry leave the queue.                              *)

Taken(to, p) == {i \in DOMAIN to : to[i] = p}

\* The outcomes of the loop for a queue of n workers, pools ps holding cnt.
Distributions(n, ps, cnt) ==
    {to \in UNION {[1..k -> ps] : k \in 0..n} :
        /\ \A i, j \in DOMAIN to : i <= j => to[i] <= to[j]
        \* addWorker accepts only below maxWorkersCount
        /\ \A p \in ps :
            Taken(to, p) = {} \/ cnt[p] + Cardinality(Taken(to, p)) <= MaxWorkersCount
        \* a worker is kept back, or offered to the next pool, after a refusal
        /\ \A p \in ps :
            cnt[p] + Cardinality(Taken(to, p)) < MaxWorkersCount =>
                DOMAIN to = 1..n /\ \A i \in DOMAIN to : to[i] <= p}

\* The loop call by call: what is given away after k offers of a worker, the
\* pools taken in the key order `order', the next offer made by order[at].
Offers(order, n, cnt) ==
    LET call[k \in 0 .. n + Len(order)] ==
          IF k = 0 THEN [at |-> 1, to |-> <<>>]
          ELSE LET at == call[k - 1].at
                   to == call[k - 1].to
               IN IF at > Len(order) \/ Len(to) = n THEN call[k - 1]
                  ELSE IF cnt[order[at]] + Cardinality(Taken(to, order[at])) < MaxWorkersCount
                  THEN [at |-> at, to |-> Append(to, order[at])]
                  ELSE [at |-> at + 1, to |-> to]
    IN call

\* The three maps after the distribution `to' of a queue.
PoolsGiven(to, queue, wPool) ==
    [w \in Workers |->
        IF \E i \in DOMAIN to : queue[i] = w
        THEN to[CHOOSE i \in DOMAIN to : queue[i] = w] ELSE wPool[w]]
WorkersGiven(to, queue, pWorkers) ==
    [p \in Clients |-> pWorkers[p] \cup {queue[i] : i \in Taken(to, p)}]
CountsGiven(to, wCount) ==
    [p \in Clients |-> wCount[p] + Cardinality(Taken(to, p))]

\* Distributes `queue' over the pools ps, the other maps being as given.
FreeWorkersToPools(queue, ps, wPool, pWorkers, wCount) ==
    \E to \in Distributions(Len(queue), ps, wCount) :
        /\ freeWorkers' = SubSeq(queue, Len(to) + 1, Len(queue))
        /\ workerPool' = PoolsGiven(to, queue, wPool)
        /\ poolWorkers' = WorkersGiven(to, queue, pWorkers)
        /\ workersCount' = CountsGiven(to, wCount)

-----------------------------------------------------------------------------
(* Pool connections *)

\* Opens `count' clients for the settings `info'.
OpenClients(count, info) ==
    \E new \in SUBSET (Clients \ Live) :
        /\ Cardinality(new) = count
        /\ phase' = [c \in Clients |-> IF c \in new THEN "opening" ELSE phase[c]]
        /\ options' = [c \in Clients |-> IF c \in new THEN info ELSE options[c]]
        /\ openNoConnectPools' = openNoConnectPools \cup new

\* Mutant: the clients still being opened are not counted.
AddPoolAutoForgetsOpening(info) ==
    LET wanted == Ceil(Len(freeWorkers), MaxWorkersCount)
        count  == IF Held = {} /\ wanted = 0 THEN 1 ELSE wanted
    IN IF info \in BadPoolInfos \cup {NoPool} \/ count <= 0
       THEN UNCHANGED <<phase, options, openNoConnectPools>>
       ELSE OpenClients(count, info)

\* Mutant: a client is opened only when there is none.
AddPoolAutoOnlyFirst(info) ==
    IF info \in BadPoolInfos \cup {NoPool} \/ Held # {}
    THEN UNCHANGED <<phase, options, openNoConnectPools>>
    ELSE OpenClients(1, info)

\* addPoolAuto for the settings `info': opens as many clients as the free
\* workers need beyond those being opened, and one if there is none at all.
\* A client with bad settings is opened and closed inside its constructor.
AddPoolAuto(info) ==
    LET wanted == Ceil(Len(freeWorkers), MaxWorkersCount)
                    - Cardinality(openNoConnectPools)
        count  == IF Held = {} /\ wanted = 0 THEN 1 ELSE wanted
    IN IF info \in BadPoolInfos \cup {NoPool} \/ count <= 0
       THEN UNCHANGED <<phase, options, openNoConnectPools>>
       ELSE OpenClients(count, info)

\* Mutant: the clients still being opened are not told to close.
DisconnectConnected == destroyed' = destroyed \cup pools

\* The body of the control:pool:disconnect handler: every client the proxy
\* holds is told to close; its socket does so in a later turn.
DisconnectHeld == destroyed' = destroyed \cup Held

\* setInterval(addPoolAuto, STRATUM_LOOP_CONNECT_POOL_TIMEOUT)
Loop ==
    /\ AddPoolAuto(pool_connect_info)
    /\ UNCHANGED <<destroyed, pool_connect_info, workers, pools, assignVars>>

ControlPoolConnect(info) ==
    /\ DisconnectHeld
    /\ pool_connect_info' = info
    /\ AddPoolAuto(info)
    /\ UNCHANGED <<workers, pools, assignVars>>

ControlPoolDisconnect ==
    /\ DisconnectHeld
    /\ pool_connect_info' = NoPool
    /\ UNCHANGED <<phase, options, workers, pools, openNoConnectPools, assignVars>>

\* The socket connects: poolConnect.  A destroyed socket never does.
PoolConnect(c) ==
    /\ phase[c] = "opening" /\ c \notin destroyed
    /\ phase' = [phase EXCEPT ![c] = "connected"]
    /\ openNoConnectPools' = openNoConnectPools \ {c}
    /\ pools' = pools \cup {c}
    /\ FreeWorkersToPools(freeWorkers, pools', workerPool,
                          [poolWorkers EXCEPT ![c] = {}], [workersCount EXCEPT ![c] = 0])
    /\ UNCHANGED <<destroyed, options, pool_connect_info, workers>>

\* A protocol error or an unanswered request on a connected client: close().
ClientError(c) ==
    /\ phase[c] = "connected" /\ c \notin destroyed
    /\ destroyed' = destroyed \cup {c}
    /\ UNCHANGED <<phase, options, pool_connect_info, workers, pools,
                   openNoConnectPools, assignVars>>

\* Mutant: the wrappers keep pointing to the lost pool.
PoolDisconnectKeepsWrapper(c) ==
    /\ \E back \in InKeyOrder(poolWorkers[c]) : freeWorkers' = freeWorkers \o back
    /\ poolWorkers' = [poolWorkers EXCEPT ![c] = {}]
    /\ workersCount' = [workersCount EXCEPT ![c] = 0]
    /\ pools' = pools \ {c}
    /\ UNCHANGED workerPool

\* Mutant: the workers of c go to the front of the queue.
PoolDisconnectUnshift(c) ==
    /\ \E back \in InKeyOrder(poolWorkers[c]) : freeWorkers' = back \o freeWorkers
    /\ workerPool' = [w \in Workers |->
         IF w \in poolWorkers[c] THEN NoPool ELSE workerPool[w]]
    /\ poolWorkers' = [poolWorkers EXCEPT ![c] = {}]
    /\ workersCount' = [workersCount EXCEPT ![c] = 0]
    /\ pools' = pools \ {c}

\* poolDisconnect: the workers of c return to the queue, in key order.
PoolDisconnect(c) ==
    /\ \E back \in InKeyOrder(poolWorkers[c]) : freeWorkers' = freeWorkers \o back
    /\ workerPool' = [w \in Workers |->
         IF w \in poolWorkers[c] THEN NoPool ELSE workerPool[w]]
    /\ poolWorkers' = [poolWorkers EXCEPT ![c] = {}]
    /\ workersCount' = [workersCount EXCEPT ![c] = 0]
    /\ pools' = pools \ {c}

\* Mutant: the close event does not reach poolClose.
SocketCloseNoPoolClose(c) ==
    /\ phase[c] # "none"
    /\ IF phase[c] = "connected" THEN PoolDisconnect(c) ELSE UNCHANGED <<pools, assignVars>>
    /\ phase' = [phase EXCEPT ![c] = "none"]
    /\ destroyed' = destroyed \ {c}
    /\ options' = [options EXCEPT ![c] = NoPool]
    /\ UNCHANGED <<pool_connect_info, workers, openNoConnectPools>>

\* The socket's close event: "disconnect" if it was connected, then "close"
\* (poolClose).  The far end or the network may cause it at any time.
SocketClose(c) ==
    /\ phase[c] # "none"
    /\ IF phase[c] = "connected" THEN PoolDisconnect(c) ELSE UNCHANGED <<pools, assignVars>>
    /\ phase' = [phase EXCEPT ![c] = "none"]
    /\ destroyed' = destroyed \ {c}
    /\ options' = [options EXCEPT ![c] = NoPool]
    /\ openNoConnectPools' = openNoConnectPools \ {c}
    /\ UNCHANGED <<pool_connect_info, workers>>

-----------------------------------------------------------------------------
(* Mining machines *)

\* Mutant: a new machine only joins the queue.
WorkerConnectOnlyQueues(w) ==
    /\ w \notin workers
    /\ workers' = workers \cup {w}
    /\ freeWorkers' = Append(freeWorkers, w)
    /\ UNCHANGED <<clientVars, pool_connect_info, pools, openNoConnectPools,
                   workerPool, poolWorkers, workersCount>>

WorkerConnect(w) ==
    /\ w \notin workers
    /\ workers' = workers \cup {w}
    /\ FreeWorkersToPools(Append(freeWorkers, w), pools, workerPool, poolWorkers, workersCount)
    /\ UNCHANGED <<clientVars, pool_connect_info, pools, openNoConnectPools>>

\* Mutant: the counter is left alone.
DelWorkerKeepsCount(p, w) ==
    /\ poolWorkers' = [poolWorkers EXCEPT ![p] = @ \ {w}]
    /\ UNCHANGED workersCount

\* WrapperPool.delWorker
DelWorker(p, w) ==
    /\ poolWorkers' = [poolWorkers EXCEPT ![p] = @ \ {w}]
    /\ workersCount' = [workersCount EXCEPT ![p] = @ - 1]

WorkerDisconnect(w) ==
    /\ w \in workers
    /\ workers' = workers \ {w}
    /\ IF workerPool[w] # NoPool
       THEN DelWorker(workerPool[w], w) ELSE UNCHANGED <<poolWorkers, workersCount>>
    /\ freeWorkers' = IF \E i \in DOMAIN freeWorkers : freeWorkers[i] = w
                      THEN RemoveAt(freeWorkers, CHOOSE i \in DOMAIN freeWorkers : freeWorkers[i] = w)
                      ELSE freeWorkers
    /\ workerPool' = [workerPool EXCEPT ![w] = NoPool]
    /\ UNCHANGED <<clientVars, pool_connect_info, pools, openNoConnectPools>>

-----------------------------------------------------------------------------
Init ==
    /\ phase = [c \in Clients |-> "none"]
    /\ destroyed = {}
    /\ options = [c \in Clients |-> NoPool]
    /\ pool_connect_info = NoPool
    /\ workers = {}
    /\ workerPool = [w \in Workers |-> NoPool]
    /\ freeWorkers = <<>>
    /\ pools = {}
    /\ poolWorkers = [c \in Clients |-> {}]
    /\ workersCount = [c \in Clients |-> 0]
    /\ openNoConnectPools = {}

Next ==
    \/ Loop
    \/ \E info \in PoolInfos : ControlPoolConnect(info)
    \/ ControlPoolDisconnect
    \/ \E c \in Clients : PoolConnect(c) \/ ClientError(c) \/ SocketClose(c)
    \/ \E w \in Workers : WorkerConnect(w) \/ WorkerDisconnect(w)

Spec == Init /\ [][Next]_vars

\* A destroyed socket raises its close event and the timer keeps firing:
\* Node.js promises both.
CloseDestroyed(c) == c \in destroyed /\ SocketClose(c)

NodeFairness ==
    /\ WF_vars(Loop)
    /\ \A c \in Clients : WF_vars(CloseDestroyed(c))

\* The selected pool is reachable often enough for an attempt to succeed:
\* an assumption about the network, not about the code.
PoolReachable == SF_vars(\E c \in Clients : PoolConnect(c))

FairSpec == Spec /\ NodeFairness
ReachableSpec == FairSpec /\ PoolReachable

-----------------------------------------------------------------------------
(* Properties *)

\* Every variable keeps the type the code gives it; in particular a pool's
\* worker counter, decremented by delWorker, never falls below zero.
TypeOK ==
    /\ phase \in [Clients -> {"none", "opening", "connected"}]
    /\ destroyed \subseteq Clients
    /\ options \in [Clients -> PoolInfos \cup {NoPool}]
    /\ pool_connect_info \in PoolInfos \cup {NoPool}
    /\ workers \subseteq Workers
    /\ workerPool \in [Workers -> Clients \cup {NoPool}]
    /\ freeWorkers \in Seq(Workers)
    /\ pools \subseteq Clients
    /\ poolWorkers \in [Clients -> SUBSET Workers]
    /\ workersCount \in [Clients -> Nat]
    /\ openNoConnectPools \subseteq Clients

\* The proxy's two maps hold exactly the live clients, each in the one for
\* its phase, through every order of opening, connecting, being told to close
\* and closing: a client in neither map could never be told to close.
HeldIsLive ==
    /\ pools = {c \in Clients : phase[c] = "connected"}
    /\ openNoConnectPools = {c \in Clients : phase[c] = "opening"}
    /\ destroyed \subseteq Live

\* Every connected machine is in exactly one place: once in the queue of free
\* workers, or among the workers of the one connected pool its wrapper names.
\* A machine that is gone is in none.
WorkersPlaced ==
    /\ \A i, j \in DOMAIN freeWorkers : freeWorkers[i] = freeWorkers[j] => i = j
    /\ Range(freeWorkers) = {w \in workers : workerPool[w] = NoPool}
    /\ \A w \in Workers, c \in Clients :
         w \in poolWorkers[c] <=> w \in workers /\ workerPool[w] = c
    /\ \A c \in Clients : poolWorkers[c] # {} => c \in pools

\* The counter addWorker compares with the limit agrees with the map it
\* counts, and the limit holds.
CountsAgree ==
    \A c \in Clients :
        /\ workersCount[c] = Cardinality(poolWorkers[c])
        /\ workersCount[c] <= MaxWorkersCount

\* Whatever was selected before, a client that was not told to close was
\* opened for the pool selected now: after a switch or a stop no connection
\* to another pool stays in use.
OnlySelectedPool == \A c \in Live \ destroyed : options[c] = pool_connect_info

\* The proxy never holds more connections than the machines could fill, the
\* closing ones included: a reconnect, a switch of pools or the 5 s loop does
\* not pile up connections.
ConnectionBound ==
    LET needed == Ceil(Cardinality(Workers), MaxWorkersCount)
    IN Cardinality(Live) <= IF needed = 0 THEN 1 ELSE needed

\* While one pool is large enough for all machines, none waits in the queue
\* beside a connected pool.
NoneWaitsBesidePool ==
    Cardinality(Workers) <= MaxWorkersCount /\ pools # {} => freeWorkers = <<>>

\* The proxy, with all it opens and closes, is one of the ways to keep the
\* promise of Assignment: first come first served, at most MaxWorkersCount
\* machines on a pool that is connected, and a machine taken from its pool only
\* when one of the two is gone, whatever is selected, refused or lost meanwhile.
Promise == INSTANCE Assignment WITH
    machines <- workers, place <- workerPool, queue <- freeWorkers, open <- pools
KeepsPromise == Promise!Spec

\* With pools reachable, a connected machine does not stay without a pool for
\* ever while one is selected, whatever is switched, lost or refused meanwhile.
WorkersServed ==
    \A w \in Workers :
        w \in Range(freeWorkers) ~>
            w \notin Range(freeWorkers) \/ pool_connect_info \in BadPoolInfos \cup {NoPool}

\* A stop is complete: unless a pool is selected again every connection ends
\* and every machine is free.
StopCompletes ==
    pool_connect_info = NoPool ~>
        \/ Live = {} /\ \A w \in workers : workerPool[w] = NoPool
        \/ pool_connect_info # NoPool

=============================================================================
