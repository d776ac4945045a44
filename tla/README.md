# Perfect-miner: TLA+ models, checks and proofs

Perfect-miner mines the Yenten coin with many machines behind one control
server. This directory models its core logic in TLA+, model-checks it with TLC
on small instances and proves the main safety properties with TLAPS for every
instance. Paths below are relative to `src/src/apps/` unless they start with
`src/`; `CS` is `Control/app/ControlServer`.

## The system

| component | state it keeps | operations | talks to |
|---|---|---|---|
| `CS/StratumProxy.js` | machines, queue of free machines, connected pools with their machines and counters, clients being opened, selected pool | connect/disconnect of machines and pools, 5 s loop, commands connect/disconnect, hand out jobs, forward shares | events of the pool clients, of the workers server, of WebControl |
| `CS/Stratum/StratumClient.js` on `Share/JsonRpc/JsonRpcClient.js` on `Share/Net/*` | current job, extranonce, table of handed-out jobs, expected results, share counters | open, connect, notify, set_difficulty, set_extranonce, getJob, submitShare, close | a pool over TCP; events to the proxy and the statistics |
| `CS/WorkersServer.js` | the TCP connection of a machine, hash counts | app:options / info / share / close, setJob, appStart/Stop | `ControlClient` |
| `CS/WebControl.js` | selected user pool, dev-fee state, failover counters | commands of the page, dev-fee loop, failover | the proxy's commands |
| `CS/WebControlWorkers.js` | per machine: lock, one pending callback, selftest progress | start, stop, options, selftest | `WorkersServer` |
| `Control/app/ControlClient/{Main,Control}.js` | settings, running program, window of jobs, readiness | reconnect, start/close the program, jobs in, shares out | server over TCP, `Startup` over UDP |
| `Startup/main.cpp` | shared memory with a job ring and a share ring, two child processes | start-up handshake, setJob, getShare, liveness of the children | `Control.js` over UDP, `Wrapper` through memory |
| `Wrapper/main.cpp` | mining threads | getJob, nonce counter, submitShare, parent watch | shared memory |
| `src/src/share/cpp/LargePageSharedMemory.cpp`, `BackgroundMemory` | pool of large pages shared by processes | allocate, reuse, free | the wrappers |
| `CS/WebStat/*`, `CS/HashRate.js`, `CS/PackArray.js`, the page's `Pools.js`, `Workers.js`, `Jobs.js`, `UnPackArray.js` | tables of pools, machines and jobs, lists of sockets, archives, hash rates | count events, send changes to sockets, send all at login | events of everything above; the pages |
| shell: `CS/Main.js`, `Common.js`, `StratumConfig.js`, `WebServer.js`, `WebAuth.js`, `Logger.js`, `Dev.js` | settings, sessions | wiring, validation, I/O | all |

The control server is one Node.js process. Components share an `EventEmitter`;
an emit runs all handlers at once, so an event handler with everything it emits
is atomic, and what interleaves are socket events, timers and commands. The
mining side is three processes and many threads around one block of shared
memory, where every access interleaves.

What is hard: a socket told to close stays in the maps until its close event;
commands, lost pools and the 5 s loop all open clients; machines come and go
while pools switch; threads of two processes publish shares out of order and may
die half way; the single pending callback of `WebControlWorkers`; the dev-fee
loop racing the user. `PROJECT.json` lists each hazard at its line with the
properties that watch it.

What makes each component correct:

* proxy: every machine in exactly one place, first come first served; counters
  equal what they count; connections bounded; nothing left working for a pool
  that is not selected; waiting machines get served.
* dev fee, failover and page: the fee in its time only; a stop holds; the pool
  shown as selected is the one worked for; a refused pool is left.
* pool client: no two machines search the same nonces while the pool keeps its
  extranonce; a submitted share carries the job, extranonce and time its header
  was built from; sent shares are accepted, rejected or pending.
* control of machines: lock and pending callback agree; the server's view and
  the machine agree when nothing is on the way; a lock is released, or held for
  one of three known reasons.
* jobs on a machine: a share names the job that was hashed; no nonce is hashed
  twice; only old shares are ignored.
* share ring: shares arrive whole, once, in order; the reader never waits for a
  share nobody will publish; a dead process stops the others.
* page broker: no block lent twice, none lost.
* statistics: the tables, which only count events, agree with the proxy; a page
  shows what its tables hold; an update reaches every page; a cut archive still
  gives whole records.

## Modules

| module | models | checked by | proved in |
|---|---|---|---|
| `Assignment` | the abstract promise of the proxy to machines and pools | as `KeepsPromise` in `MCStratumProxy` | `StratumProxyProofs` |
| `StratumProxy` | assignment of machines to pool connections; life of those connections | `MCStratumProxy` | `StratumProxyProofs` |
| `WebControl` | who selects the pool: page, failover, dev fee; EXTENDS `StratumProxy` | `MCWebControl` | `StratumProxyProofs` |
| `StratumJobs` | jobs, extranonces and shares of one pool connection | `MCStratumJobs` | `StratumJobsProofs` |
| `MachineControl` | remote control of one machine, both ends and the two channels between them | `MCMachineControl` | `MachineControlProofs` |
| `MinerJobs` | a job from the control client through shared memory to the threads, and the answer to their shares | `MCMinerJobs` | `MinerJobsProofs` |
| `ShareRing` | shares from threads through shared memory to the control client; processes dying | `MCShareRing` | `ShareRingProofs` |
| `PageBroker` | blocks of large pages lent to processes that die | `MCPageBroker` | `PageBrokerProofs` |
| `WebStat` | tables of the web interface and the pages that show them; EXTENDS `StratumProxy` | `MCWebStat` | `WebStatProofs` |
| `PackArray` | archives of old rows, cut when they grow too long | `MCPackArray` | `PackArrayProofs` |

`WebControl` is composed with `StratumProxy` by extending it: its steps are the
proxy's steps conjoined with what the events they raise do in `WebControl.js`.
`WebStat` extends the proxy in the same way: each step carries the events it is
called for and emits, in order, and the tables hear them.
`StratumProxy` implements `Assignment` under the mapping of `INSTANCE Assignment`
in it. The other modules meet at interfaces that are named in both: a machine
that joins and leaves a pool (`StratumProxy`, `StratumJobs`), the program that is
started (`MachineControl`, `MinerJobs`), the share that travels (`MinerJobs`,
`ShareRing`), memory a thread is given before it mines (`PageBroker`).

### StratumProxy and Assignment

Variables carry the names of the fields of `StratumProxy.js`; `workerPool` is
`WrapperWorker.pool`, `poolWorkers` and `workersCount` are the fields of
`WrapperPool`. `phase`, `destroyed` and `options` are the state of the
`StratumClient` objects: a client is *opening* from its `open` event, *connected*
from its `connect` event, and gone after its `close` event. `close()` only marks
it (`destroyed`); Node raises the close event in a later turn, and an opening
socket that was destroyed never connects.

| action | code |
|---|---|
| `Loop`, `ControlPoolConnect`, `ControlPoolDisconnect` | the interval and the two command handlers, with `addPoolAuto` and `connectPool` inside |
| `PoolConnect`, `SocketClose` | `poolConnect`; `disconnect` (if it was connected) then `close`, i.e. `poolDisconnect` and `poolClose` in one turn |
| `ClientError` | `logErrorDisconnect`/`close` of a connected client |
| `WorkerConnect`, `WorkerDisconnect` | the handlers of the same names, with `freeWorkersToPools` inside |

`freeWorkersToPools` is a loop over pools and queue. The model states its outcome
(`Distributions`) instead of its steps. `Offers` is the loop itself, a recursive
function over the calls of `addWorker`; that both agree is an ASSUME which TLC
evaluates up to three machines and three pools, and the theorem `LoopDistributes`
for any. `for (i in object)` visits integer keys in increasing order, so
`InKeyOrder` has one element. Ids come from one increasing counter in
the code; the model reuses an id once nothing refers to it. Clients refused by
their constructor (bad address or settings) open and close inside one turn and
leave no trace.

`Assignment` says what a machine or a pool may rely on and nothing of how:
machines, their place, one queue, open pools; four steps `Arrive`, `Depart`,
`Open`, `Lose`. Selections, settings, connections being opened or closed and all
counters are gone. A step of the proxy is one of the four or a stutter.

### WebControl

| action | code in `CS/WebControl.js` |
|---|---|
| `PagePoolConnect`, `PagePoolDisconnect`, `SettingsPoolsChange` | the commands of the page, refused in dev time |
| `Reconnect` | the `setTimeout(..., 0)` of a close that found no retry left |
| `DevPools`, `DevFeeStart`, `DevFeeConnect`, `DevFeeEnd` | the list from `Dev.js`; the loop that takes over and hands back |
| `StratumLoop`, `StratumClientClose`, `StratumQuiet` | the proxy's own steps with what their `open` and `close` events do here |

A client that its constructor refuses raises `open` and `close` before
`addPoolAuto` returns; `Refused` counts them. `disconnect_count` below zero acts
like zero. `dev_time` stands for the flag and the two locks set with it. How long
the user's time and dev time last is not modelled: either may end at any step.

### StratumJobs

One `StratumClient` with its `Job`, its `JobMng` and its `WrapperPool`; the
assignment of machines is `StratumProxy`'s business, here they `Join` and `Leave`.

| action | code |
|---|---|
| `Notify` | `mining_notify`: `JobMng.updateJob`, `Job.updateJob` and, for a new job id, `accepted_job`, `poolAcceptedJob`, `newJob` in the same turn |
| `SetExtranonce` | `mining_set_extranonce`, also called with the answer to `mining.subscribe` |
| `WorkersInfo` | `workerWorkersInfo` and `jobForWorker` |
| `Share` | `workerShare` and both `submitShare` up to `mining.submit` |
| `Answer`, `AnswerTimeout` | the callback of `mining.submit`; the 2 s timer of `JsonRpcClient` |
| `Connect`, `Close` | a new client and wrapper; the end of the connection, with `poolDisconnect` |

`After(j, n)` is the job after n calls of `getBlockHeaderForWorker` in closed form,
`DataAt(j, k)` what the k-th returns. `StratumJobsProofs` has the call itself
(`Called`, `Returned`) and proves that a series of calls is the closed form
(`CallsInARow`). `Bytes` and `Extranonces` stand for 256 and a power of it. A header is
named by what it is built from: job id, the extranonce1 inside the coinbase
(`coin`, set by notify only), extranonce2 and ntime. A machine searches its header
with the nonce byte of its job (`SameSearch`); the extranonce1 in an entry of the
table is what the pool had said last, neither hashed nor submitted, and only tells
whether the header is older (`Stale`). The random ids of `regJob` are taken to be
fresh. Each new extranonce1 is a new value, of the same length as the one before. A machine may send a share for any job it was sent on its
current TCP connection, at any time. Shares sent to a client between its
`close()` and its close event reach nobody and are left out.

### MachineControl

`sv` is the `ControlWorker` of the machine on the server, `toClient` and `toServer`
the two directions of the TCP connection, `cur` the `Control` of the machine with
its program, `saved` its settings file.

| action | code |
|---|---|
| `ControlStartCommand`, `ControlStopCommand`, `ControlOptionsCommand`, `ControlNameCommand`, `ControlSelftestCommand` | the cases of `ControlWorker.control` |
| `ServerReceive` | `appOptions`, `appWorkersInfo`, `appInfo`, `appClose`, with the pending callback and whatever it starts next |
| `ClientReceive` | `sv_start`, `sv_stop`, `sv_options` of the machine's `App` |
| `Listening`, `Ready`, `Short`, `Info`, `StartFails`, `ProgramDies` | the life of a `Control`: UDP port bound, threads ready, report, end |
| `Stray` | a `Control` that was closed before its port was bound: it has no socket to close and no program to kill, so it goes on |
| `LoseLink`, `NetClose`, `NetConnect` | `workerDisconnect`; the machine noticing; the reconnect a second later |

A handler of the server is an operator from the worker and what it sent so far to
the worker and all it sent, a `Result` (`NextEmit`, `AppOptions`, ...), because a
callback may send, wait and call the next one in one turn. `wait` names the one callback in
`next_cb`. Page commands follow the page's view of the machine; the constant
`Faults` says whether that view may be out of date (`stale`), ahead of the
machine's options (`early`), and whether programs may die while they run. Options
in `TooMany` ask for more threads than the machine has processors: Startup lowers
the number in its own copy, passes its check and reports every second, while
`Control.js` waits for as many `worker_info` as it asked for (`Short`).

### MinerJobs

One action is one access to the shared memory, or one handler of `Control.js`.

| action | code |
|---|---|
| `ServerJob`, `WorkersReady`, `ClShare` | `_setJob` with the window, the base job, `cl_share` |
| `StartSetJob`, `WriteSlot`, `Publish` | `WorkerMng.setJob` of Startup: take a datagram, copy in two parts, count `jobSeq` up |
| `GetJob`, `CopyId`, `CopyBlob`, `TakeNonce`, `Hash` | `Worker.loop` of the wrapper; `BeyondBound` only ends a slot's nonces for the model |

A job is its number. `blob` and `target` name the job they were made for, so that a
torn copy shows. Threads work with a pointer into the ring; `lapped` records that
a slot was rewritten under one, and the properties promise nothing after it.

### ShareRing

One action is one access to the shared memory. A thread claims a number with an
atomic increment of `shareSeqWrite`, writes the share in two parts and raises
`is_ready`; Startup's `loopWork` checks the wrappers (`TryAlive`), compares the
counters (`Look`), waits for the flag (`SeeReady`), copies two parts, lowers the
flag, advances and sends. A share is named by its claim number; the memory
starts zeroed (`NoShare`). `WrapperDies` and `StartupKilled` may happen between any two
accesses; a dead process's threads stop where they are. An exception in
`loopWork` runs the destructors of the two `NewProcessSingleWorker`, which end
the wrappers (`Unwind`); a killed Startup leaves that to the wrappers' own poll
of the parent (`ParentGone`). Accesses are taken in program order, here and in
`MinerJobs`: x86 keeps the order of stores, and that the compiler keeps it for
the non-volatile share next to the volatile flag is an assumption. Reading the
two liveness flags is one action: deaths are final, so two reads see what one
read at the second would, or miss a death that the next pass sees.

### PageBroker

| action | code |
|---|---|
| `StartWrapper`, `WrapperDies` | processes; an id is used again, a process is an id and a number |
| `Ask`, `GiveUp` | `sharedMemoryClient` writing its query; no pipe within five seconds |
| `Read`, `Free`, `Lend`, `Refuse` | `sharedMemoryServer` and `SharedMemoryMng.free`, `getMemory`, one query at a time |

A failed `OpenProcess` returns NULL, which the code takes for a handle (`Opened`).

### WebStat

`stat` has one record per table. Its `rows` are `Pools.pools`, `Workers.workers` and
`Jobs.jobs`; of a row the model keeps what the proxy's own state can contradict: a
pool's `worker_count`, a machine's `pool_id`, a job's `worker_count`. `sockets` is the
list each table inherits from `WebStatBase`; a socket whose page has left is `Gone`
in it until an update splices it out (`Spliced`, position by position). `view` is what
the pages show. The record of Jobs also has `poolsJobs` and `poolsWorkerCount`. `lost`
is history: of each table and page the rows whose record was cut from the archive
while the page was not in the list.

| action | code |
|---|---|
| `StatPoolConnect`, `StatSocketClose`, `StatWorkerConnect`, `StatWorkerDisconnect` | the proxy's handlers with the events heard before it and those it emits (`Added`, `Removed`) |
| `AcceptedJob`, `ShareAnswered` | events of the pool client; a share's machine and job may be gone |
| `Tick` | the interval of `Workers.js`, two updates |
| `Login`, `PageGone` | `WebAuth.js`, the `connect_web_socket` listeners; a socket that disconnects |

`Main.js` creates the tables before the proxy, and an emitter calls listeners in
the order they were added, so `HearAll` lets the tables hear a connect before the
`pool_add_worker` events the proxy emits for it. A listener is an operator from a
table and an event to the table (`PoolsHears`, `WorkersHears`, `JobsHears`). The three
tables share no state, so each hears all events of a handler in turn (`Heard`).
Messages to a page arrive in order; a page that loses its connection keeps its
rows and logs in again. An id is used again in the model only, as a new row that
leaves the archive. `PackArray` has the text of an archive; here it is a set of
rows, from which a handler that writes a record may drop any of those it had
(`Droppable`), where the code drops the oldest once the text is longer than a MiB.

### PackArray

`Write` is `PackArray.write`: append a record and cut half the limit off the front
when the text is too long. `UnPackArray` is the page's reader, a recursive function
from the place it searches on; `Records` are the texts it can parse. A text is a
sequence of `Characters` because the cut is by characters, and no text has one of
a marker in it: `JSON.stringify` escapes them. `recent` stands for all that was
written: it remembers more records than fit into an archive.

## Runs

| run | instance | what it shows |
|---|---|---|
| `several_pools` | 3 machines, 4 clients, one machine per client, settings user/dev/bad | `HeldIsLive`, `WorkersPlaced`, `CountsAgree`, `ConnectionBound`, the refinement `KeepsPromise`, and the liveness properties `WorkersServed`, `StopCompletes` |
| `one_pool` | the same with room for all machines in one client, as deployed (`maxWorkersCount` 1e6) | `NoneWaitsBesidePool` |
| `web_control` | 1 machine, 3 clients, lists of two user pools, one refused, developer lists that begin with a refused pool, 3 commands | `OpenCountAgrees`, `FeeInItsTime`, `SelectedAgrees`, `StopHolds`, and the liveness properties `DevPoolReached`, `FailoverLeaves` |
| `stratum_jobs` | 3 machines, 2 job ids, 2 bytes, 2 extranonces, 4 jobs handed out, 2 extranonce1, 1 share | `DistinctSearch`, `HeaderMatches`, `JobsAreCurrent`, `SharesAccounted`, `SharesSettle` |
| `machine_control` | 2 options, one too large, 1 program, all faults, 1 lost connection, 1 stray | `TypeOK`, `LockIsPending`, `ViewAgrees`, `SettingsAgree`, `HangsOnlyHere` |
| `machine_control_live` | 2 programs, 2 measurements each, no faults but lost connections | `LockReleased`, `StartedAgain` |
| `miner_jobs` | 2 threads, ring of 2, window of 1, socket of 2 datagrams, 4 jobs, 2 nonces, 1 share; symmetric threads | `SharesNameTheirJob`, `HashedOnce`, `OnlyOldIgnored` |
| `share_ring` | 3 threads in 2 processes, ring of 2, 3 shares | `DeliveredIntact`, `WaitIsForAClaim`, and the liveness properties `AllDelivered`, `DeathNoticed`, `NoneOutlivesStartup` |
| `web_tables` | 3 machines, 2 clients of 2 machines each, 3 symmetric jobs, no page | `TablesAgree` (`StatTypeOK`, `RowsAgree`, `JobsAgree`) |
| `web_pages` | 1 machine, 2 clients, 2 symmetric pages, lists of at most 3 sockets, no job | `PagesAgree`, `PagesAreListed` |
| `archives` | 3 records of 1, 2 and 4 characters, limit 31, the last 5 remembered | `PageFindsLast` |
| `page_broker` | 3 processes, one the broker may not open, 4 threads, 1 node of 2 blocks, ids used twice | `BlocksExclusive`, `NoBlockLost` |

Bounds, and why they are enough. *Proxy*: four clients let three machines hold a
connection each while one more is closing, so a bound broken by one would show;
one machine per client makes pools fill, refuse and spill over, which the
deployed limit never does. *Web control*: one retry makes the second close fail
over; the lists have a refused pool first, so failover and dev loop both run
into one; three commands are a choice, a stop and a new list. `MaxIndex` lets a
page ask for a pool the list lacks. `MaxDeferred` only stops timers of seconds
while timers of zero are pending, which Node runs first. *Jobs of a pool*: four
jobs handed out are all positions of two bytes and two extranonces, so both wrap;
three machines make one `newJob` cross the wrap of the byte. *Machine*: two
messages in a channel let an answer to one command meet the next; one lost
connection and one stray are enough for every pair of a late event and a new
owner; two programs give the selftest a next case. *Jobs of a machine*: two slots
and four jobs let the ring wrap and lap a thread, a window of one makes shares
late at once, a full socket drops a job. *Shares*: two slots and three shares let
the ring wrap and a writer lap the reader (the properties then promise
nothing, and the run visits those states). *Broker*: two blocks for three
processes make the third wait for a dead one. *Tables*: three machines on
connections of two make a pool fill, and its loss move machines; three jobs are
one for each pool and one to switch to. *Pages*: three sockets are two logins of
one page and one of the other, enough for two gone ones before a connected one;
two connections let the end of one drop the record of the other, and the run
visits the states in which a page shows such a row as alive. *Archives*: the
longest record is half the limit, as long as `RecordsAssumption` lets it be. All
other `Max...` constants only cap counters.

Deadlock checking is off in `share_ring`, where the system has stopped when all
shares are sent or all processes are dead, and in `machine_control`, where a worker
locked for good (see below) ends the story of this one machine once the bound on
lost connections is reached.

Type invariants that TLAPS proves, and `OnlySelectedPool`, which `FeeInItsTime` states for
the composed system, are not checked again by a run.

Fairness. Node keeps firing the interval (`WF(Loop)`), its timers and sockets, and
raises the close event of a destroyed socket (`WF(CloseDestroyed)`, in `WebFairness`
the same for each client). `PoolReachable`, and the `SF` of connecting in
`WebFairness`, are assumptions about the network: an attempt that can succeed
again and again does once. `WF(AnswerTimeout(n))` is the timer of `JsonRpcClient`,
which looks at every request. In `MachineControl` both ends read their sockets,
Startup finishes its check, with all threads or with fewer, or gives up within two
seconds, and reports every second,
and a lost connection is noticed and made anew; the page promises nothing. For
the ring the operating system runs live threads; finding a share, dying and
being killed are never assumed.

What the runs say of the code beyond the properties:

* With several pools, machines freed by a lost pool are not offered to the other
  connected ones; they wait for the loop's next client. `NoneWaitsBesidePool` is
  therefore stated for the deployed limit.
* A stop holds until dev time ends: `DevFeeEnd` connects the pool the user had
  last, stopped or not.
* Two connections that close in one turn with no retry left schedule two
  reconnects, and the second skips the pool the first selected.
* A stop for a machine without a program, and a selftest whose program dies
  while it is measured, leave the worker locked: no event comes that would call
  the pending callback. So does a start that asks for more threads than there
  are processors: the program runs with fewer, `Control.js` (line 331) never counts
  as many as it asked for, so neither `workers_info` nor a close is sent, and the
  worker stays locked and shown as stopped until the program or the connection
  ends. `HangsOnlyHere` says that there are these three cases and no other;
  `LockReleased` is checked without them.
* After `mining.set_extranonce` the extranonce2 starts again at zero while the
  coinbase keeps the old extranonce1 until the next notify, and the header until
  the nonce byte wraps. A header and nonce byte handed out before may so be handed
  to another machine again. `DistinctSearch` excepts jobs whose header is older
  than the last extranonce1, and takes an extranonce1 never to come back.
* A page that was away while a row ended, and comes back after the archive was cut
  past that row's record, shows the row as alive for good: it is in none of what
  the page is sent. `PagesAgree` excepts the rows in `lost`.
* A start or stop that reaches the machine before the UDP port of the last
  `Control` is bound leaves that program running beside the next one (`Stray`), and
  its reports count as the current one's.
* The base job is handed to Startup twice when the threads become ready, with
  fresh nonces each time: its first nonces are hashed twice (`HashedOnce` excepts
  it; its target is zero, so no share comes of it). Nothing stops the nonce
  counter at the end of a job's nonces.
* `getShare` waits for `is_ready` without looking at the processes: `Stuck` names
  the two cases in which the wait never ends (a process dead inside
  `submitShare`; a writer a full ring ahead). `DeathNoticed` is false without
  that exception. A full ring is 4096 shares that Startup has not read.
* After `newJob` the wrapper knows only the id of the last machine served:
  `submitShare` drops the shares of all the others, without a message. Nothing
  in the repository says otherwise, so this is recorded as a hazard.
* A new extranonce, or a repeated job id, leaves the nonce byte and so the old
  header: shares found on it are submitted with an extranonce or time it was
  not built from. `HeaderMatches` holds while neither happened since the job
  was new (`refreshed`).
* `share_count` equals accepted plus rejected only on a living connection: shares
  without answer at its end are counted and never settled.
* A block lent to a process the broker could not open is lent again at the next
  request, in use or not; `BlocksExclusive` excepts those processes.
* `webEmit` removes the sockets that are gone by positions it noted before the
  first removal. With two of them gone it may remove a connected page's
  socket, which then gets no more updates of that table until it logs in
  again. A table's `crowded` records that this could happen to it, and
  `PagesAreListed` is stated of the tables without it. Nothing in the repository
  says that it does not happen.

## Proofs

TLAPS checks eight proof modules to the last leaf. The assumptions are the named
ASSUMEs of the modules (finite sets of natural ids, positive limits, ring and
byte sizes, a wrapper for each thread, separate user and developer pools, archives
of at least two records), which TLC evaluates in every run.

* `StratumProxyProofs`: `TypeCorrect`, `HeldClientsAreLive`, `WorkersArePlaced`,
  `CountsAreRight`, `OnlySelectedPoolUsed`. The invariant `IInv` joins the state of
  the clients (`ClientInv`) with the placement of machines (`Placed`). Types
  alone are not inductive: that `delWorker` never takes a counter below zero
  needs the counter to equal the size of its map, which needs the wrapper and
  the map to agree, which needs a lost pool to reset both. The lemmas on
  queues and on `Distributions` say that distributing moves a prefix of the
  queue and keeps every machine in one place.
  `ConnectionsAreBounded` and `NoneWaitsWhileConnected` need `BoundInv` beside it:
  connected and opening clients together are at most `Needed`, and the queue would
  fit into the clients that may still be opened. The second part is what makes
  the first inductive: after a distribution the queue is empty or all pools are
  full, and full pools and the queue share no machine (`FullPoolsBound`); a lost
  pool leaves room for the machines it had.
  `ProxyKeepsPromise` says that `StratumProxy` implements `Assignment`. Initial states
  map to initial states; under `IInv` each action maps to one of the four steps
  or a stutter. The work is in the queue: `Distributions` serves a prefix, and the
  machines of a lost pool queue up once each.
  `LoopDistributes` says that `Distributions` has one element and that the loop of
  `freeWorkersToPools` ends in it. Two distributions cannot differ at a first place:
  the smaller pool there would have room left and the other distribution would
  have passed it over (`FirstDifference`). What the loop has given away after each
  call (`Offered`) fills the pools in order, passes over those only that refused,
  and every call uses up a machine or a pool.
* In the same module, for `WebControl`: `WebTypeCorrect`, `OpenCountIsRight`, `FeeIsInItsTime`,
  `SelectedIsConnected`, `StopIsKept`. `WebInv` adds to the proxy's invariant the
  counters (`WebNumbers`) and who is in charge (`InCharge`); each of the page's,
  failover's and fee's steps is the proxy's step plus arithmetic on `Live`.
* `StratumJobsProofs`: `CallsInARow`, then `TypeCorrect`, `SearchIsDistinct`,
  `HeadersMatch`, `TableIsCurrent`, `SharesAreAccounted`, for any number of bytes,
  extranonces and machines. `DistinctSearch` is not inductive: `TableInv` says that
  the table's ids are the last ones made (`Numbered`), and that id and position
  advance together modulo the size of the search space, in the entry (`Aligned`)
  and, unless it is stale, in its header (`InPlace`, `ExtranoncesInv`). Two entries in
  the same place then have ids a multiple of that size apart, and a table no longer
  than the space has no room for two of them (`AlignedIsDistinct`).
* `MinerJobsProofs`: `TypeCorrect`, `SharesNameTheirJobs`, `OnlyOldAreIgnored` and
  `HeadersHashedOnce`, for any ring, window, socket and threads. While nobody was
  lapped a thread's slot is one Startup does not write; its copies are then of
  the slot's one job. For `HashedOnce` the invariant `OnceInv` adds that jobs reach
  Startup in increasing order, only the base job twice (`WaitingOrder`,
  `HashedOrder`), so that the slots hold different jobs (`SlotsOrder`,
  `SlotsDiffer`), and that the nonces hashed of a job are below its slot's
  counter (`Counted`; `InUse` says that the slots threads read hold a job).
* `ShareRingProofs`: `TypeCorrect`, `SharesDeliveredIntact`, `WaitsAreForClaims`,
  for any ring size. `DeliveredIntact` is not inductive; `IInv` adds that, while
  nobody lapped, outstanding claims span at most one ring, so their slots
  differ (`SlotsDiffer`, `SlotWraps`), each is either being submitted by exactly
  one thread with its flag down or whole with its flag up, and no flag is up in
  the free part of the ring.
* `PageBrokerProofs`: `TypeCorrect`, `BlocksAreExclusive`, `BlocksAreKept`. The invariant
  says that whoever uses a block is the living process its handle names, which
  is what `Free` looks at, and that a query and its thread belong together.
* `MachineControlProofs`: `TypeCorrect`, `LockIsForPending`, `ViewsAgree`, `SettingsAreSaved`,
  `HangsAreKnown`, for any options, programs, measurements and lost connections.
  First the outcome of each handler of the server is described once, whatever
  chain of callbacks led to it (`Outcome`, `Handled`, `Causes`), and what sending and
  receiving do to the latest message of a kind in a channel. The properties are
  not inductive. `ViewAgrees` needs that the last report under way is of the state
  the machine is in (`ReportInv`); `SettingsAgree` that the last options on the way
  to the machine are the server's (`ToldInv`), that no test's options travel to be
  saved (`SavedInv`), and what holds before a machine has sent its own
  (`GreetInv`); `HangsOnlyHere` that whatever a callback waits for is owed by a
  message under way or by the program (`OwedInv`, `InfoInv`), and that a program
  with fewer threads than asked for is never one of a selftest, which asks for one
  thread (`ShortInv`, `TestStart`). `LockIsPending` is
  carried by what the fields of a worker allow (`WorkerInv`).
* `WebStatProofs`: `TablesShowTheProxy`, `PagesShowTheTables`, `PagesStayListed`, for any
  machines, connections, jobs and pages. `StatInv` says of the tables what the proxy's
  `IInv` says of its maps: the rows are the proxy's counters and wrappers
  (`RowsOver`), each job shown is the last one of one pool (`JobsOwned`), and each table
  is `Sound`. `PagesAgree` is not inductive: a page that comes back is sent the
  archive, so whatever a page not listed may still show as alive must be a row of
  the table, in its archive, or lost to that page (`CutFacts` for the cut). A handler emits a series of events as long as its
  queue, so each table is followed event by event: `HeardInduction` carries a
  fact from one event to the next, after i of k machines given away a pool's
  row counts those of the first i that are its own (`FirstTaken`, `AddsHeard`), and
  likewise for those taken from a lost pool (`DelsHeard`). `WithoutGoneFacts` is the
  loop of `webEmit`: no position noted before the first splice is wrong when
  only one socket is gone.
* `PackArrayProofs`: `ArchiveLayout` and from it `FindsLast`, for any records, name and
  limit. `PageFindsLast` says nothing of where in the text the records are, so it is
  not inductive. `IInv` says that an archive is the rest of a record that was cut,
  in which no start marker begins (`Quiet`), and then whole packed records, one
  after the other, the last that were written (`Layout`, `Lasts`). Writing adds
  one (`LayoutWritten`); a cut, wherever it falls, leaves the rest of the record it
  falls into and the records after it (`LayoutCut`), at least the one just
  written, which is no longer than what stays. The page's reader then finds
  these and no other: markers do not overlap and no text has their characters, so
  each search ends at the marker of the record it began in (`ReadsAll`).

Induction over the events of a handler or the entries of a list is done over
sets: the numbers up to n at which a fact holds, of which one has a least
counterexample (`LeastNumber`, `UpTo`). That is enough for facts that name
their sets; the recursive functions themselves (`Heard`, `Spliced`, `Offers`, the
reader `UnPackArray`) are shown to have the value their definition says (`HeardSteps`,
`SplicedSteps`, `OffersSteps`, `UnPackSteps`).

Every invariant, action property and refinement of a run that is not about
liveness is stated by a theorem. Only model-checked are the liveness properties
(`WorkersServed`, `StopCompletes`, `DevPoolReached`, `FailoverLeaves`, `SharesSettle`,
`LockReleased`, `StartedAgain`, `AllDelivered`, `DeathNoticed`, `NoneOutlivesStartup`): they rest on
fairness, hence on ENABLED, which is out of the prover's reach.

## Plan

Done: the modules and proofs above. Left:

1. `HashRate.js`: which sample a rate is over once its rings have wrapped; a pause
   longer than the periods are apart leaves the longer periods without a rate.
2. The start-up handshake of Startup and its timeouts, now `StartFails` of
   `MachineControl`; the counting of hashes in `WorkersServer.js`.

## Not modelled

* The hash rates (`CS/HashRate.js`): averages shown in the page. Of the statistics,
  the columns of hashes, shares, difficulty and times, and the lists of shares,
  logs and notices (`Shares.js`, `Logs.js`, `Noty.js`): texts for the page, read by
  nothing else.
* The shell: settings files and their validation, web server, authentication,
  logging, the download of the developer pools (only its announcement).
* Wire formats: line framing, JSON, the packing of datagrams, difficulty and the
  login exchange (a failed login is a close).
* The hash, the placing of threads on processors, the granting of privileges.
* The start-up handshake between `Control.js`, Startup and the wrappers beyond its
  outcome, ready or failed.
* Code that `Main.js` never reaches (`CS/StratumServer.js`, `CS/StratumClient.js`,
  `Share/OwnJsonRpc`, the class `JobMng` inside `CS/StratumProxy.js`).
* The web page's layout (what it keeps of its tables is in `WebStat`) and the
  vendored libraries (bootstrap, jQuery, noty, MDL and others), which are most of
  the repository's lines.
