------------------------------- MODULE WebStat -------------------------------
(***************************************************************************)
(* The tables of the web interface (ControlServer/WebStat/Pools.js,        *)
(* Workers.js, Jobs.js on WebStatBase.js) beside the StratumProxy whose    *)
(* events they hear, and the pages that show them (web/public/app/Pools.js,*)
(* Workers.js, Jobs.js).                                                   *)
(*                                                                         *)
(* The tables never ask the proxy: each counts events.  Main.js creates    *)
(* them before the proxy, so of one event they hear first, and events that *)
(* the proxy emits while it handles one come after it.  A page is sent     *)
(* every row once, at its login, and then only the changes, through the    *)
(* list of sockets each table keeps for itself.                            *)
(***************************************************************************)
EXTENDS StratumProxy

CONSTANTS
    JobIds,       \* ids of jobs
    NoJob,        \* no job was accepted yet
    Pages,        \* browser pages
    MaxSockets,   \* bound on the length of a list of sockets
    Gone,         \* a socket whose page is no longer connected
    Dead,         \* a row with alive = false
    NoRow         \* no row

ASSUME RowsAssumption ==
    /\ {NoRow, Dead} \cap (Int \cup {NoPool}) = {} /\ NoRow # Dead
    /\ NoJob \notin JobIds /\ Gone \notin Pages
ASSUME MaxSocketsAssumption == MaxSockets \in Nat

\* A row holds what its page shows and nothing else does: of a pool its
\* worker_count, of a machine its pool_id, of a job its worker_count.
RowIds == [pools |-> Clients, workers |-> Workers, jobs |-> JobIds]
Tables == DOMAIN RowIds
Empty(t) == [id \in RowIds[t] |-> NoRow]

VARIABLES
    stat,        \* of each table its rows and archive (Pools.pools and
                 \* Pools.poolsArchive, and so on), its sockets, the view each
                 \* page has of it, and whether an update found it crowded:
                 \* two sockets of the list gone; of Jobs also poolsJobs and
                 \* poolsWorkerCount
    connected,   \* the pages with a socket that has logged in
    lost         \* history: of each table and page, the rows that were cut from
                 \* the archive while the page was not in the table's list

statVars == <<stat, connected, lost>>
proxyStatVars == <<vars, statVars>>

-----------------------------------------------------------------------------
(* WebStatBase.webEmit *)

GoneAt(list) == {i \in DOMAIN list : list[i] = Gone}

\* The positions of the gone sockets are noted first and spliced out one after
\* the other: after the first, the others have moved.  What is left of the list
\* after each position:
Spliced(list) ==
    LET left[i \in 0 .. Len(list)] ==
          IF i = 0 THEN list
          ELSE IF list[i] = Gone /\ i <= Len(left[i - 1]) THEN RemoveAt(left[i - 1], i)
          ELSE left[i - 1]
    IN left

\* Mutant: the last socket is forgotten with a gone one.
WithoutGonePopped(list) ==
    IF GoneAt(list) = {} THEN list ELSE Front(Spliced(list)[Len(list)])

WithoutGone(list) == Spliced(list)[Len(list)]

\* A page's updateMini changes a row it has, addItem adds or replaces it.  A
\* row once dead stays so: the changes sent carry no `alive'.
Seen(rows, id, row, mini) ==
    IF row = NoRow \/ (mini /\ rows[id] \in {NoRow, Dead})
    THEN rows ELSE [rows EXCEPT ![id] = row]

\* Table a after its row `id' was sent to the listed pages; NoRow stands for a
\* change of what no row of this module holds.
Emit(a, id, row, mini) ==
    [a EXCEPT
        !.view = [p \in Pages |->
            IF p \in Range(a.sockets) THEN Seen(a.view[p], id, row, mini) ELSE a.view[p]],
        !.sockets = WithoutGone(a.sockets),
        !.crowded = a.crowded \/ \E i, j \in GoneAt(a.sockets) : i # j]

\* An id used again is a new one: it leaves the archive.
AddRow(a, id, row) ==
    Emit([a EXCEPT !.rows[id] = row, !.archive = @ \ {id}], id, row, FALSE)
SetRow(a, id, row) ==
    IF a.rows[id] = NoRow THEN a
    ELSE Emit([a EXCEPT !.rows[id] = row], id, row, TRUE)
Report(a, id) ==
    IF id \in DOMAIN a.rows /\ a.rows[id] # NoRow THEN Emit(a, id, NoRow, TRUE) ELSE a
EndRow(a, id) ==
    IF a.rows[id] = NoRow THEN a
    ELSE [Emit(a, id, Dead, FALSE) EXCEPT
             !.rows[id] = NoRow, !.archive = @ \cup {id}]

-----------------------------------------------------------------------------
(* The listeners.  An event is [name, pool, worker, job]. *)

PoolsHears(a, e) ==
    CASE e.name = "connect"    -> AddRow(a, e.pool, 0)
      [] e.name = "disconnect" -> EndRow(a, e.pool)
      [] e.name = "add"        -> SetRow(a, e.pool, a.rows[e.pool] + 1)
      [] e.name = "del"        -> SetRow(a, e.pool, a.rows[e.pool] - 1)
      [] e.name \in {"job", "share"} -> Report(a, e.pool)
      [] OTHER                 -> a

WorkersHears(a, e) ==
    CASE e.name = "workerConnect"    -> AddRow(a, e.worker, NoPool)
      [] e.name = "workerDisconnect" -> EndRow(a, e.worker)
      [] e.name = "add"              -> SetRow(a, e.worker, e.pool)
      [] e.name = "del"              -> SetRow(a, e.worker, NoPool)
      [] e.name = "share"            -> Report(a, e.worker)
      [] OTHER                       -> a

\* Jobs._endJob
EndJob(a, pool) ==
    IF a.poolsJobs[pool] = NoJob THEN a ELSE EndRow(a, a.poolsJobs[pool])

\* The entry of poolsJobs stays when a pool is lost, but for an id that is
\* never used again; the model uses it again, as a new one.
JobsHears(a, e) ==
    CASE e.name = "job" ->
            AddRow([EndJob(a, e.pool) EXCEPT !.poolsJobs[e.pool] = e.job],
                   e.job, a.poolsWorkerCount[e.pool])
      [] e.name = "disconnect" -> [EndJob(a, e.pool) EXCEPT !.poolsJobs[e.pool] = NoJob]
      [] e.name = "add"   -> [a EXCEPT !.poolsWorkerCount[e.pool] = @ + 1]
      [] e.name = "del"   -> [a EXCEPT !.poolsWorkerCount[e.pool] = IF @ = 0 THEN 0 ELSE @ - 1]
      [] e.name = "share" -> Report(a, e.job)
      [] OTHER -> a

Hear(t, a, e) ==
    CASE t = "pools"   -> PoolsHears(a, e)
      [] t = "workers" -> WorkersHears(a, e)
      [] t = "jobs"    -> JobsHears(a, e)

\* Table t after the events of one handler, in their order.
Heard(t, events) ==
    LET heard[i \in 0 .. Len(events)] ==
          IF i = 0 THEN stat[t] ELSE Hear(t, heard[i - 1], events[i])
    IN heard[Len(events)]

\* PackArray.write drops the front half of an archive that the new record makes
\* longer than a MiB.  Here an archive has no order and a record no length: any
\* of the records it had may go, but only when a handler writes one.
Droppable(t, events) ==
    IF Heard(t, events).archive \subseteq stat[t].archive THEN {} ELSE stat[t].archive

\* The rows lost to page p once those of `cut' are dropped from table a.
LostBy(p, before, a, cut) ==
    {id \in before \cup (IF p \in Range(a.sockets) THEN {} ELSE cut) : a.rows[id] = NoRow}

HearAll(events) ==
    /\ \E dp \in SUBSET Droppable("pools", events),
          dw \in SUBSET Droppable("workers", events),
          dj \in SUBSET Droppable("jobs", events) :
         LET cut == [pools |-> dp, workers |-> dw, jobs |-> dj]
         IN /\ stat' = [t \in Tables |-> [Heard(t, events) EXCEPT !.archive = @ \ cut[t]]]
            /\ lost' = [t \in Tables |-> [p \in Pages |->
                         LostBy(p, lost[t][p], Heard(t, events), cut[t])]]
    /\ UNCHANGED connected

-----------------------------------------------------------------------------
(* The proxy's handlers with the events they are called for and emit *)

Event(name, pool, worker, job) ==
    [name |-> name, pool |-> pool, worker |-> worker, job |-> job]
PoolEvent(name, c) == Event(name, c, NoRow, NoJob)
WorkerEvent(name, w) == Event(name, NoPool, w, NoJob)

\* freeWorkersToPools took these from the front of the queue.
Added(queue) ==
    [i \in 1 .. Len(queue) - Len(freeWorkers') |->
        Event("add", workerPool'[queue[i]], queue[i], NoJob)]

\* poolDisconnect takes these from pool c.
Removed(c) ==
    LET order == CHOOSE s \in InKeyOrder(poolWorkers[c]) : TRUE
    IN [i \in DOMAIN order |-> Event("del", c, order[i], NoJob)]

StatPoolConnect(c) ==
    /\ PoolConnect(c)
    /\ HearAll(<<PoolEvent("connect", c)>> \o Added(freeWorkers))

\* Mutant: a lost pool's machines are taken from it without an event.
StatSocketCloseQuiet(c) ==
    /\ SocketClose(c)
    /\ HearAll(IF phase[c] = "connected" THEN <<PoolEvent("disconnect", c)>> ELSE <<>>)

StatSocketClose(c) ==
    /\ SocketClose(c)
    /\ HearAll(IF phase[c] = "connected"
               THEN <<PoolEvent("disconnect", c)>> \o Removed(c) ELSE <<>>)

StatWorkerConnect(w) ==
    /\ WorkerConnect(w)
    /\ HearAll(<<WorkerEvent("workerConnect", w)>> \o Added(Append(freeWorkers, w)))

StatWorkerDisconnect(w) ==
    /\ WorkerDisconnect(w)
    /\ HearAll(<<WorkerEvent("workerDisconnect", w)>> \o
               IF workerPool[w] = NoPool THEN <<>>
               ELSE <<Event("del", workerPool[w], w, NoJob)>>)

\* The rest of the proxy emits nothing a table hears.
StatOther ==
    /\ \/ Loop
       \/ \E info \in PoolInfos : ControlPoolConnect(info)
       \/ ControlPoolDisconnect
       \/ \E c \in Clients : ClientError(c)
    /\ UNCHANGED statVars

\* A pool sends its next job, which gets an id of its own.
AcceptedJob(c, j) ==
    /\ phase[c] = "connected"
    /\ stat["jobs"].rows[j] = NoRow /\ \A d \in Clients : stat["jobs"].poolsJobs[d] # j
    /\ HearAll(<<Event("job", c, NoRow, j)>>)
    /\ UNCHANGED vars

\* A pool answers a share of machine w and job j; the machine may be gone, and
\* the job over (NoJob).
ShareAnswered(c, w, j) ==
    /\ phase[c] = "connected"
    /\ HearAll(<<Event("share", c, w, j)>>)
    /\ UNCHANGED vars

\* Every second Workers sends the hash counts and their sum.
Tick ==
    /\ stat' = [stat EXCEPT !["workers"] =
                  Emit(Emit(@, NoRow, NoRow, TRUE), NoRow, NoRow, TRUE)]
    /\ UNCHANGED <<vars, connected, lost>>

-----------------------------------------------------------------------------
(* Pages *)

\* Mutant: the archive is not sent.
ShownAtLoginNoArchive(old, a) ==
    [id \in DOMAIN old |-> IF a.rows[id] # NoRow THEN a.rows[id] ELSE old[id]]

\* What a page shows once it was sent the archive of a table and then its rows.
ShownAtLogin(old, a) ==
    [id \in DOMAIN old |->
        IF a.rows[id] # NoRow THEN a.rows[id]
        ELSE IF id \in a.archive THEN Dead ELSE old[id]]

\* A page logs in with the right key: when its socket connects, and when the
\* user presses the button, again on the same socket if twice.  Each table
\* appends the socket to its list and answers with all it has.
Login(p) ==
    /\ \A t \in Tables : Len(stat[t].sockets) < MaxSockets
    /\ connected' = connected \cup {p}
    /\ stat' = [t \in Tables |-> [stat[t] EXCEPT
                  !.sockets = Append(@, p),
                  !.view[p] = ShownAtLogin(@, stat[t])]]
    /\ UNCHANGED <<vars, lost>>

\* A page is closed, or loses its connection and keeps what it shows.
PageGone(p) ==
    /\ p \in connected
    /\ connected' = connected \ {p}
    /\ stat' = [t \in Tables |-> [stat[t] EXCEPT
                  !.sockets = [i \in DOMAIN @ |-> IF @[i] = p THEN Gone ELSE @[i]]]]
    /\ UNCHANGED <<vars, lost>>

-----------------------------------------------------------------------------
NewTable(t) ==
    [rows |-> Empty(t), archive |-> {}, sockets |-> <<>>,
     view |-> [p \in Pages |-> Empty(t)], crowded |-> FALSE]

NewJobs ==
    [rows |-> Empty("jobs"), archive |-> {}, sockets |-> <<>>,
     view |-> [p \in Pages |-> Empty("jobs")], crowded |-> FALSE,
     poolsJobs |-> [c \in Clients |-> NoJob],
     poolsWorkerCount |-> [c \in Clients |-> 0]]

StatInit ==
    /\ Init
    /\ stat = [t \in Tables |-> IF t = "jobs" THEN NewJobs ELSE NewTable(t)]
    /\ connected = {}
    /\ lost = [t \in Tables |-> [p \in Pages |-> {}]]

StatNext ==
    \/ \E c \in Clients : StatPoolConnect(c) \/ StatSocketClose(c)
    \/ \E w \in Workers : StatWorkerConnect(w) \/ StatWorkerDisconnect(w)
    \/ StatOther
    \/ \E c \in Clients, j \in JobIds : AcceptedJob(c, j)
    \/ \E c \in Clients, w \in Workers, j \in JobIds \cup {NoJob} : ShareAnswered(c, w, j)
    \/ Tick
    \/ \E p \in Pages : Login(p) \/ PageGone(p)

StatSpec == StatInit /\ [][StatNext]_proxyStatVars

-----------------------------------------------------------------------------
(* Properties *)

\* Rows are what the listeners make them.
StatTypeOK ==
    /\ \A id \in Clients : stat["pools"].rows[id] \in Nat \cup {NoRow}
    /\ \A id \in Workers : stat["workers"].rows[id] \in Clients \cup {NoPool, NoRow}
    /\ \A id \in JobIds : stat["jobs"].rows[id] \in Nat \cup {NoRow}
    /\ stat["jobs"].poolsJobs \in [Clients -> JobIds \cup {NoJob}]
    /\ stat["jobs"].poolsWorkerCount \in [Clients -> Nat]
    /\ connected \subseteq Pages
    /\ \A t \in Tables, p \in Pages : lost[t][p] \subseteq RowIds[t]
    /\ \A t \in Tables :
         /\ stat[t].archive \subseteq RowIds[t]
         /\ Range(stat[t].sockets) \subseteq connected \cup {Gone}
         /\ stat[t].crowded \in BOOLEAN

\* A row for each connected pool and machine, the number of machines of each
\* pool (counted twice, by Pools and by Jobs), the pool of each machine.
RowsAgree ==
    /\ \A c \in Clients :
         /\ stat["pools"].rows[c] = IF c \in pools THEN Cardinality(poolWorkers[c]) ELSE NoRow
         /\ stat["jobs"].poolsWorkerCount[c] = Cardinality(poolWorkers[c])
    /\ \A w \in Workers :
         stat["workers"].rows[w] = IF w \in workers THEN workerPool[w] ELSE NoRow

\* Each job shown as being worked on is the last one of a connected pool: what
\* a lost pool or an older job left does not stay in the table.
JobsAgree ==
    \A j \in JobIds :
        stat["jobs"].rows[j] # NoRow <=> \E c \in pools : stat["jobs"].poolsJobs[c] = j

\* The tables, which only count the events they hear and never ask, show the
\* proxy's own state after every handler, whatever the order of pools lost,
\* machines moved and jobs replaced.
TablesAgree == StatTypeOK /\ RowsAgree /\ JobsAgree

\* A page that a table's list still holds shows the rows of that table and no
\* other row as alive, whatever it missed while it was away, but for the rows
\* whose record was cut from the archive before it came back: a row that ended
\* in the meantime and is among them it shows as alive for good.
PagesAgree ==
    \A p \in connected, t \in Tables :
        p \in Range(stat[t].sockets) =>
            \A id \in RowIds[t] :
                IF stat[t].rows[id] = NoRow
                THEN stat[t].view[p][id] \in {NoRow, Dead} \/ id \in lost[t][p]
                ELSE stat[t].view[p][id] = stat[t].rows[id]

\* Every connected page is in the list of every table that never had two
\* sockets gone at an update; then webEmit may splice out a connected one.
PagesAreListed ==
    \A p \in connected, t \in Tables :
        ~stat[t].crowded => p \in Range(stat[t].sockets)

=============================================================================
