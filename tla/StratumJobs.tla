----------------------------- MODULE StratumJobs -----------------------------
(***************************************************************************)
(* Jobs and shares of one pool connection: the classes Job, JobMng and     *)
(* StratumClient (ControlServer/Stratum/StratumClient.js) and the part of  *)
(* StratumProxy's WrapperPool that hands jobs to machines and forwards     *)
(* their shares.  Which machines belong to the connection is StratumProxy; *)
(* here they just join and leave.                                          *)
(*                                                                         *)
(* The pool's messages, the machines' messages and the timer are handlers  *)
(* of one Node.js process: one action each.  A machine may answer with a   *)
(* share for any job it was ever sent.                                     *)
(***************************************************************************)
EXTENDS Integers, FiniteSets

CONSTANTS
    Machines,      \* ids of the machines, the keys of WrapperPool.workers
    JobIds,        \* job ids a pool sends
    Times,         \* values of ntime
    None,          \* JavaScript's null
    Bytes,         \* values of the fourth nonce byte (256)
    Extranonces,   \* values of extranonce2 (2^16 or more)
    MaxHanded,     \* bound: jobs handed to machines
    MaxSubmits,    \* bound: shares submitted
    MaxSessions    \* bound: values of extranonce1

ASSUME MachinesAssumption == Machines \subseteq Nat /\ IsFiniteSet(Machines)
ASSUME NoneAssumption == None \notin JobIds /\ None \notin Nat
ASSUME BytesAssumption == Bytes \in Nat \ {0} /\ Extranonces \in Nat \ {0}
ASSUME BoundsAssumption == MaxHanded \in Nat /\ MaxSubmits \in Nat /\ MaxSessions \in Nat

VARIABLES
    connected,       \* the client and its wrapper exist
    workers,         \* keys of WrapperPool.workers
    wrapper_job_id,  \* WrapperPool.job_id
    job,             \* the Job of the client
    job_workers,     \* JobMng.job_workers: what each handed id stands for
    sent,            \* pairs of a machine and an id it was sent
    handed,          \* ids made so far; regJob's random ids never repeat
    sessions,        \* values of extranonce1 seen so far
    pending,         \* submitted shares the pool has not answered
    share_count, accepted, rejected,
    refreshed        \* history: extranonce or job changed since the job was new

poolVars == <<connected, job, job_workers, refreshed, sessions>>
shareVars == <<pending, share_count, accepted, rejected>>
vars == <<poolVars, shareVars, workers, wrapper_job_id, sent, handed>>

-----------------------------------------------------------------------------
(* Job *)

NoHeader == [job_id |-> None, extranonce1 |-> 0, extranonce2 |-> 0, ntime |-> None]

\* A client without job: `coin' is the extranonce1 inside coinbase_blob,
\* `extranonce1' the one received last (0 before the first).
NewJob == [job_id |-> None, extranonce1 |-> 0, coin |-> 0, extranonce2 |-> 0,
           nonce3 |-> 0, ntime |-> None, header |-> NoHeader]

\* Position k after the next one in the search space of the job j: the fourth
\* byte counts up, and extranonce2 is incremented when the byte wraps.
Extranonce2At(j, k) == (j.extranonce2 + (j.nonce3 + k) \div Bytes) % Extranonces
Nonce3At(j, k) == (j.nonce3 + k) % Bytes

\* Mutant: the header is rebuilt only if the first byte handed is zero.
HeaderAtFirstOnly(j, k) ==
    IF j.nonce3 = 0
    THEN [job_id |-> j.job_id, extranonce1 |-> j.coin,
          extranonce2 |-> Extranonce2At(j, 0), ntime |-> j.ntime]
    ELSE j.header

\* block_header_blob after k + 1 calls of getBlockHeaderForWorker: it is built
\* anew only when the byte is zero, from the coinbase of the last notify.
HeaderAt(j, k) ==
    IF j.nonce3 = 0 \/ j.nonce3 + k >= Bytes
    THEN [job_id |-> j.job_id, extranonce1 |-> j.coin,
          extranonce2 |-> Extranonce2At(j, k), ntime |-> j.ntime]
    ELSE j.header

\* What the k-th following call of getBlockHeaderForWorker returns.
DataAt(j, k) ==
    [job_id |-> j.job_id, extranonce1 |-> j.extranonce1, extranonce2 |-> Extranonce2At(j, k),
     nonce3 |-> Nonce3At(j, k), ntime |-> j.ntime, header |-> HeaderAt(j, k)]

\* Mutant: the extranonce stays when the byte wraps.
AfterSameExtranonce(j, n) ==
    IF n = 0 THEN j
    ELSE [j EXCEPT !.nonce3 = Nonce3At(j, n), !.header = HeaderAt(j, n - 1)]

\* The job after n such calls.
After(j, n) ==
    IF n = 0 THEN j
    ELSE [j EXCEPT !.extranonce2 = Extranonce2At(j, n), !.nonce3 = Nonce3At(j, n),
                   !.header = HeaderAt(j, n - 1)]

-----------------------------------------------------------------------------
(* WrapperPool.newJob and jobForWorker *)

Rank(w, S) == Cardinality({v \in S : v < w})

\* Hands a job of j to every machine of S in key order; `table' is the
\* table of handed ids.  The wrapper remembers the last id only.
JobForWorkers(S, j, table) ==
    IF j.job_id = None \/ S = {}
    THEN job' = j /\ job_workers' = table /\ UNCHANGED <<wrapper_job_id, sent, handed>>
    ELSE /\ handed + Cardinality(S) <= MaxHanded
         /\ job' = After(j, Cardinality(S))
         /\ job_workers' = table \cup
              {[id |-> handed + 1 + Rank(w, S), data |-> DataAt(j, Rank(w, S))] : w \in S}
         /\ sent' = sent \cup {<<w, handed + 1 + Rank(w, S)>> : w \in S}
         /\ handed' = handed + Cardinality(S)
         /\ wrapper_job_id' = handed'

-----------------------------------------------------------------------------
(* The machines *)

\* WrapperPool.addWorker: no job is handed out.
Join(w) ==
    /\ connected /\ w \notin workers
    /\ workers' = workers \cup {w}
    /\ UNCHANGED <<poolVars, shareVars, wrapper_job_id, sent, handed>>

\* WrapperPool.delWorker: the machine's connection ended, with its messages.
Leave(w) ==
    /\ w \in workers
    /\ workers' = workers \ {w}
    /\ sent' = {p \in sent : p[1] # w}
    /\ UNCHANGED <<poolVars, shareVars, wrapper_job_id, handed>>

\* workerWorkersInfo: a program that is ready to mine is handed a job.
WorkersInfo(w) ==
    /\ w \in workers
    /\ JobForWorkers({w}, job, job_workers)
    /\ UNCHANGED <<connected, refreshed, sessions, workers, shareVars>>

\* workerShare and both submitShare: a share of another id than the one the
\* wrapper remembers is dropped without a word.
Share(w, id) ==
    /\ w \in workers /\ <<w, id>> \in sent
    /\ id = wrapper_job_id
    /\ share_count < MaxSubmits
    /\ \E entry \in job_workers :
         /\ entry.id = id
         /\ pending' = pending \cup {[seq |-> share_count + 1, job_id |-> entry.data.job_id,
              extranonce2 |-> entry.data.extranonce2, ntime |-> entry.data.ntime]}
    /\ share_count' = share_count + 1
    /\ UNCHANGED <<poolVars, accepted, rejected, workers, wrapper_job_id, sent, handed>>

-----------------------------------------------------------------------------
(* The pool *)

Connect ==
    /\ ~connected
    /\ connected' = TRUE
    /\ job' = NewJob /\ job_workers' = {} /\ refreshed' = FALSE
    /\ wrapper_job_id' = None
    /\ pending' = {} /\ share_count' = 0 /\ accepted' = 0 /\ rejected' = 0
    /\ UNCHANGED <<sessions, workers, sent, handed>>

\* The connection ends, for whatever reason: the machines go back to the
\* queue and keep what they were sent.
Close ==
    /\ connected
    /\ connected' = FALSE
    /\ workers' = {}
    /\ pending' = {}
    /\ UNCHANGED <<job, job_workers, refreshed, sessions, share_count, accepted, rejected,
                   wrapper_job_id, sent, handed>>

\* The answer to mining.subscribe, or mining.set_extranonce: a new extranonce2
\* of zeros; nonce byte, coinbase and header stay.
SetExtranonce ==
    /\ connected /\ sessions < MaxSessions
    /\ sessions' = sessions + 1
    /\ job' = [job EXCEPT !.extranonce1 = sessions', !.extranonce2 = 0]
    /\ refreshed' = TRUE
    /\ UNCHANGED <<connected, job_workers, shareVars, workers, wrapper_job_id, sent, handed>>

\* Mutant: JobMng.updateJob does not clean the table.
UpdatedTableKeeps(j) == job_workers

\* JobMng.updateJob cleans the table when the job id is a new one.
UpdatedTable(j) == IF j # job.job_id THEN {} ELSE job_workers

\* Job.updateJob; the header is left as it is.
UpdatedJob(j, t) ==
    [job EXCEPT !.job_id = j, !.ntime = t, !.coin = job.extranonce1,
                !.extranonce2 = IF j # job.job_id THEN 0 ELSE @,
                !.nonce3 = IF j # job.job_id THEN 0 ELSE @]

\* mining.notify: only a new job id makes an accepted_job event, in which all
\* machines are handed a job.
Notify(j, t) ==
    /\ connected /\ job.extranonce1 # 0
    /\ refreshed' = (j = job.job_id)
    /\ JobForWorkers(IF j # job.job_id THEN workers ELSE {}, UpdatedJob(j, t), UpdatedTable(j))
    /\ UNCHANGED <<connected, sessions, workers, shareVars>>

\* Mutant: an answer is counted but its entry kept.
AnswerKeepsPending(s, ok) ==
    /\ UNCHANGED pending
    /\ IF ok THEN accepted' = accepted + 1 /\ UNCHANGED rejected
             ELSE rejected' = rejected + 1 /\ UNCHANGED accepted
    /\ UNCHANGED <<poolVars, share_count, workers, wrapper_job_id, sent, handed>>

\* The result of a mining.submit, in any order.
Answer(s, ok) ==
    /\ pending' = pending \ {s}
    /\ IF ok THEN accepted' = accepted + 1 /\ UNCHANGED rejected
             ELSE rejected' = rejected + 1 /\ UNCHANGED accepted
    /\ UNCHANGED <<poolVars, share_count, workers, wrapper_job_id, sent, handed>>

\* Mutant: a share without answer is reported, the connection kept.
AnswerTimeoutReports(n) ==
    /\ \E s \in pending : s.seq = n
    /\ UNCHANGED vars

\* The 2 s timer finds the n-th submit without result after 20 s.
AnswerTimeout(n) == (\E s \in pending : s.seq = n) /\ Close

-----------------------------------------------------------------------------
Init ==
    /\ connected = FALSE
    /\ workers = {} /\ wrapper_job_id = None
    /\ job = NewJob /\ job_workers = {} /\ refreshed = FALSE
    /\ sent = {} /\ handed = 0 /\ sessions = 0
    /\ pending = {} /\ share_count = 0 /\ accepted = 0 /\ rejected = 0

Next ==
    \/ \E w \in Machines : Join(w) \/ Leave(w) \/ WorkersInfo(w)
    \/ \E w \in Machines, id \in 1 .. handed : Share(w, id)
    \/ Connect \/ Close \/ SetExtranonce
    \/ \E n \in 1 .. MaxSubmits : AnswerTimeout(n)
    \/ \E j \in JobIds, t \in Times : Notify(j, t)
    \/ \E s \in pending, ok \in BOOLEAN : Answer(s, ok)

Spec == Init /\ [][Next]_vars

\* Node.js keeps calling the timer of JsonRpcClient, which looks at every
\* request.
FairSpec == Spec /\ \A n \in 1 .. MaxSubmits : WF_vars(AnswerTimeout(n))

-----------------------------------------------------------------------------
(* Properties *)

Headers == [job_id : JobIds \cup {None}, extranonce1 : Nat, extranonce2 : 0 .. Extranonces - 1,
            ntime : Times \cup {None}]

\* Every variable keeps its type; byte and extranonce stay in their width.
TypeOK ==
    /\ connected \in BOOLEAN /\ refreshed \in BOOLEAN
    /\ workers \subseteq Machines
    /\ wrapper_job_id \in (1 .. handed) \cup {None}
    /\ job \in [job_id : JobIds \cup {None}, extranonce1 : Nat, coin : Nat,
                extranonce2 : 0 .. Extranonces - 1, nonce3 : 0 .. Bytes - 1,
                ntime : Times \cup {None}, header : Headers]
    /\ \A entry \in job_workers : entry.id \in 1 .. handed
    /\ sent \subseteq Machines \X (1 .. handed)
    /\ handed \in Nat /\ sessions \in Nat
    /\ share_count \in Nat /\ accepted \in Nat /\ rejected \in Nat

\* What a machine hashes is the header with the job's fourth nonce byte.
SameSearch(a, b) == a.data.header = b.data.header /\ a.data.nonce3 = b.data.nonce3

\* Its header was built for an extranonce1 the pool had replaced by then.
Stale(entry) == entry.data.header.extranonce1 # entry.data.extranonce1

\* No two jobs of the table are searched for the same hashes, until the whole
\* space of a job was handed out: the byte and extranonce2 may wrap, the pool
\* may change extranonce1 or repeat a job.  Excepted are jobs handed out after
\* a set_extranonce and before the header is built with it: extranonce2 starts
\* again at zero, the coinbase and the byte go on, so what another machine
\* searches may be handed out again.  An extranonce1 never comes back.
DistinctSearch ==
    Cardinality(job_workers) <= Bytes * Extranonces =>
        \A a, b \in job_workers :
            a # b /\ SameSearch(a, b) => Stale(a) \/ Stale(b)

\* The header a machine hashes was built from the extranonce and the time
\* that are submitted with its shares, unless the pool changed the extranonce
\* or repeated a job id after the job was new.
HeaderMatches ==
    ~refreshed => \A entry \in job_workers :
        LET d == entry.data
        IN d.header = [job_id |-> d.job_id, extranonce1 |-> d.extranonce1,
                       extranonce2 |-> d.extranonce2, ntime |-> d.ntime]

\* Every id the client still takes shares for stands for its current job,
\* as it was when the job was new or refreshed since.
JobsAreCurrent == \A entry \in job_workers : entry.data.job_id = job.job_id

\* Every submitted share is accepted, rejected or still to be answered, until
\* the connection ends.
SharesAccounted ==
    /\ connected => share_count = accepted + rejected + Cardinality(pending)
    /\ accepted + rejected <= share_count

\* No submit stays unanswered for ever on a living connection.
SharesSettle ==
    \A n \in 1 .. MaxSubmits :
        (\E s \in pending : s.seq = n) ~> ~\E s \in pending : s.seq = n

=============================================================================
