----------------------------- MODULE WebControl -----------------------------
(***************************************************************************)
(* Who selects the pool (ControlServer/WebControl.js), composed with the   *)
(* stratum proxy that connects to it (StratumProxy).  Three parties give   *)
(* the proxy its orders: the web page, the failover that counts closed     *)
(* connections, and the developer-fee loop, which takes over for a while   *)
(* and then hands back.  The proxy answers with the events                 *)
(* stratum:client:open and stratum:client:close; a socket told to close    *)
(* raises the second in a later turn, when somebody else may be in charge. *)
(***************************************************************************)
EXTENDS StratumProxy

CONSTANTS
    PoolLists,      \* lists of user pools the page may store
    DevPoolLists,   \* lists of developer pools Dev.js may announce
    RetryCount,     \* retry_count_connect of every user pool
    MaxIndex,       \* bound: highest pool index a page sends
    MaxDevIndex,    \* bound: dev_pool_index counts modulo this
    MaxDeferred,    \* bound: pending reconnects when a timer of seconds fires
    MaxCommands     \* bound: commands of the page

DevInfos == UNION {Range(l) : l \in DevPoolLists}

ASSUME PoolListsAssumption ==
    /\ PoolLists \subseteq Seq(PoolInfos) /\ DevPoolLists \subseteq Seq(PoolInfos)
    /\ \A l \in PoolLists : Range(l) \cap DevInfos = {}
    /\ <<>> \notin DevPoolLists
ASSUME RetryCountAssumption == RetryCount \in Nat \ {0}
ASSUME WebBoundsAssumption ==
    MaxIndex \in Nat /\ MaxDevIndex \in Nat \ {0} /\ MaxDeferred \in Nat /\ MaxCommands \in Nat

VARIABLES
    settings,          \* settings.pools
    selected,          \* index of the pool with pool_count = 1, 0 if none
    user_pool_index,   \* the pool to return to after dev time
    dev_time,          \* dev_time, with the two locks set together with it
    dev_pool_list,     \* the developer pools known, empty at first
    dev_pool_index,
    disconnect_count,  \* closes left before failover; 0 stands for less, too
    open_pool_count,   \* stratum clients opened and not closed
    deferred,          \* reconnects scheduled with setTimeout(..., 0)
    commands,          \* number of page commands so far
    stopped            \* history: the last choice of the user was no pool

webVars == <<settings, selected, user_pool_index, dev_time, dev_pool_list, dev_pool_index,
             disconnect_count, open_pool_count, deferred, commands, stopped>>
allVars == <<vars, webVars>>

-----------------------------------------------------------------------------
(* The events of the stratum clients *)

\* Clients the proxy opens in this step, other than refused ones.
Opened == {c \in Clients : phase[c] = "none" /\ phase'[c] # "none"}

\* Clients addPoolAuto opens for settings that their constructor refuses:
\* each raises "open" and "close" before addPoolAuto returns.
Refused(info) ==
    LET wanted == Ceil(Len(freeWorkers), MaxWorkersCount) - Cardinality(openNoConnectPools)
    IN IF info \notin BadPoolInfos THEN 0
       ELSE IF Held = {} /\ wanted = 0 THEN 1
       ELSE IF wanted < 0 THEN 0 ELSE wanted

\* Mutant: in dev time closes are not counted at all.
ClosedNotInDevTime(n) ==
    open_pool_count' = open_pool_count + Cardinality(Opened) - IF dev_time THEN 0 ELSE n

\* open_pool_count after the opens of the step and n closes.
Closed(n) == open_pool_count' = open_pool_count + Cardinality(Opened) - n

\* Mutant: the closes are counted, and nothing else.
CountClosesOnly(n, count, dev) ==
    /\ disconnect_count' = IF dev THEN count ELSE IF n > count THEN 0 ELSE count - n
    /\ UNCHANGED deferred

\* n close events, disconnect_count being `count' and dev_time `dev': each
\* one that finds no retry left schedules a reconnect.
CountCloses(n, count, dev) ==
    /\ disconnect_count' = IF dev THEN count ELSE IF n > count THEN 0 ELSE count - n
    /\ deferred' = deferred + IF dev \/ n <= count THEN 0 ELSE n - count

-----------------------------------------------------------------------------
(* poolConnect, poolDisconnect *)

\* The pool at index i, which exists: disconnect, select, reset the retries.
SelectExisting(i, pending) ==
    /\ ControlPoolConnect(settings[i])
    /\ selected' = i
    /\ LET n == Refused(settings[i])
       IN /\ Closed(0)
          /\ disconnect_count' = IF n > RetryCount THEN 0 ELSE RetryCount - n
          /\ deferred' = pending + IF n <= RetryCount THEN 0 ELSE n - RetryCount

\* poolDisconnect, with nothing else.
Deselect ==
    /\ ControlPoolDisconnect
    /\ selected' = 0
    /\ UNCHANGED <<disconnect_count, open_pool_count, deferred>>

PageCommand ==
    /\ ~dev_time
    /\ commands < MaxCommands
    /\ commands' = commands + 1
    /\ UNCHANGED <<dev_time, dev_pool_list, dev_pool_index>>

\* An index without a pool is remembered all the same.
PagePoolConnect(i) ==
    /\ PageCommand
    /\ user_pool_index' = i
    /\ IF i \in DOMAIN settings
       THEN SelectExisting(i, deferred) /\ stopped' = FALSE
       ELSE UNCHANGED <<vars, selected, disconnect_count, open_pool_count, deferred, stopped>>
    /\ UNCHANGED settings

PagePoolDisconnect ==
    /\ PageCommand
    /\ Deselect
    /\ stopped' = TRUE
    /\ UNCHANGED <<settings, user_pool_index>>

\* Mutant: the connection for the old list goes on.
SettingsPoolsChangeOnly(list) ==
    /\ PageCommand
    /\ settings' = list
    /\ selected' = 0 /\ stopped' = TRUE
    /\ UNCHANGED <<vars, disconnect_count, open_pool_count, deferred, user_pool_index>>

\* settingsPoolsChange: a new list, none of it selected.
SettingsPoolsChange(list) ==
    /\ PageCommand
    /\ settings' = list
    /\ Deselect
    /\ stopped' = TRUE
    /\ UNCHANGED user_pool_index

-----------------------------------------------------------------------------
(* Failover *)

\* Mutant: the pool remembered for after dev time, selected or not.
FailoverTarget == IF user_pool_index \in DOMAIN settings THEN user_pool_index ELSE 0
ReconnectRemembered ==
    /\ deferred > 0
    /\ IF ~dev_time /\ FailoverTarget # 0
       THEN SelectExisting(FailoverTarget, deferred - 1) /\ user_pool_index' = FailoverTarget
       ELSE /\ deferred' = deferred - 1
            /\ UNCHANGED <<vars, selected, disconnect_count, open_pool_count, user_pool_index>>
    /\ UNCHANGED <<settings, dev_time, dev_pool_list, dev_pool_index, commands, stopped>>

\* Mutant: dev time is not looked at again.
ReconnectInDevTime ==
    /\ deferred > 0
    /\ IF settings # <<>>
       THEN LET next == (user_pool_index % Len(settings)) + 1
            IN SelectExisting(next, deferred - 1) /\ user_pool_index' = next
       ELSE /\ deferred' = deferred - 1
            /\ UNCHANGED <<vars, selected, disconnect_count, open_pool_count, user_pool_index>>
    /\ UNCHANGED <<settings, dev_time, dev_pool_list, dev_pool_index, commands, stopped>>

\* The timer of a close that found no retry left: the pool after the one
\* selected now, if one is and it is not dev time.
Reconnect ==
    /\ deferred > 0
    /\ IF ~dev_time /\ selected # 0
       THEN LET next == (selected % Len(settings)) + 1
            IN SelectExisting(next, deferred - 1) /\ user_pool_index' = next
       ELSE /\ deferred' = deferred - 1
            /\ UNCHANGED <<vars, selected, disconnect_count, open_pool_count, user_pool_index>>
    /\ UNCHANGED <<settings, dev_time, dev_pool_list, dev_pool_index, commands, stopped>>

-----------------------------------------------------------------------------
(* The developer fee *)

DevPools(list) ==
    /\ dev_pool_list' = list
    /\ UNCHANGED <<vars, settings, selected, user_pool_index, dev_time, dev_pool_index,
                   disconnect_count, open_pool_count, deferred, commands, stopped>>

\* The user's time is over.  Without a developer pool it begins again.
DevFeeStart ==
    /\ ~dev_time /\ dev_pool_list # <<>> /\ deferred < MaxDeferred
    /\ dev_time' = TRUE
    /\ dev_pool_index' = 0
    /\ Deselect
    /\ UNCHANGED <<settings, user_pool_index, dev_pool_list, commands, stopped>>

\* Mutant: only the first developer pool is tried.
DevFeeConnectFirstOnly ==
    /\ dev_time /\ open_pool_count = 0 /\ dev_pool_index = 0
    /\ LET info == dev_pool_list[1]
       IN ControlPoolConnect(info) /\ Closed(0)
    /\ dev_pool_index' = 1
    /\ UNCHANGED <<settings, selected, user_pool_index, dev_time, dev_pool_list,
                   disconnect_count, deferred, commands, stopped>>

\* devFeeConnect, every second: when no client is left, the next developer pool.
DevFeeConnect ==
    /\ dev_time /\ open_pool_count = 0
    /\ LET info == dev_pool_list[(dev_pool_index % Len(dev_pool_list)) + 1]
       IN ControlPoolConnect(info) /\ Closed(0)
    /\ dev_pool_index' = (dev_pool_index + 1) % MaxDevIndex
    /\ UNCHANGED <<settings, selected, user_pool_index, dev_time, dev_pool_list,
                   disconnect_count, deferred, commands, stopped>>

\* The end of dev time: the pool the user had last, even if it was stopped.
DevFeeEnd ==
    /\ dev_time
    /\ dev_time' = FALSE
    /\ IF user_pool_index \in DOMAIN settings
       THEN SelectExisting(user_pool_index, deferred) /\ stopped' = FALSE
       ELSE Deselect /\ UNCHANGED stopped
    /\ UNCHANGED <<settings, user_pool_index, dev_pool_list, dev_pool_index, commands>>

-----------------------------------------------------------------------------
(* The proxy's own steps, as WebControl hears of them *)

StratumLoop ==
    /\ Loop
    /\ deferred < MaxDeferred
    /\ Closed(0)
    /\ CountCloses(Refused(pool_connect_info), disconnect_count, dev_time)
    /\ UNCHANGED <<settings, selected, user_pool_index, dev_time, dev_pool_list,
                   dev_pool_index, commands, stopped>>

StratumClientClose(c) ==
    /\ SocketClose(c)
    /\ Closed(1)
    /\ CountCloses(1, disconnect_count, dev_time)
    /\ UNCHANGED <<settings, selected, user_pool_index, dev_time, dev_pool_list,
                   dev_pool_index, commands, stopped>>

StratumQuiet ==
    /\ \/ \E c \in Clients : PoolConnect(c) \/ ClientError(c)
       \/ \E w \in Workers : WorkerConnect(w) \/ WorkerDisconnect(w)
    /\ UNCHANGED webVars

-----------------------------------------------------------------------------
\* The constructor: the proxy is there, and poolConnect(0) has run.
WebInit ==
    /\ settings \in PoolLists
    /\ destroyed = {} /\ workers = {} /\ freeWorkers = <<>> /\ pools = {}
    /\ workerPool = [w \in Workers |-> NoPool]
    /\ poolWorkers = [c \in Clients |-> {}]
    /\ workersCount = [c \in Clients |-> 0]
    /\ pool_connect_info = IF settings = <<>> THEN NoPool ELSE settings[1]
    /\ selected = IF settings = <<>> THEN 0 ELSE 1
    /\ IF pool_connect_info \in BadPoolInfos \cup {NoPool}
       THEN openNoConnectPools = {}
       ELSE openNoConnectPools \in {{c} : c \in Clients}
    /\ phase = [c \in Clients |-> IF c \in openNoConnectPools THEN "opening" ELSE "none"]
    /\ options = [c \in Clients |-> IF c \in openNoConnectPools THEN pool_connect_info ELSE NoPool]
    /\ open_pool_count = Cardinality(openNoConnectPools)
    /\ disconnect_count = IF settings = <<>> THEN 0
                          ELSE IF settings[1] \in BadPoolInfos THEN RetryCount - 1 ELSE RetryCount
    /\ user_pool_index = 1
    /\ dev_time = FALSE /\ dev_pool_list = <<>> /\ dev_pool_index = 0
    /\ deferred = 0 /\ commands = 0 /\ stopped = FALSE

WebNext ==
    \/ \E i \in 1..MaxIndex : PagePoolConnect(i)
    \/ PagePoolDisconnect
    \/ \E list \in PoolLists : SettingsPoolsChange(list)
    \/ Reconnect
    \/ \E list \in DevPoolLists : DevPools(list)
    \/ DevFeeStart \/ DevFeeConnect \/ DevFeeEnd
    \/ StratumLoop
    \/ \E c \in Clients : StratumClientClose(c)
    \/ StratumQuiet

WebSpec == WebInit /\ [][WebNext]_allVars

\* Timers fire and destroyed sockets close; dev time lasts as long as it
\* lasts.  A pool is reachable often enough for an attempt to succeed.
WebFairness ==
    /\ WF_allVars(Reconnect) /\ WF_allVars(DevFeeConnect) /\ WF_allVars(StratumLoop)
    /\ \A c \in Clients : WF_allVars(c \in destroyed /\ StratumClientClose(c))
    /\ SF_allVars((\E c \in Clients : PoolConnect(c)) /\ UNCHANGED webVars)

WebFairSpec == WebSpec /\ WebFairness

-----------------------------------------------------------------------------
(* Properties *)

\* The types of the code.
WebTypeOK ==
    /\ TypeOK
    /\ settings \in PoolLists
    /\ selected \in 0..Len(settings)
    /\ user_pool_index \in Nat
    /\ dev_time \in BOOLEAN /\ stopped \in BOOLEAN
    /\ dev_pool_list \in DevPoolLists \cup {<<>>}
    /\ dev_pool_index \in Nat
    /\ disconnect_count \in 0..RetryCount
    /\ open_pool_count \in Nat /\ deferred \in Nat
    /\ commands \in 0..MaxCommands

\* The counter the developer-fee loop waits on is the number of clients that
\* exist, refused ones and those closing late for a former choice included:
\* if it drifted up no developer pool would ever be tried again.
OpenCountAgrees == open_pool_count = Cardinality(Live)

\* The fee is taken in its time only: whoever gives orders late, every
\* connection that was not told to close belongs to a developer pool in dev
\* time and to the user's list otherwise.
FeeInItsTime ==
    \A c \in Live \ destroyed : dev_time <=> options[c] \in DevInfos

\* Outside dev time the pool shown as selected is the one the proxy works
\* for, after any change of the list, failover or return from dev time.
SelectedAgrees ==
    /\ ~dev_time => pool_connect_info = IF selected = 0 THEN NoPool ELSE settings[selected]
    /\ dev_time => selected = 0

\* A user's stop holds until dev time ends: the closes it causes, which are
\* counted like any others, and the reconnects they schedule do not undo it.
StopHolds ==
    stopped /\ ~dev_time => pool_connect_info = NoPool /\ Live \subseteq destroyed

\* In dev time a developer pool is reached, however many connections were
\* still open when it began and whichever developer pools refuse.
DevPoolReached ==
    dev_time ~> ~dev_time \/ \E c \in pools : options[c] \in DevInfos

\* A selected pool whose settings are refused is left for the next one.
FailoverLeaves ==
    ~dev_time /\ selected # 0 /\ pool_connect_info \in BadPoolInfos /\ Len(settings) > 1
        ~> dev_time \/ pool_connect_info \notin BadPoolInfos

=============================================================================
