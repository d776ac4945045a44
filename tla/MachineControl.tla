--------------------------- MODULE MachineControl ---------------------------
(***************************************************************************)
(* Remote control of one mining machine.  On the server, ControlWorker     *)
(* (ControlServer/WebControlWorkers.js) turns the commands of the web page *)
(* into start, stop and options messages, one command at a time behind     *)
(* worker.lock, and continues when the next app:workers_info or app:close  *)
(* arrives.  On the machine, App and Control (ControlClient/Main.js and    *)
(* Control.js) keep the settings file and at most one current program.     *)
(*                                                                         *)
(* The two ends share nothing but a TCP connection, one FIFO channel per   *)
(* direction.  When it breaks the server forgets the machine at once, with *)
(* whatever it was waiting for; the machine reads on until it notices,     *)
(* stops its program and connects again as a new machine.                  *)
(***************************************************************************)
EXTENDS Integers, Sequences, SequencesExt

CONSTANTS
    Options,      \* thread counts and priorities a user may choose
    TooMany,      \* those with more threads than the machine has processors
    DefaultOption, \* what a new machine starts with
    TestOption,   \* one thread, highest priority: what the selftest runs with
    Programs,     \* number of mining programs installed on the machine
    MaxCount,     \* measurements of one program in the selftest (10 in the code)
    Faults,       \* what may go wrong: "early", "stale", "death"
    MaxInFlight,  \* bound: messages in a channel when an unsolicited one is added
    MaxLosses,    \* bound: broken connections
    MaxStrays     \* bound: programs outside the current Control

ASSUME OptionsAssumption ==
    TooMany \subseteq Options /\ TestOption \notin Options /\ DefaultOption \in Options \ TooMany
ASSUME ProgramsAssumption == Programs \in Nat /\ MaxCount \in Nat \ {0}
ASSUME BoundsAssumption ==
    /\ MaxInFlight \in Nat /\ MaxLosses \in Nat /\ MaxStrays \in Nat
    /\ Faults \subseteq {"early", "stale", "death"}

VARIABLES
    linked,    \* the server has a ControlWorker for the machine
    sv,        \* that ControlWorker
    toClient,  \* messages from the server
    toServer,  \* messages from the machine
    online,    \* App.net_client is connected
    saved,     \* the options in the machine's settings file
    cur,       \* App.control: "none" or the state of the Control and its program
    curStart,  \* what the current Control was started with
    strays,    \* Controls closed before their UDP port was bound
    losses,    \* number of broken connections so far
    early,     \* history: a command was taken before app:options arrived
    strayed    \* history: some Control became a stray

serverVars == <<linked, sv>>
clientVars == <<cur, curStart, strays, strayed>>
vars == <<linked, sv, toClient, toServer, online, saved, cur, curStart, strays,
          losses, early, strayed>>

AllOptions == Options \cup {TestOption}
Targets == {"working", "stopped", "none"}        \* "none": undefined
Saved == [opt : AllOptions, target : Targets, path : BOOLEAN]
StartInfo == [opt : AllOptions, path : BOOLEAN]
StrayStates == {"binding", "spawned", "ready", "short"}
Running == {"ready", "short"}   \* programs that report every second
ToClient == [type : {"options"}, saved : Saved] \cup [type : {"start"}, start : StartInfo]
              \cup [type : {"stop"}]
ToServer == [type : {"options"}, saved : Saved] \cup [type : {"workers_info", "info", "close"}]

\* worker.path abstracts worker_path with workers_perfomance: a program is
\* chosen.  wait names the callback in next_cb, after the caller's callback
\* of controlTest, infos the measurements onInfo still wants (0: no onInfo).
ControlWorker ==
    [state : {"stopped", "working"}, lock : BOOLEAN, greeted : BOOLEAN,
     opt : AllOptions, target : Targets, path : BOOLEAN,
     wait : {"none", "unlock", "accept", "restart", "selftest", "case", "next"},
     after : {"unlock", "start", "accept"},
     left : 0..Programs, best : BOOLEAN, kept : AllOptions, infos : 0..MaxCount]

NewControlWorker ==
    [state |-> "stopped", lock |-> FALSE, greeted |-> FALSE,
     opt |-> DefaultOption, target |-> "none", path |-> FALSE,
     wait |-> "none", after |-> "unlock",
     left |-> 0, best |-> FALSE, kept |-> DefaultOption, infos |-> 0]

-----------------------------------------------------------------------------
(* ControlWorker.  A handler runs to completion, so it maps the worker and *)
(* the messages sent so far to the new worker and all messages sent: a     *)
(* record r with the fields w and out.                                     *)

Result(w, out) == [w |-> w, out |-> out]

Unlock(r) == Result([r.w EXCEPT !.lock = FALSE], r.out)

\* controlStart, controlStop: the message, then controlWaitStartOrClose.
StartMessage(w) == [type |-> "start", start |-> [opt |-> w.opt, path |-> w.path]]
StopMessage == [type |-> "stop"]

ControlStart(r, wait) == Result([r.w EXCEPT !.wait = wait], Append(r.out, StartMessage(r.w)))
ControlStop(r, wait) == Result([r.w EXCEPT !.wait = wait], Append(r.out, StopMessage))

\* controlOptions: what the machine is to save.
Settings(w) == [opt |-> w.opt, target |-> w.target, path |-> w.path]
OptionsMessage(w) == [type |-> "options", saved |-> Settings(w)]

ControlOptions(r) == Result(r.w, Append(r.out, OptionsMessage(r.w)))

\* The callback controlTest was given; the test's own variables are gone.
AfterTest(r) ==
    LET q == Result([r.w EXCEPT !.after = "unlock", !.best = FALSE, !.kept = DefaultOption], r.out)
    IN CASE r.w.after = "unlock" -> Unlock(q)
         [] r.w.after = "start"  -> ControlStart(q, "unlock")
         [] r.w.after = "accept" -> ControlStart(q, "accept")

\* The test runs a program; it ends with the options of opt and the best program.
TestProgram(r) ==
    ControlStart(Result([r.w EXCEPT !.opt = TestOption, !.path = TRUE], r.out), "case")
EndOfTest(r, opt) ==
    AfterTest(ControlOptions(Result([r.w EXCEPT !.opt = opt, !.path = r.w.best], r.out)))

\* Mutant: the user's options are not put back at the end of the test.
ControlStartLongTestKeeps(r) ==
    IF r.w.left > 0
    THEN TestProgram(r)
    ELSE EndOfTest(r, r.w.opt)

\* Mutant: one program past the end of the list.
ControlStartLongTestOnePast(r) ==
    IF r.w.left >= 0
    THEN TestProgram(r)
    ELSE EndOfTest(r, r.w.kept)

\* controlStartLongTest: the next program, or the end of the test, which
\* puts the user's options back and chooses the best program.
ControlStartLongTest(r) ==
    IF r.w.left > 0
    THEN TestProgram(r)
    ELSE EndOfTest(r, r.w.kept)

\* Without app:options there are no lists of programs: the callback at once.
ControlTest(r, after) ==
    IF ~r.w.greeted
    THEN AfterTest(Result([r.w EXCEPT !.after = after], r.out))
    ELSE ControlStartLongTest(Result([r.w EXCEPT !.after = after, !.left = Programs,
                                                 !.best = FALSE, !.kept = r.w.opt], r.out))

NextCase(r) == ControlStartLongTest(Result([r.w EXCEPT !.left = @ - 1], r.out))

\* nextEmit: the one pending callback, which is forgotten first.
NextEmit(r, isStart) ==
    LET q == Result([r.w EXCEPT !.wait = "none"], r.out)
    IN CASE r.w.wait = "none"     -> r
         [] r.w.wait = "unlock"   -> Unlock(q)
         [] r.w.wait = "accept"   -> Unlock(ControlOptions(Result([q.w EXCEPT !.target = "working"], r.out)))
         [] r.w.wait = "restart"  -> ControlStart(q, "unlock")
         [] r.w.wait = "selftest" -> ControlTest(q, "start")
         [] r.w.wait = "case"     -> IF isStart THEN Result([q.w EXCEPT !.infos = MaxCount], r.out)
                                     ELSE NextCase(q)
         [] r.w.wait = "next"     -> NextCase(q)

\* appOptions takes over what the machine has saved.
Greeted(r, s) ==
    Result([r.w EXCEPT !.greeted = TRUE, !.lock = TRUE,
                       !.opt = s.opt, !.target = s.target, !.path = s.path], r.out)

\* Mutant: a machine meant to be working is not started again.
AppOptionsNoRestart(r, s) ==
    LET q == Greeted(r, s)
    IN IF ~s.path THEN ControlTest(q, "accept") ELSE Unlock(q)

\* A machine without a chosen program is tested and started; one
\* that is meant to be working is started.
AppOptions(r, s) ==
    LET q == Greeted(r, s)
    IN IF ~s.path THEN ControlTest(q, "accept")
       ELSE IF s.target = "working" THEN ControlStart(q, "unlock")
       ELSE Unlock(q)

AppWorkersInfo(r) == NextEmit(Result([r.w EXCEPT !.state = "working"], r.out), TRUE)

\* Mutant: the close is not passed to the waiting callback.
AppCloseSilent(r) == Result([r.w EXCEPT !.state = "stopped"], r.out)

AppClose(r) == NextEmit(Result([r.w EXCEPT !.state = "stopped"], r.out), FALSE)

\* The measurement that completes a program ends it; one fewer is awaited.
AppInfo(r) ==
    CASE r.w.infos = 0 -> r
      [] r.w.infos = 1 -> ControlStop(Result([r.w EXCEPT !.infos = 0, !.best = TRUE], r.out), "next")
      [] OTHER         -> Result([r.w EXCEPT !.infos = @ - 1], r.out)

-----------------------------------------------------------------------------
(* Commands of the web page.  Its buttons follow its view of the machine,  *)
(* which may be out of date ("stale") or of a machine whose app:options    *)
(* are still on the way ("early").                                         *)

Worker == Result(sv, <<>>)

\* The handler ends with the worker and the messages of r.
Becomes(r) ==
    /\ sv' = r.w
    /\ toClient' = toClient \o r.out

\* Mutant: commands are taken while another is in progress.
AcceptsAlways == TRUE

\* control() ignores every command while the worker is locked.
Accepts == ~sv.lock

Command ==
    /\ linked
    /\ Accepts
    /\ sv.greeted \/ "early" \in Faults
    /\ Len(toClient) < MaxInFlight /\ Len(toServer) < MaxInFlight
    /\ early' = (early \/ ~sv.greeted)
    /\ UNCHANGED <<linked, toServer, online, saved, losses, clientVars>>

StartHandler ==
    ControlStart(
        ControlOptions(Result([sv EXCEPT !.target = "working", !.lock = TRUE], <<>>)), "unlock")

ControlStartCommand ==
    /\ Command
    /\ sv.state = "stopped" \/ "stale" \in Faults
    /\ Becomes(StartHandler)

StopHandler ==
    ControlStop(
        ControlOptions(Result([sv EXCEPT !.target = "stopped", !.lock = TRUE], <<>>)), "unlock")

ControlStopCommand ==
    /\ Command
    /\ sv.state = "working" \/ "stale" \in Faults
    /\ Becomes(StopHandler)

\* setWorker with the page's copy of the worker, which has no target_state.
SetWorker(o) == [sv EXCEPT !.opt = o, !.target = "none"]

OptionsHandler(o) ==
    LET r == ControlOptions(Result([SetWorker(o) EXCEPT !.lock = TRUE], <<>>))
    IN IF sv.state = "working" THEN ControlStop(r, "restart") ELSE Unlock(r)

ControlOptionsCommand(o) ==
    /\ Command
    /\ Becomes(OptionsHandler(o))

\* A new name: the options come with it, as the page last saw them unlocked.
ControlNameCommand(o) ==
    /\ Command
    /\ o = sv.opt \/ "stale" \in Faults
    /\ Becomes(ControlOptions(Result(SetWorker(o), <<>>)))

SelftestHandler ==
    LET r == Result([sv EXCEPT !.lock = TRUE], <<>>)
    IN IF sv.state = "working" THEN ControlStop(r, "selftest") ELSE ControlTest(r, "unlock")

ControlSelftestCommand ==
    /\ Command
    /\ Becomes(SelftestHandler)

-----------------------------------------------------------------------------
(* The machine *)

\* What the machine sends is lost once the server has dropped the connection.
Sent(msgs) == IF linked THEN toServer \o msgs ELSE toServer
Send(msgs) == toServer' = Sent(msgs)

CloseMessage == IF cur \in {"none", "closed"} THEN <<>> ELSE <<[type |-> "close"]>>

\* control_Close: a Control emits "close" once.  One whose UDP port is not
\* bound yet has neither a socket to close nor a program to kill.
ControlClose ==
    IF cur = "binding"
    THEN /\ Len(strays) < MaxStrays
         /\ strays' = Append(strays, [state |-> "binding", start |-> curStart])
         /\ strayed' = TRUE
    ELSE UNCHANGED <<strays, strayed>>

ClientStart(start) ==
    /\ ControlClose
    /\ Send(CloseMessage)
    /\ cur' = "binding" /\ curStart' = start
    /\ UNCHANGED saved

ClientStop ==
    /\ ControlClose
    /\ Send(CloseMessage)
    /\ cur' = "none"
    /\ UNCHANGED <<curStart, saved>>

ClientOptions(s) ==
    /\ saved' = s
    /\ UNCHANGED <<toServer, clientVars>>

ClientReceive ==
    /\ online /\ toClient # <<>>
    /\ LET msg == Head(toClient)
       IN \/ msg.type = "start" /\ ClientStart(msg.start)
          \/ msg.type = "stop" /\ ClientStop
          \/ msg.type = "options" /\ ClientOptions(msg.saved)
    /\ toClient' = Tail(toClient)
    /\ UNCHANGED <<serverVars, online, losses, early>>

\* Everything else a Control does leaves the rest alone.
ControlStep == UNCHANGED <<serverVars, toClient, online, saved, curStart, losses, early, strayed>>

\* The UDP port is bound: createProgram.
Listening ==
    /\ cur = "binding"
    /\ cur' = "spawned"
    /\ UNCHANGED <<toServer, strays>> /\ ControlStep

\* As many worker_info datagrams arrive as threads were asked for.  Startup
\* starts no more threads than there are processors.
CanBeReady(start) == start.path /\ start.opt \notin TooMany

\* Startup lowers the number of threads in its own copy and runs, but never
\* sends as many worker_info datagrams as were asked for.
RunsShort(start) == start.path /\ start.opt \in TooMany

Ready ==
    /\ cur = "spawned" /\ CanBeReady(curStart)
    /\ cur' = "ready"
    /\ Send(<<[type |-> "workers_info"]>>)
    /\ UNCHANGED strays /\ ControlStep

\* Control.cl_worker_info goes on waiting: no workers_info, and no close either.
Short ==
    /\ cur = "spawned" /\ RunsShort(curStart)
    /\ cur' = "short"
    /\ UNCHANGED <<toServer, strays>> /\ ControlStep

Info ==
    /\ cur \in Running /\ Len(toServer) < MaxInFlight
    /\ Send(<<[type |-> "info"]>>)
    /\ UNCHANGED <<cur, strays>> /\ ControlStep

\* The program ends by itself, or its Control closes after an error.
StartFails ==
    /\ cur \in {"binding", "spawned"}
    /\ cur' = "closed"
    /\ Send(<<[type |-> "close"]>>)
    /\ UNCHANGED strays /\ ControlStep

ProgramDies ==
    /\ "death" \in Faults
    /\ cur \in Running
    /\ cur' = "closed"
    /\ Send(<<[type |-> "close"]>>)
    /\ UNCHANGED strays /\ ControlStep

\* A stray goes on when its port is bound; its close was emitted already.
StrayStep(i) ==
    \/ /\ strays[i].state = "binding"
       /\ strays' = [strays EXCEPT ![i].state = "spawned"]
       /\ UNCHANGED toServer
    \/ /\ strays[i].state = "spawned" /\ CanBeReady(strays[i].start)
       /\ strays' = [strays EXCEPT ![i].state = "ready"]
       /\ Send(<<[type |-> "workers_info"]>>)
    \/ /\ strays[i].state = "spawned" /\ RunsShort(strays[i].start)
       /\ strays' = [strays EXCEPT ![i].state = "short"]
       /\ UNCHANGED toServer
    \/ /\ strays[i].state \in Running /\ Len(toServer) < MaxInFlight
       /\ Send(<<[type |-> "info"]>>)
       /\ UNCHANGED strays
    \/ /\ strays[i].state \notin Running \/ "death" \in Faults
       /\ strays' = RemoveAt(strays, i)
       /\ UNCHANGED toServer

Stray ==
    /\ \E i \in DOMAIN strays : StrayStep(i)
    /\ UNCHANGED cur /\ ControlStep

-----------------------------------------------------------------------------
(* The connection *)

ServerReceive ==
    /\ linked /\ toServer # <<>>
    /\ LET msg == Head(toServer)
       IN \/ msg.type = "options" /\ Becomes(AppOptions(Worker, msg.saved))
          \/ msg.type = "workers_info" /\ Becomes(AppWorkersInfo(Worker))
          \/ msg.type = "info" /\ Becomes(AppInfo(Worker))
          \/ msg.type = "close" /\ Becomes(AppClose(Worker))
    /\ toServer' = Tail(toServer)
    /\ UNCHANGED <<linked, online, saved, losses, early, clientVars>>

\* The server loses the connection: workerDisconnect deletes the
\* ControlWorker.  What it had sent may still arrive.
LoseLink ==
    /\ linked /\ losses < MaxLosses
    /\ linked' = FALSE /\ sv' = NewControlWorker
    /\ toServer' = <<>>
    /\ losses' = losses + 1
    /\ early' = FALSE
    /\ UNCHANGED <<toClient, online, saved, clientVars>>

\* Mutant: the program keeps running without the server.
NetCloseKeepsMining ==
    /\ online /\ ~linked
    /\ online' = FALSE /\ toClient' = <<>>
    /\ UNCHANGED <<serverVars, toServer, saved, losses, early, clientVars>>

\* net_client_onClose
NetClose ==
    /\ online /\ ~linked
    /\ online' = FALSE /\ toClient' = <<>>
    /\ ControlClose
    /\ cur' = "none"
    /\ UNCHANGED <<serverVars, toServer, saved, curStart, losses, early>>

\* net_client_Start a second later, then net_client_onConnect.
NetConnect ==
    /\ ~online
    /\ online' = TRUE /\ linked' = TRUE
    /\ sv' = NewControlWorker
    /\ toServer' = <<[type |-> "options", saved |-> saved]>>
    /\ UNCHANGED <<toClient, saved, losses, early, clientVars>>

-----------------------------------------------------------------------------
\* A new machine: default options, no target, no program chosen yet.
Init ==
    /\ linked = FALSE /\ sv = NewControlWorker
    /\ toClient = <<>> /\ toServer = <<>>
    /\ online = FALSE
    /\ saved = [opt |-> DefaultOption, target |-> "none", path |-> FALSE]
    /\ cur = "none"
    /\ curStart = [opt |-> DefaultOption, path |-> FALSE]
    /\ strays = <<>> /\ strayed = FALSE
    /\ losses = 0 /\ early = FALSE

Page ==
    \/ ControlStartCommand \/ ControlStopCommand
    \/ \E o \in Options : ControlOptionsCommand(o) \/ ControlNameCommand(o)
    \/ ControlSelftestCommand

Program == Listening \/ Ready \/ Short \/ Info \/ StartFails \/ ProgramDies

Next ==
    \/ Page \/ ClientReceive \/ Program \/ Stray
    \/ ServerReceive \/ LoseLink \/ NetClose \/ NetConnect

Spec == Init /\ [][Next]_vars

\* Node.js serves its sockets and timers; Startup finishes its check or gives up
\* within two seconds and reports once a second.  The page promises nothing.
Fairness ==
    /\ WF_vars(ClientReceive) /\ WF_vars(ServerReceive)
    /\ WF_vars(Listening \/ Ready \/ Short \/ StartFails) /\ WF_vars(Info)
    /\ WF_vars(NetClose) /\ WF_vars(NetConnect)

FairSpec == Spec /\ Fairness

-----------------------------------------------------------------------------
(* Properties *)

\* The fields of the two ends and the messages have the types of the code.
TypeOK ==
    /\ linked \in BOOLEAN /\ sv \in ControlWorker
    /\ toClient \in Seq(ToClient) /\ toServer \in Seq(ToServer)
    /\ online \in BOOLEAN /\ saved \in Saved
    /\ cur \in {"none", "closed"} \cup StrayStates /\ curStart \in StartInfo
    /\ strays \in Seq([state : StrayStates, start : StartInfo]) /\ Len(strays) <= MaxStrays
    /\ losses \in 0..MaxLosses /\ early \in BOOLEAN /\ strayed \in BOOLEAN

Testing == sv.wait \in {"case", "next"} \/ sv.infos > 0

\* The lock and the single callback slot agree, through every chain of
\* callbacks: a locked worker waits for one thing, the next event or a
\* measurement, and an unlocked one for nothing that an event meant for a
\* later command could trigger.  (A command taken before app:options arrives
\* breaks this: appOptions overwrites its callback.)
LockIsPending ==
    linked /\ ~early => IF sv.lock THEN (sv.wait # "none") # (sv.infos > 0)
                        ELSE sv.wait = "none" /\ sv.infos = 0

\* With nothing on the way, the state the server shows is the machine's, after
\* any crossing of commands, ends of programs and lost connections.  A
\* program with fewer threads than asked for is never shown as working.  (A
\* stray program reports under the name of the current one and breaks this.)
ViewAgrees ==
    linked /\ ~strayed /\ toClient = <<>> /\ toServer = <<>> =>
        (sv.state = "working" <=> cur = "ready")

\* What the machine has saved is what the server holds whenever no message
\* that says otherwise is on the way; outside a selftest, whose options are
\* never saved, not even if the connection breaks in the middle of it.
SettingsAgree ==
    /\ saved.opt # TestOption
    /\ linked /\ sv.greeted /\ ~early /\ ~Testing
         /\ (\A i \in DOMAIN toClient : toClient[i].type # "options") =>
       saved = Settings(sv)

\* Nothing is on the way and no program is starting: only the page, a report of
\* a running program or its death can make the next step.
Quiet == linked /\ toClient = <<>> /\ toServer = <<>> /\ cur \notin {"binding", "spawned"}

\* When all is quiet, a locked worker waits in vain in these three cases and no
\* other: a command waits for a machine that has no program, the
\* selftest measures a program that has died, or the machine runs a program
\* with fewer threads than asked for, which reports neither start nor end.
\* Otherwise it measures a running program.  In particular a stop inside a
\* restart or a selftest, and the start of a selftest's program, never hang.
\* (Strays and commands taken before app:options mix up what is waited for.)
HangsOnlyHere ==
    Quiet /\ sv.lock /\ ~strayed /\ ~early =>
        \/ sv.wait = "unlock" /\ sv.state = "stopped" /\ cur = "none"
        \/ sv.infos > 0 /\ cur = "closed"
        \/ sv.wait \in {"unlock", "accept"} /\ sv.state = "stopped" /\ cur = "short"
        \/ sv.infos > 0 /\ cur = "ready"

\* The lock is released, provided the programs do not die while they run,
\* nobody stops a stopped machine and no more threads are asked for than fit;
\* the reports of a stray can mislead the server into one of those cases.
LockReleased == sv.lock ~> ~sv.lock \/ strayed

\* After every loss of the connection a machine that was meant to be working
\* is started again, unless a command tells otherwise meanwhile.
StartedAgain ==
    ~linked /\ saved.target = "working" ~>
        linked /\ (cur # "none" \/ saved.target # "working")

=============================================================================
