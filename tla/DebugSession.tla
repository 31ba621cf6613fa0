---------------------------- MODULE DebugSession ----------------------------
(***************************************************************************)
(* A session: one client, the server it is connected to and the processes  *)
(* it debugs.  ServerVictims is the server; this module adds the client    *)
(* (src/DollDbg.Client/DollDbg/Client/Client.py) with its table of victims *)
(* and its handlers, the user who calls it, and what the system does: it   *)
(* ends processes, sends Ctrl-C and breaks connections.                    *)
(*                                                                         *)
(* The death of the server is the end of a behaviour.                      *)
(***************************************************************************)
EXTENDS ServerVictims

CONSTANTS
    MaxRefs,    \* bound: loads of the module in one process
    MaxEvents   \* bound: what user and system start: requests, exits, Ctrl-C, lost connections

ASSUME EventsAssumption == MaxRefs \in Nat /\ MaxEvents \in Nat

VARIABLES
    crec,       \* _victims of the client: "none", "new", "ready", "going" (readyEvt is set)
    closing,    \* close(): "no", "called", "event" (waits for _closeEvt), "lost" (so it does, but
                \* its Ctrl-C was sent before main() waited, or the connection broke before the
                \* client was told), "closed", "raised"
    closeEvt,   \* _closeEvt
    events      \* how much user and system have started

clientVars == <<crec, closing, closeEvt>>
vars == <<processVars, serverVars, clientVars, events>>

\* (bound) User or system start something.
Event == events < MaxEvents /\ events' = events + 1

\* (bound) Requests numbered above MaxEvents are no events: they attach, once something has been
\* detached, and do not go together with close().
Later(r) == r > MaxEvents

\* (bound) Request r may be made.
InBounds(r, op) ==
    \/ ~Later(r) /\ Event
    \/ /\ Later(r)
       /\ op = "attach"
       /\ \E s \in Reqs : req[s].op = "detach"
       /\ closing = "no"
       /\ UNCHANGED events

\* _assertClientReady()
ClientReady == closing # "closed" /\ ~closeEvt

\* Client._victims[p].ready
VictimReady(p) == crec[p] \in {"ready", "going"}

\* attach() or launch() has returned a proxy.
HasProxy(p) == \E r \in Reqs : req[r].op = "prompt" /\ req[r].pid = p /\ At(r, "done")

----------------------------------------------------------------------------
(* Calls of the user.  "by" is the process in whose breakpoint handler     *)
(* the call is awaited.                                                    *)

Idle(r) == At(r, "idle") /\ \A s \in Reqs : At(s, "idle") => r <= s

Issue(r, op, p, by) ==
    /\ Alive
    /\ Connected
    /\ ClientReady
    /\ InBounds(r, op)
    /\ Idle(r)
    /\ req' = [req EXCEPT ![r] = [op |-> op, pid |-> p, pc |-> "sent", by |-> by,
                                 told |-> "no"]]
    /\ UNCHANGED <<fate, tableVars, mainVars, processVars, clientVars>>

InUser(by) == by = NoPid \/ (by \in Pids /\ mon[by] = "handler" /\ HasProxy(by))

ClientAttach(r, p) == life[p] = "alive" /\ refs[p] < MaxRefs /\ Issue(r, "attach", p, NoPid)

ClientLaunch(r, p) == life[p] = "none" /\ Issue(r, "launch", p, NoPid)

ClientKill(r, p) == life[p] = "alive" /\ Issue(r, "kill", p, NoPid)

\* loadLibrary(), bpSet(), eval(), input(), close() of a proxy
ClientUse(r, op, p, by) ==
    /\ op \in {"use", "eval", "input", "detach"}
    /\ HasProxy(p)
    /\ IF op = "detach" THEN crec[p] # "none" ELSE VictimReady(p)
    /\ InUser(by)
    /\ Issue(r, op, p, by)

RequestEnds(r, pc) ==
    /\ req' = [req EXCEPT ![r].pc = pc, ![r].by = NoPid, ![r].told = "no"]
    /\ UNCHANGED <<fate, tableVars, mainVars, processVars, clientVars>>

\* An attach is answered and goes on in _victimNew() with a new record of the victim.
ClientNew(r) == LET p == req[r].pid IN
    /\ Alive
    /\ Connected
    /\ At(r, "answer")
    /\ req[r].op \in {"attach", "launch"}
    /\ req' = [Told(p, "deaf") EXCEPT ![r].pc = "ready"]
    /\ crec' = [crec EXCEPT ![p] = "new"]
    /\ UNCHANGED <<fate, tableVars, mainVars, processVars, closing, closeEvt>>

\* A detach goes on in _victimWait(); an input needs the prompt, too.
ClientAnswer(r) ==
    /\ Alive
    /\ Connected
    /\ At(r, "answer")
    /\ \/ req[r].op = "detach" /\ RequestEnds(r, "gone")
       \/ req[r].op \in {"use", "eval", "kill"} /\ RequestEnds(r, "done")
       \/ /\ Prompting(r)
          /\ Goto(r, "silent")
          /\ UNCHANGED <<fate, tableVars, mainVars, processVars, clientVars>>

\* The answer is an exception, or none can arrive.  An input that waits for the prompt does not
\* look.
ClientRaises(r) ==
    /\ Alive
    /\ \/ At(r, "error")
       \/ At(r, "answer") /\ ~Connected
    /\ \/ ~Prompting(r) /\ RequestEnds(r, "raised")
       \/ /\ Prompting(r)
          /\ Goto(r, "mute")
          /\ UNCHANGED <<fate, tableVars, mainVars, processVars, clientVars>>

ClientPrompted(r) ==
    /\ Alive
    /\ At(r, "silent") \/ At(r, "mute")
    /\ req[r].told = "yes"
    /\ RequestEnds(r, IF At(r, "silent") THEN "done" ELSE "raised")

\* The initial break has been reported: the prompt is asked for and attach() returns.
ClientAttached(r) ==
    /\ Alive
    /\ At(r, "ready")
    /\ VictimReady(req[r].pid)
    /\ IF Connected /\ ClientReady
       THEN req' = [req EXCEPT ![r].op = "prompt", ![r].pc = "sent"]
       ELSE Goto(r, "raised")
    /\ UNCHANGED <<fate, tableVars, mainVars, processVars, clientVars>>

\* The record that attach() waits for, or detach() waits for to go, is gone.
ClientGone(r) ==
    /\ Alive
    /\ At(r, "ready") \/ At(r, "gone")
    /\ crec[req[r].pid] = "none"
    /\ RequestEnds(r, IF At(r, "gone") THEN "done" ELSE "raised")

\* ready() of the proxy
ClientReadyCall(p) ==
    /\ Alive
    /\ ClientReady
    /\ HasProxy(p)
    /\ crec[p] = "ready"
    /\ crec' = [crec EXCEPT ![p] = "going"]
    /\ UNCHANGED <<serverVars, processVars, closing, closeEvt>>

----------------------------------------------------------------------------
(* Handlers of the client.                                                 *)

\* _onRpcNotifyHook() finds no record, or the client is closing: it raises and the monitor
\* fails.
NotifyRaises(p) ==
    /\ MonitorAt(p, "notify")
    /\ Connected
    /\ ~ClientReady \/ crec[p] = "none"
    /\ MonitorTo(p, "failed")
    /\ MonitorUnchanged
    /\ UNCHANGED <<offline, clientVars>>

\* (mutant) the event is waited for before the record is marked
MarkedLate(p) == crec

Marked(p) == [crec EXCEPT ![p] = IF @ = "new" THEN "ready" ELSE @]

\* The initial break, then breakpoints.
NotifyArrives(p) ==
    /\ MonitorAt(p, "notify")
    /\ Connected
    /\ ClientReady
    /\ crec[p] # "none"
    /\ MonitorTo(p, IF first[p] THEN "initial" ELSE "handler")
    /\ crec' = IF first[p] THEN Marked(p) ELSE crec
    /\ MonitorUnchanged
    /\ UNCHANGED <<offline, closing, closeEvt>>

\* readyEvt is set, or the handler returns; whatever it awaits has come back.
NotifyAnswers(p) ==
    /\ Connected
    /\ \/ MonitorAt(p, "initial") /\ crec[p] = "going"
       \/ MonitorAt(p, "handler") /\ \A r \in Reqs : req[r].by = p => req[r].pc \in {"done", "raised"}
    /\ MonitorTo(p, "resume")
    /\ MonitorUnchanged
    /\ UNCHANGED <<offline, clientVars>>

\* _onRpcOffline() raises when the victim was never ready, or the client is closing.
ClientOffline(p) ==
    /\ MonitorAt(p, "offline")
    /\ Connected
    /\ MonitorTo(p, "check")
    /\ IF ClientReady /\ VictimReady(p)
       THEN crec' = [crec EXCEPT ![p] = "none"] /\ req' = Told(p, "deaf")
       ELSE UNCHANGED <<crec, req>>
    /\ UNCHANGED <<fate, vic, pending, first, offline, mainVars, processVars, closing, closeEvt>>

\* (mutant) the node is reset without a word
ShutdownUntold == closeEvt

\* The client is told, and sets _closeEvt.
ShutdownTold == closeEvt \/ link = "up"

\* ~Server() calls Shutdown and resets its node.
SessionShutdown ==
    /\ MainShutdown
    /\ closeEvt' = ShutdownTold
    /\ UNCHANGED <<crec, closing>>

----------------------------------------------------------------------------
(* close()                                                                 *)

CloseCall ==
    /\ Alive
    /\ Connected
    /\ closing = "no"
    /\ \A r \in Reqs : Later(r) => At(r, "idle")
    /\ closing' = "called"
    /\ UNCHANGED <<serverVars, processVars, crec, closeEvt>>

\* _onRpcOffline() of the server sends itself a Ctrl-C.
CloseServed ==
    /\ Alive
    /\ Connected
    /\ closing = "called"
    /\ RaiseCtrlC
    /\ closing' = IF main \in {"gap", "registered"} THEN "lost" ELSE "event"
    /\ UNCHANGED <<main, todo, link, processVars, crec, closeEvt>>
    /\ MainUnchanged

CloseRaises ==
    /\ Alive
    /\ ~Connected
    /\ closing = "called"
    /\ closing' = "raised"
    /\ UNCHANGED <<serverVars, processVars, crec, closeEvt>>

CloseDone ==
    /\ Alive
    /\ closing \in {"event", "lost"}
    /\ closeEvt
    /\ closing' = "closed"
    /\ crec' = [p \in Pids |-> "none"]
    /\ link' = LinkEnded
    /\ UNCHANGED <<main, todo, ctrl, processVars, closeEvt>>
    /\ MainUnchanged

----------------------------------------------------------------------------
(* The rest of the system.                                                 *)

ProcessDies(p) ==
    /\ Alive
    /\ Event
    /\ life[p] = "alive"
    /\ Die(p)
    /\ UNCHANGED <<serverVars, clientVars>>

UserCtrlC ==
    /\ Alive
    /\ Event
    /\ Running
    /\ RaiseCtrlC
    /\ UNCHANGED <<main, todo, link, processVars, clientVars>>
    /\ MainUnchanged

\* The connection breaks, perhaps before the client has been told of the shutdown.
SessionBreaks ==
    /\ Event
    /\ LinkBreaks
    /\ closing' = IF closing = "event" /\ ~closeEvt THEN "lost" ELSE closing
    /\ UNCHANGED <<crec, closeEvt>>

\* Threads of the victim's module.
VictimStep(p) ==
    \/ (Online(p) \/ OnlineFails(p) \/ VictimOffline(p)) /\ UNCHANGED clientVars
    \/ Alive /\ (Rundown(p) \/ Unloaded(p) \/ UnloadAgain(p)) /\ UNCHANGED <<serverVars, clientVars>>

OfflineStep(p) ==
    (OfflineLock(p) \/ OfflineTwice(p) \/ OfflineErase(p) \/ ServerGone(p)) /\ UNCHANGED clientVars

\* The monitor, and the client's handlers that it waits for.
MonitorStep(p) ==
    \/ /\ \/ MonitorListen(p) \/ MonitorRpcGone(p) \/ MonitorStopped(p) \/ MonitorFails(p)
          \/ MonitorNotify(p) \/ MonitorNotifyFails(p) \/ MonitorResume(p) \/ MonitorOffline(p)
          \/ MonitorOfflineFails(p) \/ MonitorNodeGone(p) \/ MonitorCheck(p)
       /\ UNCHANGED clientVars
    \/ NotifyRaises(p) \/ NotifyArrives(p) \/ NotifyAnswers(p) \/ ClientOffline(p)

UnderWay(r) == req[r].pc \notin {"idle", "done", "raised"}

\* A request in the server's worker, and the client's task that waits for it.
RequestStep(r) ==
    /\ UnderWay(r)
    /\ \/ /\ \/ ServeAttach(r) \/ ServeLaunch(r) \/ ServeRefused(r) \/ ServeEntered(r) \/ ServeKill(r)
             \/ ServeDetach(r) \/ ServeLeft(r) \/ ServeUse(r) \/ ServeNoVictim(r) \/ ServeEval(r)
             \/ Evaluate(r) \/ ServeInput(r) \/ InputExecute(r) \/ InputOutput(r)
             \/ InputExecuted(r) \/ InputReleased(r) \/ InputNodeGone(r) \/ InputVictimGone(r)
             \/ InputPrompt(r, Connected /\ crec[req[r].pid] # "none")
          /\ UNCHANGED clientVars
       \/ ClientNew(r) \/ ClientAnswer(r) \/ ClientRaises(r) \/ ClientPrompted(r)
       \/ ClientAttached(r) \/ ClientGone(r)

MainStep ==
    \/ /\ \/ MainStarts \/ MainFini \/ MainReset \/ MainCollect \/ MainDetached \/ MainAgain
          \/ \E p \in Pids : MainDetach(p) \/ MainDetachFails(p)
       /\ UNCHANGED clientVars
    \/ SessionShutdown

ConsoleStep == (CtrlC \/ CtrlKills) /\ UNCHANGED clientVars

CloseStep == CloseServed \/ CloseRaises \/ CloseDone

UserStep ==
    \/ \E r \in Reqs, p \in Pids :
          \/ ClientAttach(r, p) \/ ClientLaunch(r, p) \/ ClientKill(r, p)
          \/ \E op \in Ops, by \in Pids \cup {NoPid} : ClientUse(r, op, p, by)
    \/ (\E p \in Pids : ClientReadyCall(p)) /\ UNCHANGED events
    \/ CloseCall /\ UNCHANGED events

\* The thread that constructs the victim, or the first instruction of the program, makes the
\* initial break.
InitialHit(p) == first[p] /\ MonitorHit(p) /\ UNCHANGED clientVars

SystemStep ==
    \/ \E p \in Pids : ProcessDies(p) \/ (MonitorHit(p) /\ UNCHANGED <<clientVars, events>>)
    \/ UserCtrlC
    \/ SessionBreaks

Init ==
    /\ ProcessInit
    /\ ServerInit
    /\ crec = [p \in Pids |-> "none"]
    /\ closing = "no"
    /\ closeEvt = FALSE
    /\ events = 0

Next ==
    \/ /\ \/ \E p \in Pids : VictimStep(p) \/ OfflineStep(p) \/ MonitorStep(p)
          \/ \E r \in Reqs : RequestStep(r)
          \/ MainStep \/ ConsoleStep \/ CloseStep
       /\ UNCHANGED events
    \/ UserStep \/ SystemStep

Spec == Init /\ [][Next]_vars

----------------------------------------------------------------------------
(* Safety.                                                                 *)

TypeOK ==
    /\ ProcessTypeOK
    /\ ServerTypeOK
    /\ crec \in [Pids -> {"none", "new", "ready", "going"}]
    /\ closing \in {"no", "called", "event", "lost", "closed", "raised"}
    /\ closeEvt \in BOOLEAN
    /\ events \in 0 .. MaxEvents

\* Nobody forgets a victim: one that is in the table has a monitor that will take it out in
\* the end, or a thread is on its way to do so (victim.cpp 57-69, debugger.cpp 250-252).
\* And a monitor, which works with a reference to the table's entry, runs only as long as
\* there is one (victim.cpp 85-88).
Watched ==
    \A p \in Pids :
        /\ vic[p] = "in" => ~MonitorEnded(p) \/ offline[p] > 0
        /\ ~MonitorEnded(p) => Listed(p)

\* A victim that the client believes to be ready is in the server's table, and its monitor
\* has yet to tell the client of its end (debugger.cpp 240-244, Client.py 123-132); until the
\* connection is lost or the session is closed.
ReadyIsListed ==
    \A p \in Pids : Connected /\ ClientReady /\ VictimReady(p) =>
        vic[p] # "out" /\ mon[p] \notin {"check", "done"}

\* Attaching, launching, evaluating and hitting breakpoints in any order does not bring the
\* server down: it dies only if a victim leaves (Detach, Kill, the end of its process), if the
\* connection breaks, or at a Ctrl-C outside the time main() can take one (main.cpp 90-99).
ServerSurvives ==
    [][fate' # fate =>
        \/ \E r \in Reqs : req[r].op \in {"detach", "kill"}
        \/ \E p \in Pids : life[p] = "dead"
        \/ link # "up"
        \/ main \notin {"registered", "waiting"}]_vars

----------------------------------------------------------------------------
(* Liveness.  The threads of victim, server and client run, mutexes are    *)
(* passed on, the initial break comes by itself (Victim/initfini.cpp       *)
(* 78-82), and a breakpoint handler returns once the calls it awaits have. *)
(* Nothing makes the user call anything, ready() included.                 *)

Fairness ==
    /\ \A p \in Pids :
          /\ WF_vars(VictimStep(p) /\ UNCHANGED events)
          /\ WF_vars(OfflineStep(p) /\ UNCHANGED events)
          /\ WF_vars((MonitorStep(p) \/ InitialHit(p)) /\ UNCHANGED events)
    /\ \A r \in Reqs : WF_vars(RequestStep(r) /\ UNCHANGED events)
    /\ WF_vars(MainStep /\ UNCHANGED events)
    /\ WF_vars(ConsoleStep /\ UNCHANGED events)
    /\ WF_vars(CloseStep /\ UNCHANGED events)

FairSpec == Spec /\ Fairness

\* A thread waits for the end of a monitor with _victimsMtx held, and the monitor for the user;
\* or for a hit, when the thread is a late one that was meant for the process's previous victim.
Embrace ==
    \E p \in Pids :
        /\ vic[p] = "ending"
        /\ mon[p] \in {"initial", "handler"} \/ (mon[p] = "waiting" /\ inst[p] = "up")

\* Attaches to a process, and what has become of them.
Attaches(p) == {s \in Reqs : req[s].pid = p /\ req[s].op \in {"attach", "launch", "prompt"}}

\* Another attach to the same process: the client keeps one record of it.
Rival(r) == Attaches(req[r].pid) \ {r} # {}

\* Whom attach() waits for does not come: the victim will not be entered in the table, has
\* been taken out of it, or has reported its initial break to another record.
NoShow(r) ==
    LET p == req[r].pid IN
    \/ At(r, "enter") /\ ~Listed(p) /\ inst[p] # "starting"
    \/ At(r, "ready") /\ (~Listed(p) \/ Rival(r))

\* A detach waits for the process to be missing, in the server's table or in the client's, and
\* another attach has brought it back before anybody looked.
Replaced(r) ==
    LET p == req[r].pid IN
    \/ At(r, "leave") /\ inst[p] = "up" /\ unload[p] = 0
    \/ /\ At(r, "gone")
       /\ crec[p] # "none"
       /\ \E s, t \in Attaches(p) : s # t

\* An input has no prompt to come: it got an exception and none (the victim is not in the table,
\* or the engine refused), found the engine busy, or waits with a record that was replaced.
NoPrompt(r) == At(r, "mute") \/ (At(r, "silent") /\ req[r].told \in {"busy", "deaf"})

\* A handler awaits such an input, or a detach, which waits for the end of a monitor.
Stuck(p) == mon[p] = "handler" /\ \E r \in Reqs : req[r].by = p /\ (NoPrompt(r) \/ At(r, "leave"))

\* The monitor waits for the user's ready(), or for a handler that does not come back.
Kept(p) == mon[p] = "initial" \/ Stuck(p)

\* A request that is made comes back while server, connection and client last (Server/rpc.cpp
\* 188-192, 244-245, Client.py 217, 251-256, 323), also when victims end, are killed or attached
\* again in between.  Excepted is what the code does not provide for: the embrace of Offline and
\* monitor (victim.cpp 79-86), an attach whose victim does not show, an input without a prompt, a
\* detach from a process that was attached again before it looked, and one whose monitor is kept.
RequestsReturn ==
    \A r \in Reqs : []<>(\/ ~UnderWay(r) \/ ~Alive \/ ~Connected \/ ~ClientReady
                         \/ Embrace \/ NoShow(r) \/ NoPrompt(r) \/ Replaced(r)
                         \/ At(r, "leave") /\ Kept(req[r].pid))

\* A victim that has begun to leave, by Detach or because its process ended, is taken out of
\* the table (debugger.cpp 229-254, victim.cpp 74-89), unless its monitor is kept at the initial
\* break or by a handler, or the server dies over it.
LeavingIsRemoved ==
    \A p \in Pids : []<>(~(Listed(p) /\ inst[p] # "up") \/ Kept(p) \/ Embrace \/ ~Alive)

\* close() returns (Client.py 469-483), unless the server dies over it, or its shutdown is lost
\* (closing = "lost"): the server's main thread had not got to its wait (main.cpp 97) when the
\* Ctrl-C that close() causes arrived, or the connection broke before the client was told.
CloseReturns ==
    []<>(closing \notin {"called", "event"} \/ ~Alive)
=============================================================================
