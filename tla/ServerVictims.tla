--------------------------- MODULE ServerVictims ---------------------------
(***************************************************************************)
(* The server process: the table of victims, a monitor thread for each,    *)
(* the threads that take a victim out of the table, the client's requests, *)
(* and the main thread with its console control handler                    *)
(* (src/DollDbg.Server: victim.cpp, debugger.cpp, rpc.cpp, initfini.cpp,   *)
(* main.cpp).                                                              *)
(*                                                                         *)
(* What the monitor does with a hit is module Breakpoints; here a hit is   *)
(* notified and resumed, or the monitor fails and takes its victim out.    *)
(***************************************************************************)
EXTENDS VictimProcess

CONSTANTS
    MaxReqs,    \* bound: requests of the client, numbered in the order they are made
    MaxCtrl,    \* bound: console events under way at once
    NoPid       \* no process

ASSUME ReqsAssumption == MaxReqs \in Nat
ASSUME CtrlAssumption == MaxCtrl \in Nat
ASSUME NoPidAssumption == NoPid \notin Pids

VARIABLES
    fate,       \* "running", or what ended the server process
    vic,        \* _victims: "out", "in", "ending" (running is false, rpc is reset)
    pending,    \* _pendingVictims: how many nodes wait for each process
    mon,        \* where _monitor() is
    first,      \* the monitor has yet to report the initial break
    offline,    \* threads of _onRpcVOffline() that wait for _victimsMtx
    req,        \* the client's requests: operation, process, progress, handler that waits for
                \* it, and whether an input has seen the prompt: "no", "busy" (*BUSY* instead),
                \* "yes", "deaf" (its record of the victim is no longer in the client's table)
    main,       \* where the main thread is
    todo,       \* victimPids of ~Server()
    ctrl,       \* Ctrl-C events under way
    link        \* connection with the client: "up", "down", "wedged" (dispatcher stuck)

tableVars == <<vic, pending, mon, first, offline>>
mainVars == <<main, todo, ctrl, link>>
serverVars == <<fate, tableVars, req, mainVars>>

Reqs == 1 .. MaxReqs
Ops == {"attach", "launch", "detach", "use", "eval", "input", "prompt", "kill"}
Monitors == {"none", "listen", "waiting", "hit", "notify", "initial", "handler", "resume",
             "failed", "offline", "check", "done"}
Mains == {"gap", "registered", "waiting", "woken", "shutdown", "reset", "hung", "collect",
          "detach", "drain", "again"}
Fates == {"running", "killed", "node gone", "rpc gone", "victim gone", "server gone",
          "offline twice", "detach failed"}

\* Where a request is: in a worker of the server, ...
Serving == {"sent", "call", "enter", "leave", "ref", "exec", "output", "outside", "prompting",
            "dangling"}
\* ... or in the client; "silent" and "mute" are inputs that were answered, or got an exception,
\* and wait for the prompt.
Steps == Serving \cup
    {"idle", "answer", "error", "ready", "gone", "silent", "mute", "done", "raised"}
Prompts == {"no", "busy", "yes", "deaf"}

NoReq == [op |-> "use", pid |-> NoPid, pc |-> "idle", by |-> NoPid, told |-> "no"]
At(r, pc) == req[r].pc = pc
Goto(r, pc) == req' = [req EXCEPT ![r].pc = pc]

Alive == fate = "running"
Listed(p) == vic[p] # "out"
Busy == \E r \in Reqs : req[r].pc \in Serving

\* _rpc is not null.
NodeUp == main \in {"gap", "registered", "waiting", "woken", "shutdown"}
\* Server::_running
Running == main \in {"gap", "registered", "waiting", "woken"}
Connected == NodeUp /\ link = "up"

\* _victimsMtx is held across steps while a victim is taken out and while Eval waits for the
\* engine.
VictimsMtxFree ==
    /\ \A p \in Pids : vic[p] # "ending"
    /\ \A r \in Reqs : ~At(r, "call")

\* victim_t::engineMtx is held across steps by a command under execution and by a monitor that
\* calls the client's Offline.
EngineFree(p) ==
    /\ mon[p] # "offline"
    /\ \A r \in Reqs : ~(req[r].pid = p /\ req[r].pc \in {"exec", "output"})

\* Every process at the same value
All(value) == [p \in Pids |-> value]

\* The process is gone with everything in it, and the client's calls fail.
Crash(how) ==
    /\ fate' = how
    /\ vic' = All("out")
    /\ pending' = All(0)
    /\ mon' = All("none")
    /\ first' = All(FALSE)
    /\ offline' = All(0)
    /\ req' = [r \in Reqs |-> IF req[r].pc \in Serving \cup {"answer", "error"}
                             THEN [req[r] EXCEPT !.pc = "raised"] ELSE req[r]]
    /\ todo' = {}
    /\ ctrl' = 0
    /\ link' = "down"
    /\ UNCHANGED <<main, processVars>>

----------------------------------------------------------------------------
(* Victims come and go.                                                    *)

\* The victim calls Online: it is entered, attached to and given a monitor.  If that fails, a
\* thread will take it out again, and the exception that answers ends the process, as nobody
\* catches it there.
OnlineBegin(p) ==
    /\ Alive
    /\ inst[p] = "starting"
    /\ VictimsMtxFree
    /\ main # "again"
    /\ pending' = [pending EXCEPT ![p] = @ - 1]
    /\ vic' = [vic EXCEPT ![p] = "in"]
    /\ UNCHANGED <<fate, req, mainVars>>

Online(p) ==
    /\ OnlineBegin(p)
    /\ mon' = [mon EXCEPT ![p] = "listen"]
    /\ first' = [first EXCEPT ![p] = TRUE]
    /\ inst' = [inst EXCEPT ![p] = "up"]
    /\ UNCHANGED <<offline, life, refs, unload>>

OnlineFails(p) ==
    /\ OnlineBegin(p)
    /\ offline' = [offline EXCEPT ![p] = @ + 1]
    /\ Die(p)
    /\ UNCHANGED <<mon, first>>

\* _onRpcVOffline() only starts a thread.
StartOffline(p) == offline' = [offline EXCEPT ![p] = @ + 1]

\* The destructor of the victim calls Offline on its way out.
VictimOffline(p) ==
    /\ Offlined(p)
    /\ IF Alive THEN StartOffline(p) ELSE UNCHANGED offline
    /\ UNCHANGED <<fate, vic, pending, mon, first, req, mainVars>>

OfflineLock(p) ==
    /\ Alive
    /\ offline[p] > 0
    /\ VictimsMtxFree
    /\ main # "again"
    /\ Listed(p)
    /\ vic' = [vic EXCEPT ![p] = "ending"]
    /\ offline' = [offline EXCEPT ![p] = @ - 1]
    /\ UNCHANGED <<fate, pending, mon, first, req, mainVars, processVars>>

\* at() throws out of a thread of its own.
OfflineTwice(p) ==
    /\ Alive
    /\ offline[p] > 0
    /\ VictimsMtxFree
    /\ main # "again"
    /\ ~Listed(p)
    /\ Crash("offline twice")

\* (mutant) the monitor is not joined
MonitorLeft(p) == TRUE

\* The monitor can be joined.
MonitorEnded(p) == mon[p] \in {"none", "done"}

\* A request that works with a reference to the victim keeps it.
Erased(p) == [r \in Reqs |-> IF req[r].pid = p /\ req[r].pc \in {"ref", "outside", "prompting"}
                             THEN [req[r] EXCEPT !.pc = "dangling"] ELSE req[r]]

\* The monitor is joined, the engine released, the victim erased.
OfflineErase(p) ==
    /\ Alive
    /\ vic[p] = "ending"
    /\ MonitorEnded(p)
    /\ EngineFree(p)
    /\ vic' = [vic EXCEPT ![p] = "out"]
    /\ mon' = [mon EXCEPT ![p] = "none"]
    /\ req' = Erased(p)
    /\ UNCHANGED <<fate, pending, first, offline, mainVars, processVars>>

\* Victims and their threads use the Server object, whether it still exists or not.
ServerGone(p) ==
    /\ Alive
    /\ main = "again"
    /\ \/ inst[p] = "starting"
       \/ offline[p] > 0
    /\ Crash("server gone")

----------------------------------------------------------------------------
(* _monitor()                                                              *)

MonitorAt(p, pc) == Alive /\ mon[p] = pc
MonitorTo(p, pc) == mon' = [mon EXCEPT ![p] = pc]
MonitorUnchanged == UNCHANGED <<fate, vic, pending, first, req, mainVars, processVars>>

MonitorListen(p) ==
    /\ MonitorAt(p, "listen")
    /\ vic[p] = "in"
    /\ MonitorTo(p, "waiting")
    /\ MonitorUnchanged
    /\ UNCHANGED offline

\* victim.rpc has been reset under it: when it listens again, or wants a hook removed.
MonitorRpcGone(p) ==
    /\ MonitorAt(p, "listen") \/ MonitorAt(p, "hit")
    /\ vic[p] = "ending"
    /\ Crash("rpc gone")

\* A thread has run into a hook.
MonitorHit(p) ==
    /\ MonitorAt(p, "waiting")
    /\ inst[p] = "up"
    /\ MonitorTo(p, "hit")
    /\ MonitorUnchanged
    /\ UNCHANGED offline

\* _hitStop is set, or the connection has gone.
MonitorStopped(p) ==
    /\ MonitorAt(p, "waiting")
    /\ inst[p] # "up"
    /\ MonitorTo(p, "failed")
    /\ MonitorUnchanged
    /\ UNCHANGED offline

\* The engine cannot work on a process that has ended, nor a lost victim remove a hook.
MonitorFails(p) ==
    /\ \/ MonitorAt(p, "hit") /\ ~Linked(p)
       \/ MonitorAt(p, "resume") /\ life[p] = "dead"
    /\ EngineFree(p)
    /\ MonitorTo(p, "failed")
    /\ MonitorUnchanged
    /\ UNCHANGED offline

MonitorNotify(p) ==
    /\ MonitorAt(p, "hit")
    /\ EngineFree(p)
    /\ NodeUp
    /\ MonitorTo(p, "notify")
    /\ MonitorUnchanged
    /\ UNCHANGED offline

MonitorNotifyFails(p) ==
    /\ Alive
    /\ mon[p] \in {"notify", "initial", "handler"}
    /\ ~Connected
    /\ MonitorTo(p, "failed")
    /\ MonitorUnchanged
    /\ UNCHANGED offline

MonitorResume(p) ==
    /\ MonitorAt(p, "resume")
    /\ EngineFree(p)
    /\ MonitorTo(p, "listen")
    /\ first' = [first EXCEPT ![p] = FALSE]
    /\ UNCHANGED <<fate, vic, pending, offline, req, mainVars, processVars>>

\* The client is told, with engineMtx held.
MonitorOffline(p) ==
    /\ MonitorAt(p, "failed")
    /\ EngineFree(p)
    /\ NodeUp
    /\ MonitorTo(p, "offline")
    /\ MonitorUnchanged
    /\ UNCHANGED offline

MonitorOfflineFails(p) ==
    /\ MonitorAt(p, "offline")
    /\ ~Connected
    /\ MonitorTo(p, "check")
    /\ MonitorUnchanged
    /\ UNCHANGED offline

\* _rpc has been reset under it.
MonitorNodeGone(p) ==
    /\ MonitorAt(p, "hit") \/ MonitorAt(p, "failed")
    /\ EngineFree(p)
    /\ ~NodeUp
    /\ Crash("node gone")

\* (mutant) the monitor leaves it to the victim to go offline
OfflineByVictim(p) == FALSE

\* victim.running, read without a lock
OfflineByMonitor(p) == vic[p] = "in"

MonitorCheck(p) ==
    /\ MonitorAt(p, "check")
    /\ MonitorTo(p, "done")
    /\ IF OfflineByMonitor(p) THEN StartOffline(p) ELSE UNCHANGED offline
    /\ MonitorUnchanged

----------------------------------------------------------------------------
(* Requests of the client, each served by a worker.                        *)

Serve(r, op) == Alive /\ req[r].op = op /\ At(r, "sent")
RequestUnchanged == UNCHANGED <<fate, vic, mon, first, offline, mainVars>>

\* (mutant) the node of the victim to come is not kept
NodeDropped(p) == pending

\* A node waits for the victim to come.
NodePending(p) == [pending EXCEPT ![p] = @ + 1]

\* A process that is not in the table yet and can be opened.
MayAttach(p) == life[p] = "alive" /\ ~Listed(p)

\* _attachVictim() makes the process load the module; then the request waits until the victim
\* is in the table.
ServeAttach(r) == LET p == req[r].pid IN
    /\ Serve(r, "attach")
    /\ VictimsMtxFree
    /\ MayAttach(p)
    /\ LoadModule(p)
    /\ pending' = NodePending(p)
    /\ Goto(r, "enter")
    /\ UNCHANGED <<life, unload>>
    /\ RequestUnchanged

ServeLaunch(r) == LET p == req[r].pid IN
    /\ Serve(r, "launch")
    /\ VictimsMtxFree
    /\ life[p] = "none"
    /\ life' = [life EXCEPT ![p] = "alive"]
    /\ LoadModule(p)
    /\ pending' = NodePending(p)
    /\ Goto(r, "enter")
    /\ UNCHANGED unload
    /\ RequestUnchanged

\* The victim exists, or the system refuses.
ServeRefused(r) ==
    /\ Serve(r, "attach") \/ Serve(r, "launch") \/ Serve(r, "kill")
    /\ VictimsMtxFree \/ req[r].op = "kill"
    /\ Goto(r, "error")
    /\ UNCHANGED <<pending, processVars>>
    /\ RequestUnchanged

ServeEntered(r) ==
    /\ Alive
    /\ At(r, "enter")
    /\ VictimsMtxFree
    /\ Listed(req[r].pid)
    /\ Goto(r, "answer")
    /\ UNCHANGED <<pending, processVars>>
    /\ RequestUnchanged

ServeKill(r) == LET p == req[r].pid IN
    /\ Serve(r, "kill")
    /\ life[p] = "alive"
    /\ Die(p)
    /\ Goto(r, "answer")
    /\ UNCHANGED pending
    /\ RequestUnchanged

\* _detachVictim(): the victim's worker starts its unload thread and answers, unless that thread
\* closes the connection first.
ServeDetach(r) == LET p == req[r].pid IN
    /\ Serve(r, "detach")
    /\ VictimsMtxFree
    /\ Listed(p)
    /\ Linked(p)
    /\ StartUnload(p)
    /\ Goto(r, "leave") \/ Goto(r, "error")
    /\ UNCHANGED <<pending, life, inst, refs>>
    /\ RequestUnchanged

ServeLeft(r) ==
    /\ Alive
    /\ At(r, "leave")
    /\ VictimsMtxFree
    /\ ~Listed(req[r].pid)
    /\ Goto(r, "answer")
    /\ UNCHANGED <<pending, processVars>>
    /\ RequestUnchanged

\* BpSet, BpClear and LoadLib call the victim, which may refuse.
ServeUse(r) == LET p == req[r].pid IN
    /\ Serve(r, "use")
    /\ VictimsMtxFree
    /\ Listed(p)
    /\ Linked(p)
    /\ Goto(r, "answer") \/ Goto(r, "error")
    /\ UNCHANGED <<pending, processVars>>
    /\ RequestUnchanged

\* The victim is not in the table, or its connection is lost.
ServeNoVictim(r) == LET p == req[r].pid IN
    /\ \/ (Serve(r, "detach") \/ Serve(r, "use")) /\ ~(Listed(p) /\ Linked(p))
       \/ (Serve(r, "eval") \/ Serve(r, "input") \/ Serve(r, "prompt")) /\ ~Listed(p)
    /\ VictimsMtxFree
    /\ Goto(r, "error")
    /\ UNCHANGED <<pending, processVars>>
    /\ RequestUnchanged

\* Eval waits for the engine with _victimsMtx held.
ServeEval(r) ==
    /\ Serve(r, "eval")
    /\ VictimsMtxFree
    /\ Listed(req[r].pid)
    /\ Goto(r, "call")
    /\ UNCHANGED <<pending, processVars>>
    /\ RequestUnchanged

Evaluate(r) ==
    /\ Alive
    /\ At(r, "call")
    /\ EngineFree(req[r].pid)
    /\ Goto(r, "answer") \/ Goto(r, "error")
    /\ UNCHANGED <<pending, processVars>>
    /\ RequestUnchanged

\* Input keeps a reference to the victim and releases _victimsMtx.
ServeInput(r) ==
    /\ Serve(r, "input") \/ Serve(r, "prompt")
    /\ VictimsMtxFree
    /\ Listed(req[r].pid)
    /\ Goto(r, "ref")
    /\ UNCHANGED <<pending, processVars>>
    /\ RequestUnchanged

InputExecute(r) ==
    /\ Alive
    /\ At(r, "ref")
    /\ EngineFree(req[r].pid)
    /\ Goto(r, "exec")
    /\ UNCHANGED <<pending, processVars>>
    /\ RequestUnchanged

\* _onDbgOutput() looks whether there is a node ...
InputOutput(r) ==
    /\ Alive
    /\ At(r, "exec")
    /\ Goto(r, IF NodeUp THEN "output" ELSE "outside")
    /\ UNCHANGED <<pending, processVars>>
    /\ RequestUnchanged

\* ... and then calls the client's Output, which may fail.
InputExecuted(r) ==
    /\ Alive
    /\ At(r, "output")
    /\ NodeUp
    /\ Goto(r, "outside")
    /\ UNCHANGED <<pending, processVars>>
    /\ RequestUnchanged

InputNodeGone(r) ==
    /\ Alive
    /\ At(r, "output") \/ At(r, "prompting")
    /\ ~NodeUp
    /\ Crash("node gone")

\* Inputs in _victimInput() of the client.
Prompting(r) == req[r].op \in {"input", "prompt"} /\ req[r].pc \notin {"idle", "done", "raised"}

\* The inputs of one victim that wait for the prompt get it, or will never.
Told(p, told) == [r \in Reqs |-> IF req[r].pid = p /\ Prompting(r) /\ req[r].told \in {"no", "busy"}
                                 THEN [req[r] EXCEPT !.told = told] ELSE req[r]]

\* Somebody has engineMtx, or has it for a moment.
EngineTaken(p) ==
    \/ ~EngineFree(p)
    \/ mon[p] \in {"hit", "resume", "failed"}
    \/ \E r \in Reqs : req[r].pid = p /\ req[r].pc \in {"call", "ref"}

\* The prompt is output once more, with engineMtx released, unless the engine refuses; nobody
\* hears it if there is no node.
InputReleased(r) ==
    /\ Alive
    /\ At(r, "outside")
    /\ IF NodeUp THEN Goto(r, "prompting") \/ Goto(r, "error")
       ELSE Goto(r, "answer") \/ Goto(r, "error")
    /\ UNCHANGED <<pending, processVars>>
    /\ RequestUnchanged

\* It is sent: the prompt, which the inputs that wait for it get if the client hears it, or
\* "*BUSY*".
InputPrompt(r, heard) == LET p == req[r].pid IN
    /\ Alive
    /\ At(r, "prompting")
    /\ NodeUp
    /\ \E pc \in {"answer", "error"} :
          \/ /\ EngineFree(p)
             /\ req' = [(IF heard THEN Told(p, "yes") ELSE req) EXCEPT ![r].pc = pc]
          \/ /\ EngineTaken(p)
             /\ req' = [req EXCEPT ![r].pc = pc, ![r].told = IF @ = "no" THEN "busy" ELSE @]
    /\ UNCHANGED <<pending, processVars>>
    /\ RequestUnchanged

InputVictimGone(r) ==
    /\ Alive
    /\ At(r, "dangling")
    /\ Crash("victim gone")

----------------------------------------------------------------------------
(* The main thread and the console.                                        *)

MainAt(pc) == Alive /\ main = pc
MainUnchanged == UNCHANGED <<fate, vic, pending, mon, first, offline, req>>

\* From init() to the wait.
MainStarts ==
    /\ \/ MainAt("gap") /\ main' = "registered"
       \/ MainAt("registered") /\ main' = "waiting"
    /\ UNCHANGED <<todo, ctrl, link, processVars>>
    /\ MainUnchanged

\* The handler is removed; fini() destroys the server, which first sets _running to false.
MainFini ==
    /\ MainAt("woken")
    /\ main' = "shutdown"
    /\ UNCHANGED <<todo, ctrl, link, processVars>>
    /\ MainUnchanged

\* _rpc.reset(), once the client has answered Shutdown or cannot be reached.
MainShutdown ==
    /\ MainAt("shutdown")
    /\ main' = "reset"
    /\ UNCHANGED <<todo, ctrl, link, processVars>>
    /\ MainUnchanged

\* What the end of the connection leaves of the node: its dispatcher cannot get past a worker
\* that is still running (RpcSystem!ExceptionStopsDispatcher).
LinkEnded == IF link # "up" THEN link ELSE IF Busy THEN "wedged" ELSE "down"

\* ~Rpc() breaks the connection and joins the dispatcher.
MainReset ==
    /\ MainAt("reset")
    /\ link' = LinkEnded
    /\ main' = IF link' = "wedged" THEN "hung" ELSE "collect"
    /\ UNCHANGED <<todo, ctrl, processVars>>
    /\ MainUnchanged

MainCollect ==
    /\ MainAt("collect")
    /\ VictimsMtxFree
    /\ todo' = {p \in Pids : Listed(p)}
    /\ main' = "detach"
    /\ UNCHANGED <<ctrl, link, processVars>>
    /\ MainUnchanged

MainDetach(p) ==
    /\ MainAt("detach")
    /\ p \in todo
    /\ VictimsMtxFree
    /\ Listed(p)
    /\ Linked(p)
    /\ StartUnload(p)
    /\ todo' = todo \ {p}
    /\ UNCHANGED <<main, ctrl, link, life, inst, refs>>
    /\ MainUnchanged

\* The victim has gone, or its answer is lost: an exception leaves the destructor.
MainDetachFails(p) ==
    /\ MainAt("detach")
    /\ p \in todo
    /\ VictimsMtxFree
    /\ Crash("detach failed")

MainDetached ==
    /\ MainAt("detach")
    /\ todo = {}
    /\ main' = "drain"
    /\ UNCHANGED <<todo, ctrl, link, processVars>>
    /\ MainUnchanged

\* All victims are out; the next Server object waits for a client.
MainAgain ==
    /\ MainAt("drain")
    /\ VictimsMtxFree
    /\ \A p \in Pids : ~Listed(p)
    /\ main' = "again"
    /\ UNCHANGED <<todo, ctrl, link, processVars>>
    /\ MainUnchanged

\* GenerateConsoleCtrlEvent()
RaiseCtrlC == ctrl < MaxCtrl /\ ctrl' = ctrl + 1

\* (mutant) the handler is registered when the wait begins
CtrlAwaited == main = "waiting"

\* onConsoleCtrl() is registered.
CtrlHandled == main \in {"registered", "waiting", "woken"}

\* onConsoleCtrl() runs in a thread of its own; notify_one() finds main() in the wait, or nobody.
CtrlC ==
    /\ Alive
    /\ ctrl > 0
    /\ CtrlHandled
    /\ ctrl' = ctrl - 1
    /\ main' = IF main = "waiting" THEN "woken" ELSE main
    /\ UNCHANGED <<todo, link, processVars>>
    /\ MainUnchanged

\* Without a handler of its own the process is ended.
CtrlKills ==
    /\ Alive
    /\ ctrl > 0
    /\ ~CtrlHandled
    /\ Crash("killed")

\* The connection with the client breaks; unless it is wedged the node reports it.
LinkBreaks ==
    /\ Alive
    /\ Connected
    /\ link' = LinkEnded
    /\ IF Running /\ link' = "down" THEN RaiseCtrlC ELSE UNCHANGED ctrl
    /\ UNCHANGED <<main, todo, processVars>>
    /\ MainUnchanged

ServerInit ==
    /\ fate = "running"
    /\ vic = All("out")
    /\ pending = All(0)
    /\ mon = All("none")
    /\ first = All(FALSE)
    /\ offline = All(0)
    /\ req = [r \in Reqs |-> NoReq]
    /\ main = "gap"
    /\ todo = {}
    /\ ctrl = 0
    /\ link = "up"

ServerTypeOK ==
    /\ fate \in Fates
    /\ vic \in [Pids -> {"out", "in", "ending"}]
    /\ pending \in [Pids -> Nat]
    /\ mon \in [Pids -> Monitors]
    /\ first \in [Pids -> BOOLEAN]
    /\ offline \in [Pids -> Nat]
    /\ req \in [Reqs -> [op : Ops, pid : Pids \cup {NoPid}, pc : Steps,
                       by : Pids \cup {NoPid}, told : Prompts]]
    /\ main \in Mains
    /\ todo \in SUBSET Pids
    /\ ctrl \in Nat
    /\ link \in {"up", "down", "wedged"}
=============================================================================
