--------------------------- MODULE VictimRundown ---------------------------
(***************************************************************************)
(* How the module leaves a debugged process: Detach or the loss of the     *)
(* connection starts an unload thread that destroys the Victim object      *)
(* while application threads run into hooks, wait in them, or are stopped  *)
(* by the server (src/DollDbg.Victim: initfini.cpp, rpc.cpp, hookhl.cpp,   *)
(* dllmain.cpp; singleton.h).                                              *)
(*                                                                         *)
(* VictimHooks has hooks and stubs.  Here a thread between the predicate   *)
(* of a wait and its sleep is a state of its own ("doze"), because the     *)
(* destructor sets _hitStop and notifies without _hitMtx.                  *)
(***************************************************************************)
EXTENDS VictimHooks

CONSTANTS
    MaxUnloads, \* bound: unload threads, numbered in the order they are started
    MaxEvents   \* bound: calls, hooks, detaches, loads and losses of the connection

ASSUME BoundsAssumption == MaxUnloads \in Nat /\ MaxEvents \in Nat

Nobody == "nobody"
Unloaders == 1 .. MaxUnloads

VARIABLES
    hitStop,    \* _hitStop
    doze,       \* who is about to sleep in _hitCv.wait(), with _hitMtx held
    missed,     \* who was, when the destructor notified
    instance,   \* Victim::_instance: "live", "running" (INITFINI_RUNNING), "null"
    loads,      \* references to the module
    unl,        \* where each unload thread is
    owner,      \* the one that destroys the object, 0 as long as nobody does
    node,       \* _rpc: "up", "lost" (its callback is due), "over", "stuck" (in the dispatcher)
    mon,        \* the server's monitor: "call", "wait", "held", "ended"
    careless,   \* something has happened that the module does not provide for
    events      \* how much has come from outside

unloadVars == <<hitStop, missed, instance, loads, unl, owner>>
vars == <<victimVars, unloadVars, doze, node, mon, careless, events>>

Inside == {"fini", "stop", "notify", "offline", "unhook", "rpc", "hung", "null", "free"}

Crashed ==
    \/ \E t \in AppThreads : tpc[t] = "wild"
    \/ \E u \in Unloaders : unl[u] = "wild"

\* (bound) Something comes from outside.
Event == ~Crashed /\ events < MaxEvents /\ events' = events + 1

MtxFree == HitMtxFree /\ doze = Nobody

\* The module's code can be executed.
Mapped == loads > 0

\* The frames of a thread hold an address of the module.
Returning(t) == \E i \in 1 .. Len(frames[t]) : frames[t][i].ret = ReturnAddr

\* In code of the module, or on the way back to it.
Busy(t) == tpc[t] \in InStub \cup {"retstub"} \/ Returning(t)

Goes(t, pc) == tpc' = [tpc EXCEPT ![t] = pc]

----------------------------------------------------------------------------
(* Application threads.                                                    *)

ThreadRest == UNCHANGED <<unloadVars, doze, node, mon>>

\* A thread, internal or not, that needs Victim::get() while the instance is not "live" gets an
\* exception that nobody expects there.
Thrown(t) ==
    /\ Goes(t, "wild")
    /\ UNCHANGED <<hookVars, hitVars, frames, rets, pHook, isRet, event>>

AppCall(t, va) ==
    /\ Event
    /\ IF Hooked(va) /\ instance # "live"
       THEN /\ tpc[t] = "run"
            /\ va # EntryPoint
            /\ careless' = TRUE
            /\ Thrown(t)
       ELSE /\ Call(t, va)
            /\ UNCHANGED careless
    /\ ThreadRest

AppReturn(t) == ~Crashed /\ Return(t) /\ ThreadRest /\ UNCHANGED careless

\* A function returns to _HookLLReturn.
AppReturnHook(t) ==
    /\ ~Crashed
    /\ IF instance = "live" THEN ReturnHook(t)
       ELSE /\ tpc[t] = "run"
            /\ frames[t] # <<>>
            /\ Last(frames[t]).ret = ReturnAddr
            /\ Thrown(t)
    /\ ThreadRest
    /\ UNCHANGED careless

AppReturnStub(t) ==
    /\ ~Crashed
    /\ IF instance = "live" THEN ReturnStub(t) ELSE tpc[t] = "retstub" /\ Thrown(t)
    /\ ThreadRest
    /\ UNCHANGED careless

AppIgnored(t) ==
    /\ ~Crashed
    /\ OnHookIgnore(t)
    /\ ThreadRest
    /\ UNCHANGED careless

AtHit(t) ==
    /\ ~Crashed
    /\ tpc[t] = "onhook"
    /\ ~IgnoredThread(t)
    /\ MtxFree
    /\ t \notin hitWaiting

AppHit(t) ==
    /\ AtHit(t)
    /\ ~hitStop
    /\ OnHookPass(t)
    /\ ThreadRest
    /\ UNCHANGED careless

\* The predicate is false: the thread is about to sleep ...
AppDoze(t) ==
    /\ AtHit(t)
    /\ hit
    /\ ~hitStop
    /\ doze' = t
    /\ UNCHANGED <<victimVars, unloadVars, node, mon, careless>>

\* ... and sleeps.
Sleep ==
    /\ ~Crashed
    /\ doze # Nobody
    /\ hitWaiting' = hitWaiting \cup {doze}
    /\ doze' = Nobody
    /\ UNCHANGED <<hookVars, hit, hitParams, wfh, threadVars, unloadVars, node, mon, careless>>

\* _hitStop: a thread that enters a function continues in the trampoline.  One that returns
\* goes to "jmp $" whatever hookHLOnHook() says; InitThread ends.
AppStopped(t) ==
    /\ AtHit(t)
    /\ hitStop
    /\ Goes(t, CASE t = InitThread -> "done"
                 [] isRet[t] -> "arming"
                 [] OTHER -> IF pHook[t] \in hooks THEN "run" ELSE "wild")
    /\ UNCHANGED <<hookVars, hitVars, frames, rets, pHook, isRet, event, careless>>
    /\ ThreadRest

AppArm(t) == ~Crashed /\ HookLLHit(t) /\ ThreadRest /\ UNCHANGED careless

\* The module has gone from under a thread, or the object, whose memory it may still find as it
\* was.
AppCodeGone(t) ==
    /\ ~Crashed
    /\ \/ ~Mapped /\ tpc[t] \in InStub \cup {"retstub"}
       \/ instance = "null" /\ tpc[t] = "onhook" /\ ~IgnoredThread(t)
    /\ Thrown(t)
    /\ ThreadRest
    /\ UNCHANGED careless

----------------------------------------------------------------------------
(* WaitForHook and the server's monitor.                                   *)

WorkerRest == UNCHANGED <<unloadVars, node, mon, careless>>

MonitorCalls ==
    /\ ~Crashed
    /\ mon = "call"
    /\ IF node = "up"
       THEN mon' = "wait" /\ wfh' = "called"
       ELSE mon' = "ended" /\ UNCHANGED wfh
    /\ UNCHANGED <<hookVars, hit, hitParams, hitWaiting, threadVars, unloadVars, doze, node, careless>>

\* _hit becomes false, a waiting hit is let through, and the predicate is looked at.
WorkerListens ==
    /\ ~Crashed
    /\ wfh = "called"
    /\ MtxFree
    /\ hit' = FALSE
    /\ hitWaiting' \in HitNotifyOne
    /\ IF hitStop THEN wfh' = "ended" /\ UNCHANGED doze ELSE wfh' = "wait" /\ doze' = Worker
    /\ UNCHANGED <<hookVars, hitParams, threadVars>>
    /\ WorkerRest

Awake == ~Crashed /\ wfh = "wait" /\ MtxFree /\ Worker \notin hitWaiting

WorkerAgain ==
    /\ Awake
    /\ ~hit
    /\ ~hitStop
    /\ doze' = Worker
    /\ UNCHANGED victimVars
    /\ WorkerRest

WorkerHit ==
    /\ Awake
    /\ ~hitStop
    /\ WaitForHookHit
    /\ UNCHANGED doze
    /\ WorkerRest

\* _hitStop: WaitForHook throws.
WorkerStopped ==
    /\ Awake
    /\ hitStop
    /\ wfh' = "ended"
    /\ UNCHANGED <<hookVars, hit, hitParams, hitWaiting, threadVars, doze>>
    /\ WorkerRest

WorkerEvent ==
    /\ ~Crashed
    /\ WaitForHookEvent
    /\ UNCHANGED doze
    /\ WorkerRest

\* WaitForHook is answered: the monitor stops the thread.  If it has raised, or the connection
\* is lost, the monitor ends.
MonitorTakes ==
    /\ ~Crashed
    /\ mon = "wait"
    /\ \/ node # "up" /\ mon' = "ended" /\ UNCHANGED wfh
       \/ node = "up" /\ wfh = "answered" /\ mon' = "held" /\ wfh' = "none"
       \/ node = "up" /\ wfh = "ended" /\ mon' = "ended" /\ wfh' = "none"
    /\ UNCHANGED <<hookVars, hit, hitParams, hitWaiting, threadVars, unloadVars, doze, node, careless>>

\* The client has decided: Go continues in the trampoline, BreakOnReturn goes through
\* HookLLReturnStub.  Skip is as Go and a return.
MonitorResumes ==
    LET t == hitParams.thread
        trampoline == IF pHook[t] \in hooks THEN "run" ELSE "wild"
    IN
    /\ ~Crashed
    /\ mon = "held"
    /\ mon' = "call"
    /\ \/ t = InitThread /\ UNCHANGED tpc
       \/ t # InitThread /\ isRet[t] /\ Goes(t, "run")
       \/ t # InitThread /\ ~isRet[t] /\ Goes(t, trampoline)
       \/ t # InitThread /\ ~isRet[t] /\ Goes(t, "retstub")
    /\ UNCHANGED <<hookVars, hitVars, frames, rets, pHook, isRet, event, unloadVars, doze, node, careless>>

\* Hook requests are served until the destructor owns _hooksMtx ...
ServeHook(va) ==
    /\ Event
    /\ node = "up"
    /\ instance = "live" \/ \E u \in Unloaders : unl[u] \in {"stop", "notify", "offline"}
    /\ ~Hooked(va)
    /\ Hook(va)
    /\ UNCHANGED <<hitVars, threadVars, unloadVars, doze, node, mon, careless>>

\* ... and again when it releases it, but then there is no heap to take the stub from.
ServeHookLate(u) ==
    /\ Event
    /\ node = "up"
    /\ unl[u] = "rpc"
    /\ unl' = [unl EXCEPT ![u] = "wild"]
    /\ careless' = TRUE
    /\ UNCHANGED <<victimVars, hitStop, missed, instance, loads, owner, doze, node, mon>>

----------------------------------------------------------------------------
(* The unload threads.                                                     *)

UnlAt(u, pc) == ~Crashed /\ unl[u] = pc
UnlTo(u, pc) == unl' = [unl EXCEPT ![u] = pc]

\* One more thread than the module was loaded times is going to release it.
Unbalanced == Cardinality({u \in Unloaders : unl[u] \in Inside}) >= loads
StartCareless == careless' = (careless \/ Unbalanced)

\* Detach, or the callback for a lost connection.
StartThread(u) ==
    /\ UnlAt(u, "idle")
    /\ \A v \in Unloaders : unl[v] = "idle" => u <= v
    /\ UnlTo(u, "fini")
    /\ UNCHANGED <<victimVars, hitStop, missed, instance, loads, owner, doze, mon>>

\* A request; of the server, or of anybody who debugs.
Detach(u) ==
    /\ StartThread(u)
    /\ node = "up"
    /\ Event
    /\ Mapped
    /\ StartCareless
    /\ UNCHANGED node

\* The connection breaks.  The node's callback comes only if no worker is at work
\* (RpcSystem!ExceptionStopsDispatcher).
ConnectionLost ==
    /\ Event
    /\ node = "up"
    /\ node' = IF wfh \in {"called", "wait", "event"} THEN "stuck" ELSE "lost"
    /\ UNCHANGED <<victimVars, unloadVars, doze, mon, careless>>

\* _onRpcExc()
LossNoticed(u) ==
    /\ node = "lost"
    /\ node' = "over"
    /\ ~hitStop
    /\ StartThread(u)
    /\ StartCareless

\* Victim::fini() exchanges the instance for INITFINI_RUNNING; who gets it destroys it.
UnloadFini(u) ==
    /\ UnlAt(u, "fini")
    /\ IF instance = "live"
       THEN /\ instance' = "running"
            /\ owner' = u
            /\ UnlTo(u, "stop")
            /\ careless' = (careless \/ \E t \in AppThreads : Busy(t))
       ELSE /\ UnlTo(u, "free")
            /\ UNCHANGED <<instance, owner, careless>>
    /\ UNCHANGED <<victimVars, hitStop, missed, loads, doze, node, mon>>

UnloadStop(u) ==
    /\ UnlAt(u, "stop")
    /\ hitStop' = TRUE
    /\ UnlTo(u, "notify")
    /\ UNCHANGED <<victimVars, missed, instance, loads, owner, doze, node, mon, careless>>

\* (mutant) notify_one()
WokenOne == IF hitWaiting = {} THEN {} ELSE {CHOOSE w \in hitWaiting : TRUE}

\* _hitCv.notify_all()
WokenAll == hitWaiting

UnloadNotify(u) ==
    /\ UnlAt(u, "notify")
    /\ hitWaiting' = hitWaiting \ WokenAll
    /\ missed' = doze
    /\ UnlTo(u, "offline")
    /\ UNCHANGED <<hookVars, hit, hitParams, wfh, threadVars, hitStop, instance, loads, owner,
                   doze, node, mon, careless>>

\* The server answers Offline at once; a lost connection raises, and is ignored.
UnloadOffline(u) ==
    /\ UnlAt(u, "offline")
    /\ UnlTo(u, "unhook")
    /\ UNCHANGED <<victimVars, hitStop, missed, instance, loads, owner, doze, node, mon, careless>>

\* (mutant) _unhook() leaves the hook in the table
UnhookNone == hooks

\* The hook of one address after the other is removed.
UnhookOne == hooks \ {CHOOSE h \in hooks : TRUE}

\* (mutant) hooks are left installed
UnhookAny == TRUE

UnhookedAll == hooks = {}

UnloadUnhook(u) ==
    /\ UnlAt(u, "unhook")
    /\ IF UnhookedAll THEN UnlTo(u, "rpc") /\ UNCHANGED hooks
       ELSE hooks' = UnhookOne /\ UNCHANGED unl
    /\ UNCHANGED <<made, hitVars, threadVars, hitStop, missed, instance, loads, owner, doze,
                   node, mon, careless>>

\* ~Rpc(): the dispatcher does not end as long as a worker has not.
UnloadRpc(u) ==
    /\ UnlAt(u, "rpc")
    /\ IF node = "stuck" \/ wfh \in {"called", "wait", "event"}
       THEN UnlTo(u, "hung") /\ node' = "stuck"
       ELSE UnlTo(u, "null") /\ node' = "over"
    /\ UNCHANGED <<victimVars, hitStop, missed, instance, loads, owner, doze, mon, careless>>

UnloadNull(u) ==
    /\ UnlAt(u, "null")
    /\ instance' = "null"
    /\ UnlTo(u, "free")
    /\ UNCHANGED <<victimVars, hitStop, missed, loads, owner, doze, node, mon, careless>>

\* (mutant) the thread ends without releasing the module
NotReleased == loads

Released == loads - 1

\* FreeLibraryAndExitThread(): with the last reference the code goes, also that of other
\* unload threads.
UnloadFree(u) ==
    /\ UnlAt(u, "free")
    /\ loads' = Released
    /\ unl' = [v \in Unloaders |-> CASE v = u -> "done"
                                     [] v # u /\ loads = 1 /\ unl[v] \in Inside -> "wild"
                                     [] OTHER -> unl[v]]
    /\ UNCHANGED <<victimVars, hitStop, missed, instance, owner, doze, node, mon, careless>>

\* Somebody loads the module once more, a second attach for instance.
LoadAgain ==
    /\ Event
    /\ Mapped
    /\ loads' = loads + 1
    /\ UNCHANGED <<victimVars, hitStop, missed, instance, unl, owner, doze, node, mon, careless>>

----------------------------------------------------------------------------
Init ==
    /\ VictimInit
    /\ hitStop = FALSE
    /\ doze = Nobody
    /\ missed = Nobody
    /\ instance = "live"
    /\ loads = 1
    /\ unl = [u \in Unloaders |-> "idle"]
    /\ owner = 0
    /\ node = "up"
    /\ mon = "call"
    /\ careless = FALSE
    /\ events = 0

\* In a stub.
StubStep(t) ==
    \/ AppReturnStub(t) \/ AppIgnored(t)
    \/ AppHit(t) \/ AppDoze(t) \/ AppStopped(t) \/ AppArm(t) \/ AppCodeGone(t)

WorkerStep ==
    WorkerListens \/ WorkerAgain \/ WorkerHit \/ WorkerStopped \/ WorkerEvent

MonitorStep == MonitorCalls \/ MonitorTakes \/ MonitorResumes

UnloadStep(u) ==
    \/ UnloadFini(u) \/ UnloadStop(u) \/ UnloadNotify(u) \/ UnloadOffline(u)
    \/ UnloadUnhook(u) \/ UnloadRpc(u) \/ UnloadNull(u) \/ UnloadFree(u)

Running ==
    \/ \E t \in AppThreads : StubStep(t)
    \/ \E t \in Threads : AppReturn(t) \/ AppReturnHook(t)
    \/ Sleep \/ WorkerStep \/ MonitorStep
    \/ \E u \in Unloaders : LossNoticed(u) \/ UnloadStep(u)

FromOutside ==
    \/ \E t \in Threads, va \in VAs : AppCall(t, va)
    \/ \E va \in VAs : ServeHook(va)
    \/ \E u \in Unloaders : ServeHookLate(u) \/ Detach(u)
    \/ ConnectionLost \/ LoadAgain

Next == (Running /\ UNCHANGED events) \/ FromOutside

Spec == Init /\ [][Next]_vars

----------------------------------------------------------------------------
(* Safety.                                                                 *)

UnloadPlaces == Inside \cup {"idle", "done", "wild"}

TypeOK ==
    /\ hooks \subseteq Hooks \ {NoHook}
    /\ made \in Nat
    /\ hit \in BOOLEAN
    /\ hitParams \in [thread : AppThreads, hook : Hooks, isRet : BOOLEAN]
    /\ hitWaiting \subseteq AppThreads \cup {Worker}
    /\ wfh \in {"none", "called", "wait", "event", "answered", "ended"}
    /\ tpc \in [AppThreads -> InStub \cup {"run", "retstub", "done", "wild"}]
    /\ \A t \in AppThreads :
          /\ frames[t] \in Seq([va : VAs, ret : {CallerAddr, ReturnAddr}])
          /\ rets[t] \in Seq(Words)
    /\ pHook \in [AppThreads -> Hooks]
    /\ isRet \in [AppThreads -> BOOLEAN]
    /\ event \in [AppThreads -> {"initial", "inverse"}]
    /\ hitStop \in BOOLEAN
    /\ {doze, missed} \subseteq AppThreads \cup {Worker, Nobody}
    /\ instance \in {"live", "running", "null"}
    /\ loads \in Nat
    /\ unl \in [Unloaders -> UnloadPlaces]
    /\ owner \in 0 .. MaxUnloads
    /\ node \in {"up", "lost", "over", "stuck"}
    /\ mon \in {"call", "wait", "held", "ended"}
    /\ careless \in BOOLEAN
    /\ events \in 0 .. MaxEvents

\* A detach leaves the process unharmed, and when the module is gone nothing of it is left
\* behind: no hook, no thread in its code or bound to return to it, no WaitForHook that will
\* be served (initfini.cpp 89-120, rpc.cpp 86-94).  That is, if no thread was in a hook when
\* the detach began, none has run into one since, no hook was being set and the module was
\* released as often as it was loaded: the code provides for none of the four.
CleanDetach ==
    ~careless =>
        /\ ~Crashed
        /\ ~Mapped => /\ hooks = {}
                     /\ \A t \in AppThreads : ~Busy(t)
                     /\ wfh \in {"none", "answered", "ended"}

----------------------------------------------------------------------------
(* Liveness.  Threads in stubs, the worker, the unload threads and the     *)
(* server's monitor run.  Nothing makes the application call a function or *)
(* return from one, and nothing makes anybody detach.                      *)

Fairness ==
    /\ \A t \in AppThreads : WF_vars(StubStep(t) /\ UNCHANGED events)
    /\ WF_vars(Sleep /\ UNCHANGED events)
    /\ WF_vars(WorkerStep /\ UNCHANGED events)
    /\ WF_vars(MonitorStep /\ UNCHANGED events)
    /\ \A u \in Unloaders : WF_vars(UnloadStep(u) /\ UNCHANGED events)

FairSpec == Spec /\ Fairness

\* The rundown sets everybody free who waits in a hook, and ends the server's WaitForHook
\* (hookhl.cpp 204-206, rpc.cpp 70-72): except a thread that comes back from a function, which
\* goes to "jmp $" all the same (hookll.x64.asm 236), and whoever was between the predicate and
\* its sleep when the destructor notified without _hitMtx (initfini.cpp 94-95).
WaitersLeave ==
    /\ \A t \in Threads \ Internal :
          tpc[t] = "onhook" /\ hitStop ~> tpc[t] = "run" \/ isRet[t] \/ t = missed \/ Crashed
    /\ wfh \in {"called", "wait"} /\ hitStop ~>
          wfh \notin {"called", "wait"} \/ Worker = missed \/ Crashed

\* An unload thread releases the module (initfini.cpp 19-32), unless ~Rpc() finds the server's
\* WaitForHook still in its worker and waits for ever.
RundownEnds == []<>((\A u \in Unloaders : unl[u] \notin Inside \ {"hung"}) \/ Crashed)

----------------------------------------------------------------------------
(* VictimProcess, of which the server's specification is made, is this     *)
(* module without threads and hooks.                                       *)

ThePid == "pid"

Unloading == Cardinality({u \in Unloaders : unl[u] \in Inside})

InstNow ==
    CASE Crashed -> "none"
      [] ~Crashed /\ instance = "live" -> "up"
      [] ~Crashed /\ instance # "live" ->
            CASE unl[owner] \in {"stop", "notify", "offline"} -> "rundown"
              [] unl[owner] \in {"unhook", "rpc", "hung", "null", "free"} -> "leaving"
              [] OTHER -> "none"

P == INSTANCE VictimProcess WITH
    Pids <- {ThePid},
    life <- [p \in {ThePid} |-> IF Crashed THEN "dead" ELSE "alive"],
    inst <- [p \in {ThePid} |-> InstNow],
    refs <- [p \in {ThePid} |-> IF Crashed THEN 0 ELSE loads],
    unload <- [p \in {ThePid} |-> IF Crashed THEN 0 ELSE Unloading]

\* What the server's specification takes a victim for is what the module does: a Victim object
\* goes through its destructor once, and the last reference takes other unload threads along
\* (singleton.h 38-46, initfini.cpp 19-32).
ImplementsVictimProcess == P!VictimSpec
=============================================================================
