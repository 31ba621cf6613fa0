---------------------------- MODULE Breakpoints ----------------------------
(***************************************************************************)
(* Breakpoints across the three programs, for one debugged process: the    *)
(* victim's hooks (VictimHooks), the server's monitor thread, its hook     *)
(* list and its BpSet handler (src/DollDbg.Server), and the client's       *)
(* handlers and breakpoint table (Client.py).                              *)
(*                                                                         *)
(* The calls between them have the contract RpcCalls: a request is served  *)
(* once and its answer returns to its caller.  Here nothing fails: losing  *)
(* a connection, detaching and failing debugger-engine operations end the  *)
(* monitor and are not part of this module.                                *)
(***************************************************************************)
EXTENDS VictimHooks

CONSTANTS
    LateBpSet,  \* the user also sets breakpoints while the process runs freely
    MayClear,   \* the user calls bpClear()
    MaxOps      \* bound: calls of bpSet() and bpClear()

ASSUME UsageAssumption == LateBpSet \in BOOLEAN /\ MayClear \in BOOLEAN
ASSUME OpsAssumption == MaxOps \in Nat

VARIABLES
    mon,         \* where _monitor() is
    hookData,    \* its local variables: the hit, the copy of the hook_t, va and trampoline
    action,      \* the client's answer to NotifyHook
    serverHooks, \* victim_t::hooks
    gratuitous,  \* hooks the monitor has taken for the initial one
    op,          \* progress of bpSet() or bpClear() for each address
    opKind,      \* which of the two it is
    ops,         \* how many there have been
    bps,         \* _victim_t.bps: addresses with a handler
    ready,       \* _victim_t.ready
    readyEvt     \* _victim_t.readyEvt is set

monitorVars == <<mon, hookData, action, gratuitous>>
opVars == <<op, opKind, ops>>
clientVars == <<bps, ready, readyEvt>>
serverVars == <<monitorVars, serverHooks, opVars, clientVars>>
vars == <<victimVars, serverVars>>

NoData == [thread |-> InitThread, hook |-> NoHook, isRet |-> FALSE, va |-> NoVa, tramp |-> NoHook]

----------------------------------------------------------------------------
(* _monitor().  The thread of the hit is suspended from MonitorRead to     *)
(* MonitorResume.                                                          *)

MonitorListen ==
    /\ mon = "listen"
    /\ mon' = "wait"
    /\ wfh' = "called"
    /\ UNCHANGED <<hookVars, hit, hitParams, hitWaiting, threadVars, hookData, action,
                   gratuitous, serverHooks, opVars, clientVars>>

\* WaitForHook is answered: suspend the thread and read its hook_t, if there is one; of a
\* deleted hook_t nothing sensible is read.
MonitorRead ==
    /\ mon = "wait"
    /\ wfh = "answered"
    /\ RpcRuns
    /\ wfh' = "none"
    /\ hookData' = [thread |-> hitParams.thread, hook |-> hitParams.hook,
                    isRet |-> hitParams.isRet, va |-> hitParams.hook.va,
                    tramp |-> hitParams.hook]
    /\ mon' = CASE hitParams.hook = NoHook -> "notify"
                [] hitParams.hook \in hooks -> "check"
                [] OTHER -> "misread"
    /\ UNCHANGED <<hookVars, hit, hitParams, hitWaiting, threadVars, action, gratuitous,
                   serverHooks, opVars, clientVars>>

\* (mutant) the lock is released only after the client has answered
HooksMtxFreeLate == mon \notin {"unhook", "notify", "initial", "handler"}

\* victim.hooksMtx is the monitor's while it removes the initial hook.
HooksMtxFree == mon # "unhook"

\* (mutant) a listed hook is taken for the initial one
ListedHook(va) == va \in serverHooks

\* The VA is not found in the hooks list.
Unlisted(va) == va \notin serverHooks

MonitorListed ==
    /\ mon = "check"
    /\ ~Unlisted(hookData.va)
    /\ mon' = "notify"
    /\ UNCHANGED <<victimVars, hookData, action, gratuitous, serverHooks, opVars, clientVars>>

MonitorUnlisted ==
    /\ mon = "check"
    /\ Unlisted(hookData.va)
    /\ mon' = "unhook"
    /\ gratuitous' = gratuitous \cup {hookData.hook}
    /\ UNCHANGED <<victimVars, hookData, action, serverHooks, opVars, clientVars>>

\* (mutant) the trampoline of the deleted hook is kept
StaleTrampoline == [hookData EXCEPT !.va = NoVa]

\* The trampoline is gone and the original address takes its place; the client sees 0.
InitialData == [hookData EXCEPT !.tramp = NoHook, !.va = NoVa]

\* The victim serves Unhook and answers.
MonitorUnhook ==
    /\ mon = "unhook"
    /\ RpcRuns
    /\ Unhook(hookData.va)
    /\ hookData' = InitialData
    /\ mon' = "notify"
    /\ UNCHANGED <<hitVars, threadVars, action, gratuitous, serverHooks, opVars, clientVars>>

\* NotifyHook reaches the client; 0 stands for the initial break.
MonitorNotify ==
    /\ mon = "notify"
    /\ mon' = IF hookData.va = NoVa THEN "initial" ELSE "handler"
    /\ ready' = (ready \/ hookData.va = NoVa)
    /\ UNCHANGED <<victimVars, hookData, action, gratuitous, serverHooks, opVars, bps, readyEvt>>

\* Where the thread goes on: its context after _manipGo(), _manipBreakOnReturn() or
\* _manipSkip().  The return address is read or kept as it is in memory, and a trampoline
\* or hook_t must still exist.
Context(t) ==
    LET d == hookData
        Leaving == d.isRet \/ action = "Skip"
        Intact == event[t] = "initial" /\ tpc[t] = "spin"
    IN CASE ~Intact -> "wild"
         [] Intact /\ Leaving -> "leave"
         [] Intact /\ ~Leaving /\ action = "BreakOnReturn" -> "retstub"
         [] Intact /\ ~Leaving /\ action = "Go" /\ d.tramp = NoHook -> "va"
         [] Intact /\ ~Leaving /\ action = "Go" /\ d.tramp # NoHook ->
              IF d.tramp \in hooks THEN "trampoline" ELSE "wild"

\* Rewrite the context and resume the thread.
MonitorResume ==
    LET t == hookData.thread IN
    /\ mon = "resume"
    /\ mon' = "listen"
    /\ hookData' = NoData
    /\ action' = "none"
    /\ \/ /\ hookData.hook = NoHook
          /\ UNCHANGED threadVars
       \/ /\ hookData.hook # NoHook
          /\ Context(t) = "leave"
          /\ frames' = [frames EXCEPT ![t] = Front(@)]
          /\ tpc' = [tpc EXCEPT ![t] = "run"]
          /\ UNCHANGED <<rets, pHook, isRet, event>>
       \/ /\ hookData.hook # NoHook
          /\ Context(t) = "va"
          /\ Arrive(t, hookData.hook.va)
          /\ UNCHANGED <<frames, rets, event>>
       \/ /\ hookData.hook # NoHook
          /\ Context(t) \in {"retstub", "trampoline", "wild"}
          /\ tpc' = [tpc EXCEPT ![t] = IF Context(t) = "trampoline" THEN "run" ELSE Context(t)]
          /\ UNCHANGED <<frames, rets, pHook, isRet, event>>
    /\ UNCHANGED <<hookVars, hitVars, gratuitous, serverHooks, opVars, clientVars>>

----------------------------------------------------------------------------
(* The client's _onRpcNotifyHook() and ready().                            *)

\* A script awaits the breakpoints it sets before it lets the process go on.
OpsDone == LateBpSet \/ \A va \in VAs : op[va] = "idle"

\* VictimProxy.ready(): all deferred breakpoints are set.
ProxyReady ==
    /\ ready /\ ~readyEvt
    /\ \A va \in VAs : op[va] = "idle"
    /\ readyEvt' = TRUE
    /\ UNCHANGED <<victimVars, monitorVars, serverHooks, opVars, bps, ready>>

\* The initial hit is answered when readyEvt is set.
InitialAnswer ==
    /\ mon = "initial"
    /\ readyEvt
    /\ action' = "Go"
    /\ mon' = "resume"
    /\ UNCHANGED <<victimVars, hookData, gratuitous, serverHooks, opVars, clientVars>>

\* The handler decides; it may set breakpoints first.
HandlerAnswer ==
    /\ mon = "handler"
    /\ hookData.va \in bps
    /\ OpsDone
    /\ action' \in {"Go", "Skip", "BreakOnReturn"}
    /\ mon' = "resume"
    /\ UNCHANGED <<victimVars, hookData, gratuitous, serverHooks, opVars, clientVars>>

\* "Unknown breakpoint hit - ignoring breakpoint"
UnknownAnswer ==
    /\ mon = "handler"
    /\ hookData.va \notin bps
    /\ action' = "Go"
    /\ mon' = "resume"
    /\ UNCHANGED <<victimVars, hookData, gratuitous, serverHooks, opVars, clientVars>>

----------------------------------------------------------------------------
(* _victimBpSet() and _victimBpClear() in the client, _onRpcBpSet() in the *)
(* server.  bpClear() sends BpSet, too.                                    *)

\* The victim must be ready.  Scripts set breakpoints during the initial break, before
\* ready(), or from a handler; with LateBpSet they do at any time.
UserMayAct ==
    /\ ready
    /\ ops < MaxOps
    /\ \/ LateBpSet
       \/ mon = "initial" /\ ~readyEvt
       \/ mon = "handler" /\ hookData.va \in bps

\* (mutant) the handler is entered when the call has returned
BpsAfterCall(va) == bps
BpsBeforeCall(va) == bps \cup {va}

BpSet(va) ==
    /\ UserMayAct
    /\ op[va] = "idle"
    /\ bps' = BpsBeforeCall(va)
    /\ op' = [op EXCEPT ![va] = "sent"]
    /\ opKind' = [opKind EXCEPT ![va] = "set"]
    /\ ops' = ops + 1
    /\ UNCHANGED <<victimVars, monitorVars, serverHooks, ready, readyEvt>>

BpClear(va) ==
    /\ MayClear
    /\ UserMayAct
    /\ op[va] = "idle"
    /\ op' = [op EXCEPT ![va] = "sent"]
    /\ opKind' = [opKind EXCEPT ![va] = "clear"]
    /\ ops' = ops + 1
    /\ UNCHANGED <<victimVars, monitorVars, serverHooks, clientVars>>

\* _victimsMtx is held from here to the answer.
VictimsMtxFree == \A va \in VAs : op[va] \notin {"hook", "list"}

ServerBpSet(va) ==
    /\ op[va] = "sent"
    /\ VictimsMtxFree
    /\ op' = [op EXCEPT ![va] = "hook"]
    /\ UNCHANGED <<victimVars, monitorVars, serverHooks, opKind, ops, clientVars>>

\* The victim serves Hook; it refuses a second hook at an address.
VictimHook(va) ==
    /\ op[va] = "hook"
    /\ RpcRuns
    /\ IF Hooked(va)
       THEN /\ op' = [op EXCEPT ![va] = "failed"]
            /\ UNCHANGED hookVars
       ELSE /\ op' = [op EXCEPT ![va] = "list"]
            /\ Hook(va)
    /\ UNCHANGED <<hitVars, threadVars, monitorVars, serverHooks, opKind, ops, clientVars>>

\* (mutant) the hook is not entered into the list
NotListed(va) == serverHooks
Listed(va) == serverHooks \cup {va}

ServerList(va) ==
    /\ op[va] = "list"
    /\ HooksMtxFree
    /\ serverHooks' = Listed(va)
    /\ op' = [op EXCEPT ![va] = "ok"]
    /\ UNCHANGED <<victimVars, monitorVars, opKind, ops, clientVars>>

\* The answer reaches the client; bpClear() then removes the handler, or raises.
BpDone(va) ==
    /\ op[va] \in {"ok", "failed"}
    /\ op' = [op EXCEPT ![va] = "idle"]
    /\ bps' = IF opKind[va] = "clear" /\ op[va] = "ok" THEN bps \ {va} ELSE bps
    /\ UNCHANGED <<victimVars, monitorVars, serverHooks, opKind, ops, ready, readyEvt>>

----------------------------------------------------------------------------
Init ==
    /\ VictimInit
    /\ mon = "listen" /\ hookData = NoData /\ action = "none" /\ gratuitous = {}
    /\ serverHooks = {}
    /\ op = [va \in VAs |-> "idle"] /\ opKind = [va \in VAs |-> "set"] /\ ops = 0
    /\ bps = {} /\ ready = FALSE /\ readyEvt = FALSE

Next ==
    \/ \E t \in Threads, va \in VAs : Call(t, va) /\ UNCHANGED serverVars
    \/ \E t \in Threads : Return(t) /\ UNCHANGED serverVars
    \/ \E t \in Threads : ReturnHook(t) /\ UNCHANGED serverVars
    \/ \E t \in Threads : ReturnStub(t) /\ UNCHANGED serverVars
    \/ \E t \in AppThreads : OnHookIgnore(t) /\ UNCHANGED serverVars
    \/ \E t \in AppThreads : OnHookPass(t) /\ UNCHANGED serverVars
    \/ \E t \in AppThreads : OnHookWait(t) /\ UNCHANGED serverVars
    \/ \E t \in AppThreads : HookLLHit(t) /\ UNCHANGED serverVars
    \/ HitSpuriousWakeup /\ UNCHANGED serverVars
    \/ WaitForHook /\ UNCHANGED serverVars
    \/ WaitForHookAgain /\ UNCHANGED serverVars
    \/ WaitForHookHit /\ UNCHANGED serverVars
    \/ WaitForHookEvent /\ UNCHANGED serverVars
    \/ MonitorListen
    \/ MonitorRead
    \/ MonitorListed
    \/ MonitorUnlisted
    \/ MonitorUnhook
    \/ MonitorNotify
    \/ MonitorResume
    \/ ProxyReady
    \/ InitialAnswer
    \/ HandlerAnswer
    \/ UnknownAnswer
    \/ \E va \in VAs : BpSet(va)
    \/ \E va \in VAs : BpClear(va)
    \/ \E va \in VAs : ServerBpSet(va)
    \/ \E va \in VAs : VictimHook(va)
    \/ \E va \in VAs : ServerList(va)
    \/ \E va \in VAs : BpDone(va)

Spec == Init /\ [][Next]_vars

----------------------------------------------------------------------------
HitTypeOK ==
    /\ hooks \subseteq Hooks \ {NoHook}
    /\ made \in Nat
    /\ hit \in BOOLEAN
    /\ hitParams \in [thread : AppThreads, hook : Hooks, isRet : BOOLEAN]
    /\ hitWaiting \subseteq AppThreads \cup {Worker}
    /\ wfh \in {"none", "called", "wait", "event", "answered"}

ThreadTypeOK ==
    /\ tpc \in [AppThreads -> InStub \cup {"run", "retstub", "done", "wild"}]
    /\ frames \in [AppThreads -> Seq([va : VAs, ret : {CallerAddr, ReturnAddr}])]
    /\ rets \in [AppThreads -> Seq(Words)]
    /\ pHook \in [AppThreads -> Hooks]
    /\ isRet \in [AppThreads -> BOOLEAN]
    /\ event \in [AppThreads -> {"initial", "inverse"}]

ServerTypeOK ==
    /\ mon \in {"listen", "wait", "check", "unhook", "notify", "initial", "handler", "resume",
                "misread"}
    /\ hookData \in [thread : AppThreads, hook : Hooks, isRet : BOOLEAN,
                     va : VAs \cup {NoVa}, tramp : Hooks]
    /\ action \in {"none", "Go", "Skip", "BreakOnReturn"}
    /\ gratuitous \subseteq Hooks
    /\ serverHooks \subseteq VAs
    /\ op \in [VAs -> {"idle", "sent", "hook", "list", "ok", "failed"}]
    /\ opKind \in [VAs -> {"set", "clear"}]
    /\ ops \in 0 .. MaxOps
    /\ bps \subseteq VAs
    /\ ready \in BOOLEAN
    /\ readyEvt \in BOOLEAN

\* The type invariant of victim, server and client; a stub never takes a return address
\* for a hook (hookll.x64.asm 224-228).
TypeOK == HitTypeOK /\ ThreadTypeOK /\ ServerTypeOK

----------------------------------------------------------------------------
(* Safety.                                                                 *)

\* One hit at a time (hookhl.cpp 204-210, initfini.cpp 37): a thread that is at, or on its
\* way to, "jmp $" is the one _hitParams tells the server about, so its parameters are
\* never overwritten before the server has resumed it.
HitExclusive ==
    \A t \in AppThreads : tpc[t] \in {"arming", "spin"} => hit /\ hitParams.thread = t

\* While the server works on a hit, its thread is at "jmp $" with the return address put
\* back (slimevent.h 51-55), in the function the hook belongs to: the context the debugger
\* engine reads and rewrites is the one the stubs prepared.
StoppedWhenReported ==
    mon \in {"check", "unhook", "notify", "initial", "handler", "resume"}
        /\ hookData.hook # NoHook =>
    LET t == hookData.thread IN
        /\ tpc[t] = "spin"
        /\ event[t] = "initial"
        /\ pHook[t] = hookData.hook /\ isRet[t] = hookData.isRet
        /\ Last(frames[t]) = [va |-> hookData.hook.va, ret |-> CallerAddr]

\* No thread continues through a deleted hook, a deleted trampoline or a damaged return
\* address, and the monitor never reads a deleted hook_t (debugger.cpp 159-179).
NoWildThread == mon # "misread" /\ \A t \in AppThreads : tpc[t] # "wild"

\* What the comment in _monitor() (debugger.cpp 169-170) says: a hit that is not in the
\* hooks list is the gratuitous hook at the beginning of the attach.
GratuitousIsInitial == gratuitous \subseteq {InitialHook}

\* Victim, server and client agree on every address nobody is changing: it is hooked in
\* the victim if and only if the server lists it, and then the client has a handler.
ViewsAgree ==
    \A va \in VAs : op[va] = "idle" =>
        /\ va \in serverHooks <=> \E h \in hooks : h.va = va /\ h # InitialHook
        /\ va \in serverHooks => va \in bps

\* A breakpoint reported to the client has a handler (Client.py 151-153, 304): it is in
\* the table before any thread can hit it.
NoUnknownBreakpoint == mon = "handler" => hookData.va \in bps

\* What bpClear() says (VictimProxy.py 152): "Clear a breakpoint."  When it is over, the
\* address is not hooked.
BpClearClears ==
    [][\A va \in VAs : op[va] # "idle" /\ op'[va] = "idle" /\ opKind[va] = "clear"
                          => ~Hooked(va)']_vars

----------------------------------------------------------------------------
(* What a breakpoint means (HookActions), and how it is implemented.       *)

IsStopped(t) == tpc[t] \in InStub /\ t \notin Internal

PhaseOf(t, i) ==
    IF i < Len(frames[t]) \/ ~IsStopped(t) THEN "body"
    ELSE IF isRet[t] THEN "exit" ELSE "entry"

Activation(t, i) ==
    [va |-> IF PhaseOf(t, i) = "body" THEN frames[t][i].va ELSE pHook[t].va,
     phase |-> PhaseOf(t, i),
     onRet |-> \/ frames[t][i].ret = ReturnAddr
               \/ tpc[t] = "retstub" /\ i = Len(frames[t])]

Activations == [t \in Threads |-> [i \in 1 .. Len(frames[t]) |-> Activation(t, i)]]

Decided == [t \in Threads |-> IF mon = "resume" /\ hookData.thread = t THEN action ELSE "none"]

User == INSTANCE HookActions WITH acts <- Activations, decision <- Decided

\* Hooks, return stacks, the hit handshake, the monitor and the context it writes
\* implement the user's view: every decision is applied to the stop it was made for.
ImplementsHookActions == User!Spec

----------------------------------------------------------------------------
(* Liveness.  Threads inside the stubs run (the process is not suspended), *)
(* the three programs serve their calls, scripts call ready() and handlers *)
(* return.  Nothing makes the application call or leave a function.        *)

StubStep(t) ==
    OnHookIgnore(t) \/ OnHookPass(t) \/ OnHookWait(t) \/ HookLLHit(t)

WorkerStep == WaitForHook \/ WaitForHookAgain \/ WaitForHookHit \/ WaitForHookEvent

MonitorStep ==
    \/ MonitorListen \/ MonitorRead \/ MonitorListed \/ MonitorUnlisted \/ MonitorUnhook
    \/ MonitorNotify \/ MonitorResume \/ InitialAnswer \/ HandlerAnswer \/ UnknownAnswer

OpStep(va) == ServerBpSet(va) \/ VictimHook(va) \/ ServerList(va) \/ BpDone(va)

\* Strong fairness where a step is disabled only in passing: an RPC thread that runs through
\* a hook goes back to serving calls, and a mutex is handed on.
Fairness ==
    /\ \A t \in AppThreads : WF_vars(StubStep(t) /\ UNCHANGED serverVars)
    /\ SF_vars(WorkerStep /\ UNCHANGED serverVars)
    /\ SF_vars(MonitorStep)
    /\ \A va \in VAs : SF_vars(OpStep(va))
    /\ WF_vars(ProxyReady)

FairSpec == Spec /\ Fairness

\* Every thread a hook has stopped runs again: the hit passes through victim, server and
\* client and back, whatever else hits and whatever breakpoints are set meanwhile.
StoppedIsResumed == \A t \in Threads : tpc[t] = "spin" ~> tpc[t] # "spin"

\* A hit that waits for its turn does not wait for nothing: some thread gets through
\* (rpc.cpp 68-70: WaitForHook wakes one of those that wait).
HitGetsThrough ==
    (\E t \in AppThreads \ Internal : tpc[t] = "onhook") ~> (\E t \in AppThreads : tpc[t] = "arming")

\* Every bpSet() returns, also during the initial break, although monitor and BpSet
\* handler each wait for the victim with a mutex held (Server/rpc.cpp 342-352).
BpSetReturns == \A va \in VAs : op[va] = "sent" ~> op[va] = "idle"
============================================================================
