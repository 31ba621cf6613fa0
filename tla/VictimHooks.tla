---------------------------- MODULE VictimHooks ----------------------------
(***************************************************************************)
(* The hooks of the module injected into a debugged process (class Victim, *)
(* src/DollDbg.Victim, and the stubs in hookll.x64.asm).  An application   *)
(* thread that calls a hooked function waits until the server listens,     *)
(* leaves its parameters in _hitParams, flips the low half of its return   *)
(* address, a slimevent, and spins at "jmp $" until the server's debugger  *)
(* engine rewrites its context.  The server listens with one WaitForHook   *)
(* call at a time, served by the worker of this module.                    *)
(*                                                                         *)
(* _hitMtx is held across steps only by the worker while it waits for the  *)
(* slimevent; every other critical section is one step.                    *)
(***************************************************************************)
EXTENDS Naturals, Sequences, FiniteSets, SequencesExt

CONSTANTS
    Threads,    \* threads of the process
    Internal,   \* those inside the RPC or the module itself (isRpcThread() or _tls)
    Main,       \* the thread that runs the entry point of a launched process
    InitThread, \* the module's own thread of a dynamically attached process
    VAs,        \* addresses of functions
    EntryPoint, \* the address hooked by _hookEp() in a launched process
    NoVa,       \* address 0
    Starts,     \* isStatic: TRUE for a launched process, FALSE for one attached to
    MaxDepth    \* bound: nesting of function calls in a thread

ASSUME ThreadAssumption ==
    /\ Internal \subseteq Threads
    /\ Main \in Threads \ Internal
    /\ InitThread \notin Threads
ASSUME AddressAssumption == EntryPoint \in VAs /\ NoVa \notin VAs
ASSUME StartAssumption == Starts \subseteq BOOLEAN /\ Starts # {}
ASSUME DepthAssumption == MaxDepth \in Nat \ {0}

Worker == "worker"
AppThreads == Threads \cup {InitThread}

VARIABLES
    hooks,      \* _hooks: the hook_t objects that exist
    made,       \* number of hook_t objects made by Hook so far: their identity
    hit,        \* _hit
    hitParams,  \* _hitParams
    hitWaiting, \* who is blocked in _hitCv.wait()
    wfh,        \* where the WaitForHook worker is
    tpc,        \* where each thread is
    frames,     \* each thread's calls under way: the function and its return address
    rets,       \* each thread's return stack (_tlsReturnStack)
    pHook,      \* the hook_t pointer a stub works with
    isRet,      \* the isReturning argument of HookLLOnHook
    event       \* the slimevent word of each thread: its return address, or the inverse

hookVars == <<hooks, made>>
hitVars == <<hit, hitParams, hitWaiting, wfh>>
threadVars == <<tpc, frames, rets, pHook, isRet, event>>
victimVars == <<hookVars, hitVars, threadVars>>

NoHook == [va |-> NoVa, n |-> 0]
Hooks == [va : VAs, n : Nat] \cup {NoHook}

\* The other words a stack may hold: code addresses.
CallerAddr == [va |-> "caller", n |-> 0]
ReturnAddr == [va |-> "_HookLLReturn", n |-> 0]
Words == Hooks \cup {CallerAddr, ReturnAddr}

Hooked(va) == \E h \in hooks : h.va = va
HookAt(va) == CHOOSE h \in hooks : h.va = va

\* A thread inside a stub or stopped by one.
InStub == {"onhook", "arming", "spin"}

\* The RPC of this module works unless one of its threads stops in a hook.
RpcRuns == \A t \in Internal : tpc[t] \notin InStub

----------------------------------------------------------------------------
(* Threads.                                                                *)

\* A thread arrives at a function: through its hook or straight into its body.
Arrive(t, va) ==
    IF Hooked(va)
    THEN /\ tpc' = [tpc EXCEPT ![t] = "onhook"]
         /\ pHook' = [pHook EXCEPT ![t] = HookAt(va)]
         /\ isRet' = [isRet EXCEPT ![t] = FALSE]
    ELSE /\ tpc' = [tpc EXCEPT ![t] = "run"]
         /\ UNCHANGED <<pHook, isRet>>

\* The application calls a function.  Nothing calls the entry point again.
Call(t, va) ==
    /\ tpc[t] = "run"
    /\ va # EntryPoint
    /\ Len(frames[t]) < MaxDepth
    /\ frames' = [frames EXCEPT ![t] = Append(@, [va |-> va, ret |-> CallerAddr])]
    /\ Arrive(t, va)
    /\ UNCHANGED <<hookVars, hitVars, rets, event>>

\* A function returns to its caller ...
Return(t) ==
    /\ tpc[t] = "run"
    /\ frames[t] # <<>>
    /\ Last(frames[t]).ret = CallerAddr
    /\ frames' = [frames EXCEPT ![t] = Front(@)]
    /\ UNCHANGED <<hookVars, hitVars, tpc, rets, pHook, isRet, event>>

\* (mutant) the two values come off the return stack in the wrong order
SwappedPop(s) == [ret |-> s[Len(s) - 1], hook |-> s[Len(s)]]

\* _HookLLReturn takes the return address off the return stack, then the hook.
PopReturn(s) == [ret |-> s[Len(s)], hook |-> s[Len(s) - 1]]

\* ... or to _HookLLReturn, which puts the return address back and reports the return.
ReturnHook(t) ==
    /\ tpc[t] = "run"
    /\ frames[t] # <<>>
    /\ Last(frames[t]).ret = ReturnAddr
    /\ LET top == PopReturn(rets[t]) IN
         /\ frames' = [frames EXCEPT ![t][Len(frames[t])].ret = top.ret]
         /\ pHook' = [pHook EXCEPT ![t] = top.hook]
    /\ rets' = [rets EXCEPT ![t] = Front(Front(@))]
    /\ isRet' = [isRet EXCEPT ![t] = TRUE]
    /\ tpc' = [tpc EXCEPT ![t] = "onhook"]
    /\ UNCHANGED <<hookVars, hitVars, event>>

\* HookLLReturnStub, where break-on-return resumes a thread: save the hook and the return
\* address, replace the latter, continue in the trampoline.
ReturnStub(t) ==
    /\ tpc[t] = "retstub"
    /\ IF pHook[t] \in hooks
       THEN /\ rets' = [rets EXCEPT ![t] = @ \o <<pHook[t], Last(frames[t]).ret>>]
            /\ frames' = [frames EXCEPT ![t][Len(frames[t])].ret = ReturnAddr]
            /\ tpc' = [tpc EXCEPT ![t] = "run"]
       ELSE /\ tpc' = [tpc EXCEPT ![t] = "wild"]
            /\ UNCHANGED <<rets, frames>>
    /\ UNCHANGED <<hookVars, hitVars, pHook, isRet, event>>

----------------------------------------------------------------------------
(* hookHLOnHook() and the slimevent.                                       *)

\* (mutant) no thread is ignored
IgnoreNone(t) == FALSE
IgnoredThread(t) == t \in Internal

\* An internal thread is ignored: it continues in the trampoline of its hook.
OnHookIgnore(t) ==
    /\ tpc[t] = "onhook"
    /\ IgnoredThread(t)
    /\ tpc' = [tpc EXCEPT ![t] = IF pHook[t] \in hooks THEN "run" ELSE "wild"]
    /\ UNCHANGED <<hookVars, hitVars, frames, rets, pHook, isRet, event>>

HitMtxFree == wfh # "event"

\* (mutant) a thread does not wait for its turn
HitOpenAlways == TRUE

\* The predicate of the wait in hookHLOnHook().
HitOpen == ~hit

\* A thread whose turn it is reports itself.
OnHookPass(t) ==
    /\ tpc[t] = "onhook"
    /\ ~IgnoredThread(t)
    /\ HitMtxFree
    /\ t \notin hitWaiting
    /\ HitOpen
    /\ hitParams' = [thread |-> t, hook |-> pHook[t], isRet |-> isRet[t]]
    /\ hit' = TRUE
    /\ hitWaiting' = {}
    /\ tpc' = [tpc EXCEPT ![t] = "arming"]
    /\ UNCHANGED <<hookVars, wfh, frames, rets, pHook, isRet, event>>

\* The others wait.
OnHookWait(t) ==
    /\ tpc[t] = "onhook"
    /\ ~IgnoredThread(t)
    /\ HitMtxFree
    /\ t \notin hitWaiting
    /\ ~HitOpen
    /\ hitWaiting' = hitWaiting \cup {t}
    /\ UNCHANGED <<hookVars, hit, hitParams, wfh, threadVars>>

\* _HookLLHit: trigger the slimevent, then "jmp $".  InitThread notifies and ends.
HookLLHit(t) ==
    /\ tpc[t] = "arming"
    /\ event' = [event EXCEPT ![t] = "inverse"]
    /\ tpc' = [tpc EXCEPT ![t] = IF t = InitThread THEN "done" ELSE "spin"]
    /\ UNCHANGED <<hookVars, hitVars, frames, rets, pHook, isRet>>

\* A spurious wake-up of a thread or of the worker.
HitSpuriousWakeup ==
    /\ \E w \in hitWaiting : hitWaiting' = hitWaiting \ {w}
    /\ UNCHANGED <<hookVars, hit, hitParams, wfh, threadVars>>

----------------------------------------------------------------------------
(* _onRpcWaitForHook(), in an RPC worker.                                  *)

\* (mutant) nobody is notified
HitNotifyNone == {hitWaiting}

\* _hitCv.notify_one()
HitNotifyOne ==
    IF hitWaiting = {} THEN {{}} ELSE {hitWaiting \ {w} : w \in hitWaiting}

\* Let one hit through and, _hit being false now, wait for it.
WaitForHook ==
    /\ wfh = "called"
    /\ RpcRuns
    /\ hit' = FALSE
    /\ \E rest \in HitNotifyOne : hitWaiting' = rest \cup {Worker}
    /\ wfh' = "wait"
    /\ UNCHANGED <<hookVars, hitParams, threadVars>>

\* Awake again without a hit: back to the wait.
WaitForHookAgain ==
    /\ wfh = "wait"
    /\ Worker \notin hitWaiting
    /\ ~hit
    /\ hitWaiting' = hitWaiting \cup {Worker}
    /\ UNCHANGED <<hookVars, hit, hitParams, wfh, threadVars>>

\* Awake with a hit: the answer is made, and _hitMtx stays locked.
WaitForHookHit ==
    /\ wfh = "wait"
    /\ Worker \notin hitWaiting
    /\ hit
    /\ wfh' = "event"
    /\ UNCHANGED <<hookVars, hit, hitParams, hitWaiting, threadVars>>

\* slimevent::wait() writes the initial value back with every exchange.
EventTaken(t) == [event EXCEPT ![t] = "initial"]

\* (mutant) the thread may still be on its way to "jmp $"
EventUnseen(t) == TRUE
EventSeen(t) == event[t] = "inverse"

\* slimevent::wait() sees the inverted word: the thread is at "jmp $".
WaitForHookEvent ==
    /\ wfh = "event"
    /\ EventSeen(hitParams.thread)
    /\ event' = EventTaken(hitParams.thread)
    /\ wfh' = "answered"
    /\ UNCHANGED <<hookVars, hit, hitParams, hitWaiting, tpc, frames, rets, pHook, isRet>>

----------------------------------------------------------------------------
(* _hook() and _unhook(), called with _hooksMtx held; the other threads    *)
(* are suspended for as long as code is patched.                           *)

\* _hook() throws when there is a hook already.
Hook(va) ==
    /\ hooks' = hooks \cup {[va |-> va, n |-> made + 1]}
    /\ made' = made + 1

\* _unhook() deletes the hook_t; the trampoline goes with it.
Unhook(va) ==
    /\ hooks' = {h \in hooks : h.va # va}
    /\ UNCHANGED made

\* The initial hook of a launched process (_hookEp()); later ones count from 1.
InitialHook == [va |-> EntryPoint, n |-> 0]

\* (mutant) _hit(false)
HitClear == FALSE

\* _hit(true): no hook gets through before the server listens.
HitInitially == TRUE

\* A process is launched, its main thread at the hooked entry point, or running when the
\* module is loaded, and then InitThread makes the initial report.
VictimInit ==
    /\ \/ /\ TRUE \in Starts
          /\ hooks = {InitialHook} /\ made = 0
          /\ tpc = [t \in AppThreads |-> CASE t = Main -> "onhook"
                                           [] t = InitThread -> "done"
                                           [] OTHER -> "run"]
          /\ frames = [t \in AppThreads |->
                IF t = Main THEN <<[va |-> EntryPoint, ret |-> CallerAddr]>> ELSE <<>>]
          /\ pHook = [t \in AppThreads |-> IF t = Main THEN InitialHook ELSE NoHook]
       \/ /\ FALSE \in Starts
          /\ hooks = {} /\ made = 0
          /\ tpc = [t \in AppThreads |-> IF t = InitThread THEN "onhook" ELSE "run"]
          /\ frames = [t \in AppThreads |-> <<>>]
          /\ pHook = [t \in AppThreads |-> NoHook]
    /\ hit = HitInitially
    /\ hitParams = [thread |-> InitThread, hook |-> NoHook, isRet |-> FALSE]
    /\ hitWaiting = {}
    /\ wfh = "none"
    /\ rets = [t \in AppThreads |-> <<>>]
    /\ isRet = [t \in AppThreads |-> FALSE]
    /\ event = [t \in AppThreads |-> "initial"]
============================================================================
