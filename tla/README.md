# Verification of DollDbg

TLA+ models of DollDbg, a debugger for Windows programs built on inline hooks, with TLC
configurations that check them, and TLAPS proofs of their invariants and refinements. Paths below are
relative to the repository.

## 1. The system

Three programs and a library:

| Part | Code | State it keeps |
|---|---|---|
| Client (Python) | `DollDbg.Client/DollDbg/Client` | `_victims` with, for each, `bps`, `ready`, `readyEvt`, the prompt; `_closeEvt` |
| Server (C++) | `DollDbg.Server` | `_victims` under `_victimsMtx`; for each its `hooks` (`hooksMtx`), debugger engine (`engineMtx`) and `monitor` thread |
| Victim (C++ DLL in the debugged process) | `DollDbg.Victim` | `_hooks` (`_hooksMtx`), `_hit`, `_hitParams` (`_hitMtx`, `_hitCv`), a return stack per thread |
| RPC library (C++) | `DollDbg.Rpc`, `DollDbg.Common/dolldbg/rpc` | one slot (`_reason` and its operand) under `_dispatcherMtx`/`_dispatcherCv`, `_requests`, `_workers`, `_channels` |
| RPC library (Python) | `DollDbg.Client/DollDbg/_Rpc` | the same tables in an asyncio task per activity |

The client is connected to the server by TCP, a named pipe or a serial line, the server to
each victim by a named pipe. Both connections carry one symmetric protocol: either side calls
the other, a frame is a channel, an id and a payload, and channel 0 carries answers.

What happens at a breakpoint, across all of them:

1. A thread of the victim calls a hooked function. The stub waits until no other hit is being
   handled, leaves its parameters in `_hitParams`, inverts the low half of its return address
   (the *slimevent*) and spins at `jmp $`.
2. The server's monitor has a `WaitForHook` call open. The victim's worker sees the hit, spins
   until the slimevent is inverted, writes the original value back and answers.
3. The monitor suspends the thread, reads the `hook_t`, and decides from its own hooks list
   whether this is a breakpoint or the initial break, whose hook it removes.
4. It calls `NotifyHook` on the client, whose handler answers Go, Skip or BreakOnReturn.
5. The monitor rewrites the thread's context accordingly (trampoline, return stub, or return
   address), resumes it and calls `WaitForHook` again.

### Components, their operations and what makes them correct

* **RPC node** (`Rpc.cpp`). Operations: `ready`, `call`, `registerChannel`,
  `unregisterChannel`, the destructor; threads: dispatcher, receiver, one worker per request
  served, any number of callers. Correct if every call returns the answer to its own request or
  an exception, exactly once; if every request served is answered once under its id; if nobody
  sleeps for ever beside the slot; and if it ends when told to. Hard: five kinds of threads share
  one mutex, one condition variable and one slot; 16-bit ids wrap; the connection can break in
  any state.
* **Victim hooks** (`hookhl.cpp`, `hookll.*.asm`, `rpc.cpp`, `slimevent.h`). Operations: hit,
  return, `Hook`, `Unhook`, `WaitForHook`, and the rundown. Correct if one hit is handled at a
  time, the server is told of a thread only when it is in place, and nobody runs through freed
  code. Hard: stubs run between any two instructions of anything, including the module's own
  threads.
* **Server monitor and breakpoints** (`debugger.cpp`, `debugger.x64.cpp`, `_onRpcBpSet`).
  Correct if every stop is reported and resumed as the client said, and the list agrees with the
  victim.
* **Server victims and life cycle** (`victim.cpp`, `initfini.cpp`, `main.cpp`, the rest of
  `rpc.cpp`). Attach, Launch, Kill, Online, Offline, Detach, Eval, Input, shutdown, the Ctrl-C
  handler. Correct if each victim is entered and removed once, its monitor lives as long as its
  entry, the server survives, and no request waits for ever. Hard: Offline comes from three
  places, each in a thread of its own; `_victimsMtx` is held while a monitor is joined and while
  Eval waits for the engine.
* **Victim life cycle** (`initfini.cpp`, `dllmain.cpp`, `singleton.h`). Load, Detach, loss of the
  connection, the destructor, unload. Correct if the process goes on unharmed. Hard: application
  threads are in the code that is being removed.
* **Client** (`Client.py`, `VictimProxy.py`). Handlers for NotifyHook, Offline, Output and
  Shutdown, and the user's operations. Correct if a hit finds its handler and every operation
  ends. Hard: every `await` is a switch.
* **Python RPC node** (`_Rpc/Rpc.py`). The same contract as the C++ node, with one task per
  activity; header and body are two sends, and `close()` awaits in the middle of two loops.
* Transports, protocol (FlatBuffers), GUI, platform helpers, vendored code: see section 7.

`PROJECT.json` lists 40 hazards of this code by line, each with the properties that cover it, what
these except, or the reason why none does.

## 2. Modules

| Module | Models |
|---|---|
| `RpcNode` | class `Rpc`: state, one action per step of each thread, no environment |
| `RpcSystem` | `RpcNode` with connection and peer; specification, properties, fairness |
| `RpcCalls` | abstract: what a user of `call()` relies on |
| `RpcProofs`, `RpcAnswerProofs`, `RpcContractProofs` | theorems about `RpcSystem`: threads and slot; frames and ids; runs in which no id is re-used, and the refinement |
| `VictimHooks` | hooks, stubs, hit handshake and `WaitForHook` in the victim |
| `Breakpoints` | `VictimHooks` with the server's monitor and BpSet and the client's handlers; specification, properties, fairness |
| `HookActions` | abstract: what a breakpoint means to the user |
| `VictimHooksProofs` | lemmas about hooks and stubs that the next and `RundownProofs` share |
| `BreakpointsProofs` | theorems about `Breakpoints` |
| `VictimRundown` | `VictimHooks` with Detach, the lost connection and the destructor; specification, properties, fairness |
| `RundownProofs` | theorems about `VictimRundown` |
| `VictimProcess` | abstract: what the server sees of a debugged process |
| `ServerVictims` | the server's table of victims, monitors, requests, main thread and console handler, on top of `VictimProcess` |
| `DebugSession` | `ServerVictims` with the client and its user; specification, properties, fairness |
| `SessionProofs` | theorems about `DebugSession` |
| `PyRpcNode` | class `Rpc` of the client: tasks, their sends, and `close()` |
| `PyRpcProofs` | theorems about `PyRpcNode` |
| `MCRpc`, `MCBreakpoints`, `MCSession`, `MCRundown`, `MCPyRpc` | instances for TLC |

The modules meet at contracts. `RpcSystem` shows that a node implements `RpcCalls`; `Breakpoints`
and `DebugSession` use calls that have it. `VictimRundown` shows that the module in the debugged
process implements `VictimProcess`; `ServerVictims` is built on it. `DebugSession` leaves out what
the monitor does with a hit, and `Breakpoints` when victims come and go.

### RpcNode and RpcSystem

`reason`, `request`, `incoming`, `response` and `exception` are the slot; `requests` and
`workers` map ids to calls and workers (`NoCall`: no entry). `waiting` is the set of threads
asleep in `_dispatcherCv`. `dpc`, `rpcv`, `wpc` and `call` say where dispatcher, receiver,
workers and callers are, `life` where the owner is (new, ready, joining). `link`, `inq` and
`outq` are the connection.

The mutex is held across steps only by the dispatcher, between waking up with a full slot and
waiting again; `MtxFree` says so and every other critical section is one action. Waiting is
exact: a thread that finds its predicate false sleeps (`CvWait`), a notification removes one
sleeper (`NotifyOne`) or all (`NotifyAll`), and sleepers may also wake for no reason
(`SpuriousWakeup`).

Sends are steps of their own, because `send` blocks with the mutex held when the pipe is full
(`PipeSize`). A failing send enters the handler at `Rpc.cpp` 225 and 248, which locks the mutex
the dispatcher owns: undefined for `std::mutex`, in the builds the project targets an exception
that leaves the thread function. The outcome is `dpc = "terminated"`: the process is gone. If
the receiver's error arrives first, the dispatcher takes the exception case instead. The
exception case itself tells each worker's caller that the connection closed, and then destroys
the workers' futures; that waits for every worker still running, which needs the mutex
(`DispatchClear`, `stuck`).

Payloads are the identity of the call they belong to, so that a wrong answer can be seen;
`got` remembers what each call returned. Frames are sent and received whole: only one thread of
a node sends and only one receives.

The peer makes its own calls, answers every request it has read exactly once, in any order, and
uses the same id rule. This covers another C++ node and the Python node as long as the latter
keeps the contract (see `PyRpcNode` for where it does not).

### VictimHooks and Breakpoints

`frames[t]` is a thread's call stack: for each function under way its address and its return
address, which is the caller's or `_HookLLReturn`. `rets[t]` is `_tlsReturnStack`: words of
either kind, so that popping in the wrong order is a type error. `tpc[t]` is `run` (in the
application), `onhook` (in `hookHLOnHook`), `arming` (before the inversion), `spin` (at
`jmp $`), `retstub` (in `HookLLReturnStub`), `wild` (went through freed memory). A hook has an
identity besides its address, because an address can be hooked again after an unhook.

`wfh` is where the `WaitForHook` call is, `mon` where the monitor is. Threads are stopped while
code is patched, so `Hook` and `Unhook` are atomic towards them. The context manipulations are
`Context` and `MonitorResume`: they go wild if the return address is still inverted or the
trampoline is gone, which is what would happen.

`op[va]` follows one `bpSet()` or `bpClear()` through client, server and victim. A user may act
where the API allows it: during the initial break (before `ready()`) and in handlers; with
`LateBpSet` at any time.

### VictimProcess, ServerVictims and DebugSession

Of a debugged process `VictimProcess` keeps whether it lives, how far its `Victim` object is
(`inst`), how often the module is loaded (`refs`) and how many unload threads run (`unload`).

`vic[p]` is the entry in `_victims`: `out`, `in`, or `ending` while Offline has it (`running` is
false, `rpc` is null and `_victimsMtx` is held until the entry is erased). `mon[p]` is the place
of `_monitor()`; `hit`, `failed` and `check` are the gaps between two of its reads of shared
state. `offline[p]` counts the detached threads that `_onRpcVOffline()` has started.
`req[r]` is a request of the client, from the call to its result, whichever process it is in;
`by` is the handler that awaits it, and `told` whether an `input()` has seen the prompt it waits
for. `main` follows `_tmain()` and `~Server()`; `ctrl` counts console events under way.
`crec[p]` is the client's record of a victim, `closing` its `close()`.

The death of the server, by an uncaught exception, by a null pointer (`_rpc` and `victim.rpc` are
reset under those who use them; the build does not turn access violations into exceptions) or by
a Ctrl-C without a handler, ends the server: `fate` says why, everything in the process is gone
and requests raise.

A monitor that waits for a hit ends when the victim's destructor has set `_hitStop` or the
connection is gone; `VictimRundown` shows when that is not so.

### VictimRundown

Extends `VictimHooks` by the state the destructor touches. `doze` is the thread that has found
its predicate false and has yet to sleep, holding `_hitMtx`; the destructor does not take that
mutex. `instance` is the singleton's pointer, of which `Victim::fini()` makes
`INITFINI_RUNNING`; from then on `Victim::get()`, which every stub calls, throws. `unl[u]` is the
place of an unload thread, `loads` the module's reference count, `node` the victim's `_rpc`.
`careless` records that one of four things has happened that the module makes no provision for:
a thread was in a hook, or bound to return through one, when the detach began; a thread ran into
a hook between then and its removal; a hook was set after the destructor had removed them; the
module is released more often than it was loaded.

### PyRpcNode

A task runs until an `await` suspends it, so an action is what happens between two suspensions.
Every send over a named pipe suspends its task. A send over TCP does when `drain()` finds more in the
stream's buffer than its limit; where it does not, nobody else runs between header and body, which is
one of the schedules of the model, so that one model serves both transports. `wire` is the task whose
header has been sent without its body; a header or body of another task after it makes it `Mixed`.
`close()` is called by the program, by the receiver and by any task whose send fails. Its loop over
`_workers` awaits a send for each: `loop` remembers the worker it is at and the dictionary it began
with. If the dictionary has another size by then Python raises; if workers have come and gone and the
size is the same, the loop goes on, skips workers, ends or raises as the dictionary is laid out, which
is left open (`TellNext`, `TellEnds`). `late` remembers the calls made after `close()` had begun.

## 3. Checks

Bounds: `Calls`, `PeerCalls`, `Threads`, `VAs` are small sets; `IdSpace` stands for 2^16,
`PipeSize` bounds the frames in the pipe, `MaxDepth` nested calls, `MaxOps` breakpoint
operations. Calls and peers are symmetric in the safety runs. Deadlock is not checked: a node
with all calls returned, or a process nobody calls anything in, stops.

| Run | Instance | Shows |
|---|---|---|
| `rpc_safety` | 2 callers, 2 peer calls, 3 ids, pipe of 1, loss and destruction | `TypeOK`, `PromiseHeldOnce`, `OwnAnswer`, `PeerNotMisled`, `WorkersTracked`, `NoLostWakeup`, `NoUnprovokedTerminate` |
| `rpc_wrap` | 3 callers (one on the reserved channel), 2 peer calls, 1 id | the same promises when every id is reused while open |
| `rpc_live` | 2 callers, 1 peer call, 3 ids, fair threads, loss allowed | `CallsReturn`, `PeerCallsAnswered`, `FailureReachesCallers`, `ImplementsRpcCalls` |
| `rpc_destructor` | 1 caller, destruction, fair threads | `DestructorReturns` is violated |
| `rpc_failsafe` | 1 caller, 1 peer call, loss, fair threads | `ExceptionStopsDispatcher` is violated |
| `bp_safety` | 2 threads, 2 functions, depth 2, launched and attached | `TypeOK`, `HitExclusive`, `StoppedWhenReported`, `NoWildThread`, `GratuitousIsInitial`, `ViewsAgree`, `NoUnknownBreakpoint`, `ImplementsHookActions` |
| `bp_live` | 2 threads and an RPC thread, bpClear allowed | `StoppedIsResumed`, `HitGetsThrough`, `BpSetReturns` |
| `bp_late` | `LateBpSet` | `GratuitousIsInitial` is violated |
| `bp_clear` | `MayClear` | `BpClearClears` is violated |
| `session` | 1 process, 3 requests (the third an attach after a detach), its module loaded twice, 2 Ctrl-C at once, 2 events | `TypeOK`, `Watched`, `ReadyIsListed`, `ServerSurvives`, `RequestsReturn`, `LeavingIsRemoved`, `CloseReturns` |
| `rundown` | 2 threads (one internal) and `InitThread`, 2 functions, 2 unload threads, 3 events | `TypeOK`, `CleanDetach`, `WaitersLeave`, `RundownEnds`, `ImplementsVictimProcess` |
| `pyrpc` | 2 calls, 2 handlers, any send may suspend | `TypeOK`, `NobodyForgotten`, `CallsReturn` |

Why the bounds are enough for the interesting cases: two callers and two workers beside
dispatcher and receiver are what it takes for one notification to reach the wrong thread and for
answers to overtake each other; a pipe of one frame blocks the dispatcher in a send with others
waiting; one id makes the second call a reuse. Two threads make two hits compete; depth 2 nests
one break-on-return in another; two functions are the entry point, which is hooked twice, and
another one; three breakpoint operations set a breakpoint on each and repeat one.

`MaxEvents` bounds what comes from outside: requests of the user, exits, Ctrl-C, detaches, loads,
lost connections. In `session` two events are an attach with anything else: a second attach to the
same process, a detach, kill or input, the end of the process, a Ctrl-C, a lost connection; what
follows from them (a prompt after attach(), Offline, the end of the monitor, shutdown) is not
bounded. A third request costs no event: it attaches the process again once a detach has been asked
for, while that detach, the unload threads it started and the Offline of the first victim are still
under way (`InBounds`; 270,000 states). With a third request of any kind the properties hold as
well (330,000 states). In `rundown` three events are a hit, a detach and one of a second detach, a load,
a lost connection or another hit. Two calls and two handlers are what two sends of different
tasks, a dictionary that changes under `close()`, and two `close()` on top of each other take.

### The four violations

* **A lost cancel** (`DestructorReturns`). `~Rpc()` cancels I/O once. A receiver that has not
  issued its read, or has a frame in hand, reads again afterwards and the destructor joins it for
  ever (`Rpc.cpp` 20-26, `OverlappedTransport.cpp` 80-87).
* **The dispatcher waits for its workers** (`ExceptionStopsDispatcher`). `_workers.clear()`
  (`Rpc.cpp` 150) waits for tasks that need the mutex it holds. The fail-safe callback of the
  victim is then not called.
* **The initial hook mistaken** (`GratuitousIsInitial` with `LateBpSet`). BpSet hooks first and
  lists second (`Server/rpc.cpp` 345-352).
* **bpClear sets** (`BpClearClears`). `Client.py` 317.

A related case has no run: a `call()` that passes the unlocked check of `_exception`
(`Rpc.cpp` 269) and publishes after the dispatcher has ended waits at line 291 for ever.
`CallsReturn` is therefore stated for as long as the connection lasts, and
`FailureReachesCallers` for calls the dispatcher has registered.

### What the passing runs say, and what they except

A property of the server, the victim or the Python node is stated with the exceptions the code
has, each named by an operator, so that it fails when another one appears.

* `ServerSurvives`: while the connection lasts, no victim leaves and `main()` is ready for Ctrl-C,
  nothing that is requested ends the server. What does end it, once one of these happens: a
  second Offline finds the victim gone and `at()` throws in its thread (`victim.cpp` 81); the
  monitor uses `victim.rpc` after Offline has reset it, or `_rpc` after `_finiRpc()` has
  (`debugger.cpp` 127, 179, 192, 240), which is the order of every shutdown with a victim attached;
  Input uses the victim after Offline erased it (`rpc.cpp` 423); a detach that fails throws out
  of `~Server()`; victims call Online and Offline on a `Server` that has been destroyed; a Ctrl-C
  comes before the handler is registered.
* `RequestsReturn`, while server and connection last, excepts `Embrace` (Offline joins the monitor
  with `_victimsMtx` held, the monitor waits for a user whose next request needs it; or the Offline
  is a late second one of the process's previous victim, joins the monitor of a victim that was
  attached since, and waits for its next hit), `Replaced` (a detach waits until the process is in no
  table, `Server/rpc.cpp` 244-245 and `Client.py` 323, and another attach has brought it back before
  the worker, or the client, looked), `NoShow`
  (the victim attach() waits for failed to come online, was already attached, left, or reported
  its initial break before attach() had created its record), `NoPrompt` (an input whose command
  was refused, that was answered "\*BUSY\*" because the monitor had `engineMtx` for that moment, or
  whose record was replaced) and `Kept` (a detach from a process whose monitor waits for the user).
  A handler that awaits `close()` of its own proxy is a case of `Embrace` or `Kept`: it never
  returns. These are the cases of one process and the requests of section 3; the property says that
  there are no others there.
* `LeavingIsRemoved` has the same exceptions from the monitor's side.
* `CloseReturns` excepts a Ctrl-C that arrives before `main()` waits, which is lost, and a
  connection that breaks before Shutdown was sent: `_onRpcException`, which would set
  `_closeEvt`, is never installed (`Client.py` 377).
* `CleanDetach` excepts `careless` (section 2). During the rundown any hooked call or return ends
  the process.
* `WaitersLeave` excepts threads that come back from a function, which spin at `jmp $`, and
  whoever misses the notification (`missed`). `RundownEnds` excepts `~Rpc()` that waits for a
  `WaitForHook` still in its worker (`hung`).
* `CallsReturn` of the Python node excepts frames that got mixed (`Intact`): header and body are two
  sends, and nothing keeps another task's header from coming between. Both it and `NobodyForgotten`
  except calls made after the program's `close()` had begun (`late`): the loop over the requests is
  over by then, and a later `close()` raises on the first future the first one completed.
  `close()` may also raise because `_workers` changes while it iterates, and recurses until Python
  stops it if the connection is lost with a worker running. The two properties say that whoever
  waited when the first `close()` began is told nevertheless.

## 4. Fairness

RPC: weak fairness of dispatcher, receiver, each worker (handlers end), each caller that has
begun a call, the joins, and the peer's reading and answering. Operating-system threads that can
run do run; the mutex is free again and again because nobody keeps it without the dispatcher's
help. Nothing forces calls to be made, connections to fail or owners to destroy.

Breakpoints: weak fairness of each thread inside a stub (the process is not suspended as a
whole) and of `ready()`, which every script calls. Strong fairness of the `WaitForHook` worker,
the monitor and each breakpoint operation, since an RPC thread that itself passes through a hook,
or a mutex in use, disables them only in passing. Handlers return (`HandlerAnswer`). Nothing
makes the application call a function or leave one.

Session: weak fairness of the victim's threads, of the threads that take a victim out, of the
monitor with the client's handlers it waits for, of each request (its worker and the client's
task), of the main thread, the console handler and `close()`. The initial break comes by itself,
since the victim's constructor or the first instruction of the program makes it; a later hit does
not. A handler returns once the calls it awaits have. Nothing makes the user call anything, not
even `ready()`. `_victimsMtx` and `engineMtx` are held across steps only by those who wait inside
(`VictimsMtxFree`, `EngineFree`); that a request is served although others use the mutex again and
again follows from the bounded number of requests.

Rundown: weak fairness of each thread in a stub, of going to sleep, the worker, the monitor and
each unload thread. Python node: weak fairness of each caller, worker and `close()` that has begun,
and of the receiver, which includes that the server answers; nothing ends a handler.

## 5. Refinements

* `RpcSystem` implements `RpcCalls` (`ImplementsRpcCalls`): a call is *pending* from its start to
  its result; it is *answered* once the peer has put its answer in the pipe, the receiver has it,
  the slot has it, or the caller got it.
* `Breakpoints` implements `HookActions` (`ImplementsHookActions`): an activation is *entry*,
  *body* or *exit* by the position of its thread in the stubs, and the *decision* is the action
  the monitor is about to apply. Each decision is applied to the stop it was made for, and a
  BreakOnReturn stops exactly once more.
* `VictimRundown` implements `VictimProcess` (`ImplementsVictimProcess`): a process is dead once a
  thread has gone wild, *up* until `Victim::fini()` takes the instance, in *rundown* until its
  thread has called Offline, then *leaving*; `unload` counts the unload threads that have not
  released the module. `LoadModule`, `StartUnload`, `Release` and the rest of what `ServerVictims`
  assumes of a victim are thereby what the module does.

## 6. Proofs

Every invariant, action property and refinement that a passing run checks is also a theorem, for
every value of the constants: any sets of calls, threads, functions, breakpoints and processes, any
number of requests and unload threads, any depth of calls. The assumptions are those on constants
that the modules state (`IdSpace > 0`, the special values differ from the others, ...) and the
hypotheses named below. Liveness is not proved: `CallsReturn` (twice), `PeerCallsAnswered`,
`FailureReachesCallers`, `StoppedIsResumed`, `HitGetsThrough`, `BpSetReturns`, `RequestsReturn`,
`LeavingIsRemoved`, `CloseReturns`, `WaitersLeave` and `RundownEnds` need fairness and ENABLED,
which are outside the prover's reach, and stay with TLC.

| Module | Theorem | States |
|---|---|---|
| `RpcProofs` | `TypeCorrect` | `Spec => []TypeOK` |
| | `PromisesHeldOnce` | `Spec => []PromiseHeldOnce` |
| | `WorkersAreTracked` | `Spec => []WorkersTracked` |
| | `NoWakeupIsLost` | `Spec => []NoLostWakeup` |
| `RpcAnswerProofs` | `AnswersReachTheirCalls` | `Spec => []OwnAnswer` |
| | `TerminateIsProvoked` | `Spec => []NoUnprovokedTerminate` |
| | `PeerIsNotMisled` | `[]PeerNotMisled`, if the peer gives out free ids only |
| `RpcContractProofs` | `NoIdIsReused` | `[]~IdReused`, if there are fewer calls than ids |
| | `ShortRunPeerIsNotMisled` | `[]PeerNotMisled`, if the peer makes fewer calls than there are ids |
| | `NodeImplementsRpcCalls` | `Spec => ImplementsRpcCalls`, if there are fewer calls than ids |
| `BreakpointsProofs` | `BreakpointsTypeCorrect` | `Spec => []TypeOK` |
| | `HitsAreExclusive` | `Spec => []HitExclusive` |
| | `ReportsAreOfStoppedThreads` | `Spec => []StoppedWhenReported` |
| | `GratuitousHooksAreInitial` | `[]GratuitousIsInitial`, without `LateBpSet` |
| | `NoThreadGoesWild` | `[]NoWildThread`, without `LateBpSet` |
| | `HitsAreKnown` | `[]NoUnknownBreakpoint`, without `MayClear` |
| | `TablesAgree` | `[]ViewsAgree`, without either |
| | `BreakpointsImplementHookActions` | `Spec => ImplementsHookActions`, without `LateBpSet` |
| `RundownProofs` | `RundownTypeCorrect` | `Spec => []TypeOK` |
| | `DetachIsClean` | `Spec => []CleanDetach` |
| | `RundownImplementsVictim` | `Spec => ImplementsVictimProcess` |
| `SessionProofs` | `SessionTypeCorrect` | `Spec => []TypeOK` |
| | `VictimsAreWatched` | `Spec => []Watched` |
| | `ReadyVictimsAreListed` | `Spec => []ReadyIsListed` |
| | `ServerIsNotBroughtDown` | `Spec => ServerSurvives` |
| `PyRpcProofs` | `PyNodeTypeCorrect` | `Spec => []TypeOK` |
| | `PyNobodyForgotten` | `Spec => []NobodyForgotten` |

### The RPC node

`TypeOK` is not inductive: from it alone the token of a request frame might not be a call of the
peer, and the dispatcher might take a request out of an empty slot. `TypeInv` adds `IncomingOK`
(every request frame on its way in belongs to a peer's call) and `DispatchOK` (what the slot and
the frame being sent hold in each state of the dispatcher). `PromiseHeldOnce` is inductive relative
to it: the only steps that touch a promise are publishing, emplacing, erasing and closing.

`WorkersTracked` needs two additions. `Fresh` says that a call of the peer has at most one request
under way and none once its worker runs, so that no worker is started twice. `WorkerInv` relates
each worker's position, its entry in `workers` and the slot: a worker that has yet to publish is
the one entered under its id, unless the dispatcher is stuck on a re-used id.

`NoLostWakeup` becomes inductive with one addition, `WakeInv`: only the dispatcher and threads that
want to publish ever wait. The proof follows the two notifications: those that fill the slot wake
everybody, and the dispatcher's `notify_one` wakes one thread that, since all but the dispatcher
wait for the same predicate, can use the slot.

`OwnAnswer` is about the end of a journey of six stations: the frame being sent, the pipe out, the
peer, the pipe in, the frame received, the slot. `FrameInv` says which kind of frame is where.
`AnswerInv` says of each call, unless an id was given out while in use, that there is at most one
frame for it on all stations (`OneFrame`), that this frame has the id under which `requests` has the
call, and that a call that returned has its own answer. `TerminateIsProvoked` follows: the dispatcher
is ended by a send that fails, for which the connection must be lost or cancelled by the destructor,
or by `_requests.at()` for an id nobody waits under, and from a peer that keeps the protocol there is
none unless this node re-used an id.

`PeerNotMisled` is the mirror of this for the peer's calls. `PeerInv` follows a request through the
worker to its answer, and through the dispatcher that tells the callers of running workers that the
connection is closed: it is open at the peer under the id it came with, and answered once. The
theorem is about a peer that gives out an id only when it is free (`PeerIdFree`), as any does that
has fewer calls open than there are ids; for `OwnAnswer` no such hypothesis is needed, as there the
property itself excepts re-use.

With fewer calls than ids neither side re-uses one: `CountInv` says that `_lastResponse` is the number
of calls that were dispatched. From `AnswerInv` and `~IdReused` every step of node, connection and
peer is a step of `RpcCalls` or none: the answer exists from when the peer puts it into the pipe, the
return is the step in which the future is read.

### Breakpoints

`StopInv` is about the hit in hand. A thread passes the gate in the stub when `_hit` is false, which
it is only while `WaitForHook` waits; then `_hitParams` are the thread's own until its resumption
(`HitInv`), and the server hears of it only once its event has been taken back. `ThreadInv` is about
the threads: where a thread is decides what its frames and its return stack are. The return stack is
matched to the frames by `Matches` (`VictimHooksProofs`): there is an order-preserving map from the
pairs on the stack to the frames whose return address is `_HookLLReturn`, and each pair is a hook of
that function and the address of the caller. Its lemmas say that a call, a return and the two pushes
of a BreakOnReturn keep the match, for stacks of any height.

`HitExclusive` and `StoppedWhenReported` follow from `StopInv`, whatever breakpoints do. The rest
depends on when they are set. `TableInv` relates the victim's hooks and the server's list, `DataInv`
what the monitor has read of a hook. If breakpoints are set in the initial break and in handlers only
(not `LateBpSet`), the monitor waits whenever one is set or cleared; then it removes no hook but the
one of the launch (`QuietInv`), every hook that a thread holds, or will come back to, exists
(`HeldInv`), and nobody goes wild. If `bpClear()` is not called (not `MayClear`), addresses gain handlers
and lose none (`ClientInv`). The conditions are those of documented use; they are needed, as
`bp_late` and `bp_clear` show what happens otherwise.

For the refinement, `Shapes` says what the mapped state is: every function under way but a thread's
last is in its body, and the last one is at its entry, in its body or at its exit as the thread is
stopped at a hook, not stopped, or stopped at a return. Every step is then a step of `HookActions`
or none, one lemma per action.

### The rundown

`RundownInv` has a part for each of the three times. While there is an instance (`LiveInv`), the
module is mapped and every hook that a thread is in or will return through exists. Once it has been
taken, if nobody was `careless` (`ClearInv`), no thread is in a stub or bound to return through one.
`OwnerInv` follows the unload thread that has taken the instance: it is the only one in the destructor,
the hooks are gone once it has removed them, and the node has ended before the instance is null.
`CountInv` says that, unless somebody was careless, the module was loaded at least as often as there
are threads that will release it, so that none of them runs in a module that has gone.
`CleanDetach` is then the end of the owner's way.

The refinement maps the owner's place to the state of the `Victim` object and counts the unload
threads that have not released. That count is a cardinality, and the lemmas about it
(`Releasing`) say what a thread that starts or releases does to it. A thread that runs into freed
code is the death of the process; `VictimProcess` allows it at any time as `Die`.

### The session

The runs check one process at a time; the theorems hold for several, whose steps interleave in the
server. The invariant is `TypeInv /\ Watched /\ ReadyIsWatched`. `TypeInv` adds to `TypeOK`
what keeps the counters from going below zero, `ProcessInv` (an unload thread and a Victim object
are there only while the module is loaded, the destructor runs in an unload thread, a node is
pending for a victim that has yet to come online), and `RequestInv` (a request that was made names
a process). `Watched` is inductive relative to it. `ReadyIsListed` is not: the client is told
through the server, so `ReadyIsWatched` says of the monitor what the client believes of the victim,
and `Watched` turns that into an entry of the table.

`ServerSurvives` is an action property: a step that ends the server is one after something it
excepts. What it excepts lasts (`CalmBefore`), so the invariant, `CalmInv`, is about the time before.
One way to lose a victim remains there: its initial break is reported before `attach()` has a record
of it, the client raises, and the monitor takes the victim out while the process goes on. Such a
victim is `Forsaken`. `PlaceOK` says that even then one thread, and only one, takes it out, after its
monitor has ended, so that nobody looks for it twice and no monitor works without its node;
`ClientCalm` says that the client never believes in it and no input was made for it, so that none
keeps a reference to an erased victim.

### The Python node

`TableInv` says that workers are never where only callers are, that a suspended `close()` is at a
worker, and that whoever waits for an answer is in the table of requests; with it the types are
inductive. `NobodyForgotten` needs `ForgetInv`, about the time after somebody has closed the node
(`Begun`): nobody does before the program or a lost connection, and then no call is pending that was
made before. A `close()` that is not refused tells all of the table. One that is refused has met a
future with an exception, so another one came first, and that one had told them all. A call that
comes in between finds the connection gone and raises, or is `late`.

## 7. Not modelled

* Platform code: connecting transports, the debugger engine, code patching (taken as atomic, as
  other threads are suspended), privileges, WOW64, FlatBuffers.
* In `Breakpoints`: lost connections, failing engine operations and RPC calls, detach and the
  attach handshake, which `DebugSession` has, and the server's BpClear handler, which no client
  reaches. The victim refuses a hook only where there is one already: no code at the address, no
  heap, or Detours failing (`hookhl.cpp` 102-127) leave the tables as that does. The entry point is
  called once.
* In `DebugSession`: commands that ask for input ("Input>", `ReturnInput`, `pendingCommand`),
  output handlers, Victims and Procs (which only read), killing by name, Ctrl-Break and
  `CTRL_CLOSE_EVENT`, a process id that is used again, and the payload of a second attach.
  `GetExitCodeProcess` is taken to succeed. More than one process at once is not checked.
* In `VictimRundown`: LoadLib, x86 stubs (the same steps), a constructor that throws. A new module
  instance after the release is a new behaviour. Its monitor lets a stopped thread go on or return;
  that it asks for the initial hook to be removed first (`debugger.cpp` 172-182) is in `Breakpoints`,
  and so is a Skip, which here is a Go and a return.
* In `PyRpcNode`: the exception callback, unknown channels, the wrap of ids, the `OVERLAPPED`
  structure that concurrent sends over a pipe share, and the time in which the `close()` of a TCP
  stream waits for its buffer: the connection is gone at once.
* In `RpcNode`: a node is destroyed when no `call()` is under way (`Destroy`). The victim keeps to
  that; `~Server()` resets its node while a monitor or an output callback may be in `call()`
  (`Server/rpc.cpp` 129, `debugger.cpp` 187, 326), which is undefined behaviour of the object's users
  rather than a step of the node. `DebugSession` has it as an access to a node that is gone, or as a
  call that raises. A cancel that comes between a header and its body, with exception frames sent
  after it (`Rpc.cpp` 222-223, 120-122), leaves the peer a frame that is not one, on a connection that
  is being closed: frames are whole here.
* Removing or replacing a channel while its handler runs, which no user of the library does, is
  excluded by a guard (`HandlerUnused`).
* Two whole C++ nodes joined by a bounded pipe: both dispatchers sending with both receivers
  blocked takes a state space beyond TLC (the hazard at `Rpc.cpp` 222).
* The GUI.
* Frames in pieces: each transport has one reader and one writer in the C++ node.

## 8. Plan

Modelled: RPC node, breakpoints, session, rundown, Python node. What could follow:

1. `RpcLink`: two nodes reduced to dispatcher and receiver over one unbuffered pipe; neither waits
   for the other's receiver.
2. Commands that ask for input; the hand-over of a breakpoint action in the GUI.

Proofs: all safety properties and refinements of the runs are proved. What could follow is
`PeerNotMisled` for two C++ nodes, each the other's peer, where `PeerIdFree` would be proved of the
other node, and `ViewsAgree` with an operator for the addresses that a `bpClear()` has left behind.
