--------------------------- MODULE RundownProofs ---------------------------
(***************************************************************************)
(* Proofs about VictimRundown, for any number of threads, functions and    *)
(* unload threads, and calls of any depth: its types, that a detach the    *)
(* code provides for leaves nothing behind, and that the module is the     *)
(* victim the server's specification takes it for.                         *)
(***************************************************************************)
EXTENDS VictimRundown, VictimHooksProofs, FiniteSetTheorems

Wfh == {"none", "called", "wait", "event", "answered", "ended"}

\* StackTypes is about the threads; this is the rest.
RestTypes ==
    /\ made \in Nat
    /\ hit \in BOOLEAN
    /\ hitParams \in [thread : AppThreads, hook : Hooks, isRet : BOOLEAN]
    /\ hitWaiting \subseteq AppThreads \cup {Worker}
    /\ wfh \in Wfh
    /\ event \in [AppThreads -> {"initial", "inverse"}]
    /\ doze \in AppThreads \cup {Worker, Nobody}
    /\ mon \in {"call", "wait", "held", "ended"}
    /\ careless \in BOOLEAN

UnloadTypes ==
    /\ hitStop \in BOOLEAN
    /\ missed \in AppThreads \cup {Worker, Nobody}
    /\ instance \in {"live", "running", "null"}
    /\ loads \in Nat
    /\ unl \in [Unloaders -> UnloadPlaces]
    /\ owner \in 0 .. MaxUnloads
    /\ node \in {"up", "lost", "over", "stuck"}

\* A thread in a stub is in the function of its hook.  InitThread only reports itself.
ThreadOK(t) ==
    IF t = InitThread
    THEN /\ tpc[t] \in {"onhook", "arming", "done", "wild"}
         /\ pHook[t] = NoHook /\ isRet[t] = FALSE /\ frames[t] = <<>>
    ELSE tpc[t] # "done" /\ (InHook(t) => Entered(t))

ThreadInv == \A t \in AppThreads : ThreadOK(t)

\* As long as there is an instance, hooks that threads work with or will come back to exist.
LiveOK(t) ==
    /\ tpc[t] # "wild"
    /\ t \in Threads => Matches(frames[t], rets[t], hooks) /\ (InHook(t) => pHook[t] \in hooks)

LiveInv ==
    instance = "live" =>
        /\ Mapped /\ ~hitStop
        /\ \A u \in Unloaders : unl[u] \in {"idle", "fini"}
        /\ \A t \in AppThreads : LiveOK(t)

\* Afterwards, if nobody was careless, no thread has to do with the module.
ClearOK(t) == tpc[t] # "wild" /\ ~Busy(t)

ClearInv ==
    instance # "live" /\ ~careless =>
        /\ \A u \in Unloaders : unl[u] # "wild"
        /\ \A t \in AppThreads : ClearOK(t)

\* The hit that is being reported, answered or held is that of a thread which is at "jmp $" or
\* on its way there.
HitInv ==
    /\ mon \in {"call", "held"} => wfh = "none"
    /\ wfh \in {"event", "answered"} \/ mon = "held" => hit
    /\ wfh \in {"wait", "event"} /\ hit =>
          tpc[hitParams.thread] \in {"arming", "spin", "done", "wild"}
    /\ (wfh = "answered" \/ mon = "held") /\ hitParams.thread # InitThread =>
          tpc[hitParams.thread] \in {"spin", "wild"} /\ event[hitParams.thread] = "initial"
    /\ \A t \in AppThreads : event[t] = "inverse" => tpc[t] \in {"spin", "done", "wild"}

\* The unload thread that has taken the instance is the one that goes through the destructor.
OwnerInv ==
    /\ instance = "live" => owner = 0
    /\ \A u \in Unloaders : u # owner => unl[u] \in {"idle", "fini", "free", "done", "wild"}
    /\ instance # "live" =>
        /\ owner \in Unloaders
        /\ unl[owner] \in {"stop", "notify", "offline", "unhook", "rpc", "hung", "null", "free",
                           "done", "wild"}
        /\ hitStop \/ unl[owner] \in {"stop", "wild"}
        /\ unl[owner] \in {"rpc", "hung", "null", "free", "done"} => hooks = {}
        /\ unl[owner] \in {"null", "free", "done"} =>
              node = "over" /\ wfh \in {"none", "answered", "ended"}

\* The module is there as long as somebody is going to release it; if nobody was careless, it
\* has been loaded once for everybody who is.
CountInv ==
    /\ ~Mapped => \A u \in Unloaders : unl[u] \notin Inside
    /\ ~careless => Unloading <= loads

RundownInv ==
    /\ StackTypes /\ RestTypes /\ UnloadTypes /\ events \in 0 .. MaxEvents
    /\ ThreadInv /\ LiveInv /\ ClearInv /\ HitInv
    /\ OwnerInv /\ CountInv

----------------------------------------------------------------------------
(* Threads.                                                                *)

LEMMA InitThreadFacts ==
    /\ InitThread \notin Threads /\ InitThread \in AppThreads /\ Threads \subseteq AppThreads
    /\ InitThread \notin Internal /\ Internal \subseteq Threads
    /\ \A t \in AppThreads : t # InitThread => t \in Threads
  BY ThreadAssumption DEF AppThreads

\* (action) A step of thread t leaves it as it should be.
MovesWell(t) ==
    /\ StackTypes' /\ OnlyMoves(t)
    /\ ThreadOK(t)'
    /\ instance = "live" => LiveOK(t)'
    /\ instance # "live" /\ ~careless' => ClearOK(t)'

\* (action) A thread changes its place, and nothing else of its state.
OnlyPlace(t, p) ==
    /\ tpc' = [tpc EXCEPT ![t] = p]
    /\ UNCHANGED <<hookVars, frames, rets, pHook, isRet>>

LEMMA PlaceMoves ==
    ASSUME StackTypes, ThreadInv, NEW t \in AppThreads, OnlyPlace(t, tpc'[t]),
           tpc'[t] \in InStub \cup {"run", "done", "wild"},
           careless => careless',
           t # InitThread => tpc'[t] # "done" /\ (tpc'[t] \in InStub => InHook(t)),
           t = InitThread => tpc'[t] \in {"arming", "done", "wild"},
           instance = "live" => LiveOK(t) /\ tpc'[t] # "wild",
           instance # "live" /\ ~careless' => ~Busy(t) /\ tpc'[t] = "run"
    PROVE  MovesWell(t)
<1>1. /\ tpc' \in [AppThreads -> InStub \cup {"run", "retstub", "done", "wild"}]
      /\ \A s \in AppThreads : s # t => tpc'[s] = tpc[s]
      /\ UNCHANGED <<hooks, frames, rets, pHook, isRet>>
  BY DEF StackTypes, OnlyPlace, hookVars
<1>2. StackTypes' /\ OnlyMoves(t)
  BY <1>1 DEF StackTypes, OnlyMoves
<1>3. ThreadOK(t)'
  BY <1>1 DEF ThreadInv, ThreadOK, InHook, Entered, InStub
<1>4. ASSUME instance = "live" PROVE LiveOK(t)'
  BY <1>1, <1>4, InitThreadFacts DEF LiveOK, InHook, InStub
<1>5. ASSUME instance # "live" /\ ~careless' PROVE ClearOK(t)'
  BY <1>1, <1>5 DEF ClearOK, Busy, Returning, InStub
<1> QED
  BY <1>2, <1>3, <1>4, <1>5 DEF MovesWell

\* Threads as they are when the module may not be careless.
LEMMA StateOf ==
    ASSUME ThreadInv, LiveInv, ClearInv, NEW t \in AppThreads
    PROVE  /\ ThreadOK(t)
           /\ instance = "live" => LiveOK(t)
           /\ instance # "live" /\ ~careless => ClearOK(t)
  BY DEF ThreadInv, LiveInv, ClearInv

LEMMA CallWell ==
    ASSUME StackTypes, ThreadInv, LiveInv, ClearInv, careless \in BOOLEAN,
           NEW t \in Threads, NEW va \in VAs, AppCall(t, va)
    PROVE  /\ MovesWell(t) /\ tpc[t] = "run" /\ (careless => careless')
           /\ UNCHANGED <<hookVars, hitVars, event, unloadVars, doze, node, mon>>
<1>0. t \in AppThreads /\ t # InitThread
  BY InitThreadFacts
<1>1. UNCHANGED <<unloadVars, doze, node, mon>>
  BY DEF AppCall, ThreadRest
<1>2. CASE Hooked(va) /\ instance # "live"
  <2>1. tpc[t] = "run" /\ careless' = TRUE /\ Thrown(t)
    BY <1>2 DEF AppCall
  <2>2. OnlyPlace(t, "wild") /\ UNCHANGED <<hookVars, hitVars, event>> /\ tpc'[t] = "wild"
    BY <1>0, <2>1 DEF Thrown, Goes, OnlyPlace, StackTypes
  <2>3. MovesWell(t)
    BY <1>0, <1>2, <2>1, <2>2, PlaceMoves DEF InStub
  <2> QED
    BY <1>1, <2>1, <2>2, <2>3
<1>3. CASE ~(Hooked(va) /\ instance # "live")
  <2>1. Call(t, va) /\ careless' = careless
    BY <1>3 DEF AppCall
  <2>2. /\ StackTypes' /\ OnlyMoves(t)
        /\ UNCHANGED <<hookVars, hitVars, event>>
        /\ tpc[t] = "run" /\ tpc'[t] \in {"run", "onhook"}
        /\ tpc'[t] = "onhook" =>
              pHook'[t] \in hooks /\ pHook'[t].va = va /\ isRet'[t] = FALSE /\ Entered(t)'
        /\ frames'[t] = Append(frames[t], [va |-> va, ret |-> CallerAddr])
        /\ \A H : Matches(frames[t], rets[t], H) => Matches(frames'[t], rets'[t], H)
    BY <2>1, CallMoves
  <2>3. ThreadOK(t)'
    BY <1>0, <2>2 DEF ThreadOK, InHook, InStub
  <2>4. ASSUME instance = "live" PROVE LiveOK(t)'
    BY <1>0, <2>2, <2>4, StateOf DEF LiveOK, InHook, InStub, hookVars
  <2>5. ASSUME instance # "live" /\ ~careless' PROVE ClearOK(t)'
    <3>1. tpc'[t] = "run"
      BY <1>3, <2>2, <2>5 DEF Hooked
    <3>2. ~Returning(t)
      BY <1>0, <2>1, <2>5, StateOf DEF ClearOK, Busy
    <3>3. frames[t] \in Seq(FrameSet)
      BY <1>0 DEF StackTypes
    <3>4. PICK fs : fs = frames'[t]
      OBVIOUS
    <3>5. PICK e : e = [va |-> va, ret |-> CallerAddr]
      OBVIOUS
    <3>6. e \in FrameSet /\ e.ret = CallerAddr
      BY <3>5, FrameFacts
    <3>7. /\ Len(fs) = Len(frames[t]) + 1
          /\ \A i \in 1 .. Len(frames[t]) : fs[i] = frames[t][i]
          /\ fs[Len(frames[t]) + 1] = e
      BY <2>2, <3>3, <3>4, <3>5, <3>6, AppendProperties
    <3>8. PICK n \in Nat : n = Len(frames[t])
      BY <3>3, LenFacts
    <3>9. \A i \in 1 .. n : frames[t][i].ret # ReturnAddr
      BY <3>2, <3>8 DEF Returning
    <3>10. \A i \in 1 .. Len(fs) : fs[i].ret # ReturnAddr
      BY <3>6, <3>7, <3>8, <3>9, AddrsDiffer
    <3> QED
      BY <3>1, <3>4, <3>10 DEF ClearOK, Busy, Returning, InStub
  <2> QED
    BY <1>1, <2>1, <2>2, <2>3, <2>4, <2>5 DEF MovesWell
<1> QED
  BY <1>2, <1>3

LEMMA ReturnWell ==
    ASSUME StackTypes, ThreadInv, LiveInv, ClearInv,
           NEW t \in Threads, AppReturn(t) \/ AppReturnHook(t)
    PROVE  /\ MovesWell(t) /\ tpc[t] = "run" /\ careless' = careless
           /\ UNCHANGED <<hookVars, hitVars, event, unloadVars, doze, node, mon>>
<1>0. t \in AppThreads /\ t # InitThread
  BY InitThreadFacts
<1>1. UNCHANGED <<unloadVars, doze, node, mon, careless>>
  BY DEF AppReturn, AppReturnHook, ThreadRest
<1>2. frames[t] \in Seq(FrameSet)
  BY <1>0 DEF StackTypes
<1>3. CASE AppReturn(t)
  <2>1. Return(t)
    BY <1>3 DEF AppReturn
  <2>2. /\ StackTypes' /\ OnlyMoves(t)
        /\ UNCHANGED <<hookVars, hitVars, event, tpc, pHook, isRet>>
        /\ tpc[t] = "run" /\ frames'[t] = Front(frames[t])
        /\ \A H : Matches(frames[t], rets[t], H) => Matches(frames'[t], rets'[t], H)
    BY <2>1, ReturnMoves
  <2>3. ThreadOK(t)'
    BY <1>0, <2>2 DEF ThreadOK, InHook, InStub
  <2>4. ASSUME instance = "live" PROVE LiveOK(t)'
    BY <1>0, <2>2, <2>4, StateOf DEF LiveOK, InHook, InStub, hookVars
  <2>5. ASSUME instance # "live" /\ ~careless' PROVE ClearOK(t)'
    <3>1. ~Returning(t)
      BY <1>0, <1>1, <2>5, StateOf DEF ClearOK, Busy
    <3>2. PICK fs : fs = frames'[t]
      OBVIOUS
    <3>3. frames[t] # <<>>
      BY <2>1 DEF Return
    <3>4. Len(fs) = Len(frames[t]) - 1 /\ \A i \in 1 .. Len(frames[t]) - 1 : fs[i] = frames[t][i]
      BY <1>2, <2>2, <3>2, <3>3, FrontFacts
    <3>5. PICK n \in Nat : n = Len(frames[t])
      BY <1>2, LenFacts
    <3>6. \A i \in 1 .. Len(fs) : fs[i].ret # ReturnAddr
      BY <3>1, <3>4, <3>5 DEF Returning
    <3> QED
      BY <2>2, <3>2, <3>6 DEF ClearOK, Busy, Returning, InStub
  <2> QED
    BY <1>1, <2>2, <2>3, <2>4, <2>5 DEF MovesWell
<1>4. CASE AppReturnHook(t) /\ instance = "live"
  <2>1. ReturnHook(t)
    BY <1>4 DEF AppReturnHook
  <2>2. hooks \subseteq RealHooks /\ Matches(frames[t], rets[t], hooks)
    BY <1>0, <1>4, StateOf DEF LiveOK, StackTypes
  <2>3. /\ StackTypes' /\ OnlyMoves(t)
        /\ UNCHANGED <<hookVars, hitVars, event>>
        /\ tpc[t] = "run" /\ tpc'[t] = "onhook" /\ isRet'[t] = TRUE
        /\ pHook'[t] \in hooks /\ Entered(t)'
        /\ Matches(frames'[t], rets'[t], hooks)
    BY <2>1, <2>2, ReturnHookMoves
  <2>4. ThreadOK(t)' /\ LiveOK(t)'
    BY <1>0, <2>3 DEF ThreadOK, LiveOK, InHook, hookVars
  <2> QED
    BY <1>1, <1>4, <2>3, <2>4 DEF MovesWell
<1>5. CASE AppReturnHook(t) /\ instance # "live"
  <2>1. tpc[t] = "run" /\ frames[t] # <<>> /\ Last(frames[t]).ret = ReturnAddr /\ Thrown(t)
    BY <1>5 DEF AppReturnHook
  <2>2. OnlyPlace(t, "wild") /\ UNCHANGED <<hookVars, hitVars, event>> /\ tpc'[t] = "wild"
    BY <1>0, <2>1 DEF Thrown, Goes, OnlyPlace, StackTypes
  <2>3. Busy(t)
    <3>1. PICK n \in Nat : n = Len(frames[t]) /\ n # 0 /\ Last(frames[t]) = frames[t][n]
      BY <1>2, <2>1, LenFacts
    <3>2. n \in 1 .. Len(frames[t])
      BY <3>1
    <3> QED
      BY <2>1, <3>1, <3>2 DEF Busy, Returning
  <2>4. careless \/ instance = "live"
    BY <1>0, <2>3, StateOf DEF ClearOK
  <2>5. MovesWell(t)
    BY <1>0, <1>1, <1>5, <2>2, <2>4, PlaceMoves DEF InStub
  <2> QED
    BY <1>1, <2>1, <2>2, <2>5
<1> QED
  BY <1>3, <1>4, <1>5

LEMMA StubWell ==
    ASSUME StackTypes, ThreadInv, LiveInv, ClearInv, instance \in {"live", "running", "null"},
           NEW t \in AppThreads,
           \/ AppReturnStub(t) \/ AppIgnored(t) \/ AppStopped(t) \/ AppArm(t) \/ AppCodeGone(t)
           \/ AppHit(t)
    PROVE  /\ MovesWell(t) /\ careless' = careless
           /\ UNCHANGED <<hookVars, unloadVars, doze, node, mon, wfh>>
<1> USE InitThreadFacts DEF ThreadRest
<1>1. UNCHANGED <<unloadVars, doze, node, mon, careless>>
  BY DEF AppReturnStub, AppIgnored, AppStopped, AppArm, AppCodeGone, AppHit
<1>2. UNCHANGED <<hookVars, wfh>>
  BY DEF AppReturnStub, AppIgnored, AppStopped, AppArm, AppCodeGone, AppHit, ReturnStub, Thrown,
     OnHookIgnore, HookLLHit, OnHookPass, hookVars, hitVars
<1>3. /\ ThreadOK(t)
      /\ instance = "live" => LiveOK(t)
      /\ instance # "live" /\ ~careless => ClearOK(t)
  BY StateOf
<1>4. tpc[t] \in InStub \cup {"retstub"} /\ t # InitThread => InHook(t) /\ Entered(t)
  BY <1>3 DEF ThreadOK, InHook
<1>5. tpc[t] \in InStub \cup {"retstub"} => Busy(t)
  BY DEF Busy
<1>6. CASE AppReturnStub(t) /\ instance = "live"
  <2>1. ReturnStub(t) /\ t # InitThread
    BY <1>3, <1>6 DEF AppReturnStub, ReturnStub, ThreadOK
  <2>2. pHook[t] \in hooks /\ Entered(t) /\ t \in Threads
    BY <1>3, <1>4, <1>6, <2>1 DEF ReturnStub, LiveOK, InHook
  <2>3. /\ StackTypes' /\ OnlyMoves(t)
        /\ tpc'[t] = "run"
        /\ Matches(frames'[t], rets'[t], hooks)
    BY <1>3, <1>6, <2>1, <2>2, ReturnStubMoves DEF LiveOK
  <2>4. ThreadOK(t)' /\ LiveOK(t)'
    BY <1>2, <2>1, <2>3 DEF ThreadOK, LiveOK, InHook, InStub, hookVars
  <2> QED
    BY <1>1, <1>2, <1>6, <2>3, <2>4 DEF MovesWell
<1>7. CASE AppReturnStub(t) /\ instance # "live"
  <2>1. tpc[t] = "retstub" /\ Thrown(t)
    BY <1>7 DEF AppReturnStub
  <2>2. OnlyPlace(t, "wild") /\ tpc'[t] = "wild" /\ careless
    BY <1>3, <1>5, <1>7, <2>1 DEF Thrown, Goes, OnlyPlace, StackTypes, ClearOK
  <2>3. MovesWell(t)
    BY <1>1, <1>7, <2>2, PlaceMoves DEF InStub
  <2> QED
    BY <1>1, <1>2, <2>3
<1>8. CASE AppIgnored(t)
  <2>1. /\ tpc[t] = "onhook" /\ t \in Internal /\ tpc'[t] \in {"run", "wild"}
        /\ tpc'[t] = "wild" => pHook[t] \notin hooks
        /\ OnlyPlace(t, tpc'[t])
    BY <1>8 DEF AppIgnored, OnHookIgnore, IgnoredThread, OnlyPlace, StackTypes
  <2>2. instance = "live" => pHook[t] \in hooks
    BY <1>3, <2>1 DEF LiveOK, InHook, InStub
  <2>3. instance # "live" => careless
    BY <1>3, <1>5, <2>1 DEF ClearOK, InStub
  <2>4. MovesWell(t)
    BY <1>1, <1>3, <2>1, <2>2, <2>3, PlaceMoves DEF InStub
  <2> QED
    BY <1>1, <1>2, <2>4
<1>9. CASE AppStopped(t)
  <2>1. instance # "live" /\ tpc[t] = "onhook"
    BY <1>9 DEF AppStopped, AtHit, LiveInv
  <2>2. careless
    BY <1>3, <1>5, <2>1 DEF ClearOK, InStub
  <2>3. /\ tpc'[t] \in {"arming", "run", "wild", "done"} /\ OnlyPlace(t, tpc'[t])
        /\ t = InitThread => tpc'[t] = "done"
        /\ t # InitThread => tpc'[t] # "done"
    <3>1. PICK p : /\ p = CASE t = InitThread -> "done"
                             [] isRet[t] -> "arming"
                             [] OTHER -> IF pHook[t] \in hooks THEN "run" ELSE "wild"
                   /\ Goes(t, p)
      BY <1>9 DEF AppStopped
    <3>2. /\ p \in {"arming", "run", "wild", "done"}
          /\ t = InitThread => p = "done"
          /\ t # InitThread => p # "done"
      <4>1. CASE t = InitThread
        BY <1>3, <3>1, <4>1 DEF ThreadOK
      <4>2. CASE t # InitThread /\ isRet[t]
        BY <3>1, <4>2
      <4>3. CASE t # InitThread /\ ~isRet[t]
        BY <3>1, <4>3
      <4> QED
        BY <4>1, <4>2, <4>3
    <3>3. tpc' = [tpc EXCEPT ![t] = p] /\ tpc'[t] = p
      BY <3>1 DEF Goes, StackTypes
    <3>4. UNCHANGED <<hookVars, frames, rets, pHook, isRet>>
      BY <1>9 DEF AppStopped
    <3> QED
      BY <3>2, <3>3, <3>4 DEF OnlyPlace
  <2>4. MovesWell(t)
    BY <1>1, <1>4, <2>1, <2>2, <2>3, PlaceMoves DEF InStub
  <2> QED
    BY <1>1, <1>2, <2>4
<1>10. CASE AppArm(t)
  <2>1. /\ tpc[t] = "arming" /\ tpc'[t] = IF t = InitThread THEN "done" ELSE "spin"
        /\ OnlyPlace(t, tpc'[t])
    BY <1>10 DEF AppArm, HookLLHit, OnlyPlace, StackTypes, hookVars
  <2>2. instance # "live" => careless
    BY <1>3, <1>5, <2>1 DEF ClearOK, InStub
  <2>3. MovesWell(t)
    BY <1>1, <1>3, <1>4, <2>1, <2>2, PlaceMoves DEF InStub
  <2> QED
    BY <1>1, <1>2, <2>3
<1>11. CASE AppCodeGone(t)
  <2>1. /\ tpc[t] \in InStub \cup {"retstub"} /\ instance # "live" /\ Thrown(t)
    BY <1>11 DEF AppCodeGone, LiveInv, InStub
  <2>2. OnlyPlace(t, "wild") /\ tpc'[t] = "wild" /\ careless
    BY <1>3, <1>5, <2>1 DEF Thrown, Goes, OnlyPlace, StackTypes, ClearOK
  <2>3. MovesWell(t)
    BY <1>1, <2>1, <2>2, PlaceMoves DEF InStub
  <2> QED
    BY <1>1, <1>2, <2>3
<1>12. CASE AppHit(t)
  <2>1. tpc[t] = "onhook" /\ tpc'[t] = "arming" /\ OnlyPlace(t, tpc'[t])
    BY <1>12 DEF AppHit, OnHookPass, OnlyPlace, StackTypes, hookVars
  <2>2. instance # "live" => careless
    BY <1>3, <1>5, <2>1 DEF ClearOK, InStub
  <2>3. MovesWell(t)
    BY <1>1, <1>3, <1>4, <2>1, <2>2, PlaceMoves DEF InStub
  <2> QED
    BY <1>1, <1>2, <2>3
<1> QED
  BY <1>6, <1>7, <1>8, <1>9, <1>10, <1>11, <1>12

\* What a step of a thread does to it, and leaves as it was, is enough for all threads.
LEMMA MovesKeep ==
    ASSUME ThreadInv, LiveInv, ClearInv, careless \in BOOLEAN, NEW t \in AppThreads, MovesWell(t),
           careless => careless', UNCHANGED <<hookVars, unloadVars>>
    PROVE  StackTypes' /\ ThreadInv' /\ LiveInv' /\ ClearInv'
<1>1. /\ StackTypes' /\ UNCHANGED <<hooks, hitStop, instance, loads, unl>>
      /\ \A s \in AppThreads : s # t =>
            /\ tpc'[s] = tpc[s] /\ pHook'[s] = pHook[s] /\ isRet'[s] = isRet[s]
            /\ frames'[s] = frames[s] /\ rets'[s] = rets[s]
  BY DEF MovesWell, OnlyMoves, hookVars, unloadVars
<1>2. ThreadInv'
  BY <1>1 DEF MovesWell, ThreadInv, ThreadOK, InHook, Entered
<1>3. LiveInv'
  <2>1. SUFFICES ASSUME instance = "live" PROVE \A s \in AppThreads : LiveOK(s)'
    BY <1>1 DEF LiveInv, Mapped
  <2>2. ASSUME NEW s \in AppThreads, s # t PROVE LiveOK(s)'
    <3>1. LiveOK(s)
      BY <2>1 DEF LiveInv
    <3> QED
      BY <1>1, <2>2, <3>1 DEF LiveOK, InHook
  <2> QED
    BY <2>1, <2>2 DEF MovesWell
<1>4. ClearInv'
  <2>1. SUFFICES ASSUME instance # "live", ~careless' PROVE \A s \in AppThreads : ClearOK(s)'
    BY <1>1 DEF ClearInv
  <2>2. ASSUME NEW s \in AppThreads, s # t PROVE ClearOK(s)'
    <3>1. ClearOK(s)
      BY <2>1 DEF ClearInv
    <3> QED
      BY <1>1, <2>2, <3>1 DEF ClearOK, Busy, Returning
  <2> QED
    BY <2>1, <2>2 DEF MovesWell
<1> QED
  BY <1>1, <1>2, <1>3, <1>4

\* No thread moves.
LEMMA RestKeep ==
    ASSUME StackTypes, ThreadInv, LiveInv, ClearInv, careless => careless',
           UNCHANGED <<hookVars, unloadVars, tpc, frames, rets, pHook, isRet>>
    PROVE  StackTypes' /\ ThreadInv' /\ LiveInv' /\ ClearInv'
<1>1. UNCHANGED <<hooks, hitStop, instance, loads, unl>>
  BY DEF hookVars, unloadVars
<1> QED
  BY <1>1 DEF StackTypes, ThreadInv, ThreadOK, LiveInv, LiveOK, ClearInv, ClearOK, InHook, Entered,
     Busy, Returning, Mapped

----------------------------------------------------------------------------
(* What steps have in common.                                              *)

LEMMA NextFacts ==
    ASSUME Next, events \in 0 .. MaxEvents
    PROVE  ~Crashed /\ events' \in 0 .. MaxEvents
<1>1. CASE Running /\ UNCHANGED events
  <2>1. ~Crashed
    BY <1>1 DEF Running, StubStep, AppReturnStub, AppIgnored, AppHit, AppDoze, AtHit, AppStopped,
       AppArm, AppCodeGone, AppReturn, AppReturnHook, Sleep, WorkerStep, WorkerListens, WorkerAgain,
       WorkerHit, WorkerStopped, Awake, WorkerEvent, MonitorStep, MonitorCalls, MonitorTakes,
       MonitorResumes, LossNoticed, StartThread, UnloadStep, UnloadFini, UnloadStop, UnloadNotify,
       UnloadOffline, UnloadUnhook, UnloadRpc, UnloadNull, UnloadFree, UnlAt
  <2> QED
    BY <1>1, <2>1
<1>2. CASE FromOutside
  <2>1. Event
    BY <1>2 DEF FromOutside, AppCall, ServeHook, ServeHookLate, Detach, ConnectionLost, LoadAgain
  <2> QED
    BY <2>1, BoundsAssumption DEF Event
<1> QED
  BY <1>1, <1>2 DEF Next

LEMMA NotWild ==
    ASSUME ~Crashed
    PROVE  /\ \A t \in AppThreads : tpc[t] # "wild"
           /\ \A u \in Unloaders : unl[u] # "wild"
  BY DEF Crashed

\* Who is on the way to "jmp $" or there stays.
LEMMA HitKeeps ==
    ASSUME HitInv, ~Crashed, hitParams \in [thread : AppThreads, hook : Hooks, isRet : BOOLEAN],
           UNCHANGED <<hit, hitParams, wfh, mon, event>>,
           \A t \in AppThreads :
              tpc[t] \in {"arming", "spin", "done"} => tpc'[t] \in {tpc[t], "wild"}
    PROVE  HitInv'
<1>1. hitParams.thread \in AppThreads
  OBVIOUS
<1> QED
  BY <1>1, NotWild DEF HitInv

LEMMA OwnerKeeps ==
    ASSUME OwnerInv, UNCHANGED <<hooks, hitStop, instance, unl, owner, node>>,
           node = "over" /\ wfh \in {"none", "answered", "ended"} =>
              wfh' \in {"none", "answered", "ended"}
    PROVE  OwnerInv'
  BY DEF OwnerInv

LEMMA CountKeeps ==
    ASSUME CountInv, UNCHANGED <<unl, loads>>, careless => careless'
    PROVE  CountInv'
  BY DEF CountInv, Mapped, Unloading

\* What is left of the invariant when the hooks, the unload threads and WaitForHook are not
\* touched.
LEMMA FrameKeeps ==
    ASSUME UnloadTypes, OwnerInv, CountInv, careless => careless',
           UNCHANGED <<hookVars, unloadVars, node, wfh>>
    PROVE  UnloadTypes' /\ OwnerInv' /\ CountInv'
<1>1. UNCHANGED <<hooks, hitStop, missed, instance, loads, unl, owner>>
  BY DEF hookVars, unloadVars
<1> QED
  BY <1>1, OwnerKeeps, CountKeeps DEF UnloadTypes

----------------------------------------------------------------------------
(* Threads, and the worker and the monitor.                                *)

LEMMA AppKeeps ==
    ASSUME RundownInv, ~Crashed, events' \in 0 .. MaxEvents,
           \/ \E t \in Threads : \E va \in VAs : AppCall(t, va)
           \/ \E t \in Threads : AppReturn(t) \/ AppReturnHook(t)
    PROVE  RundownInv'
<1> USE DEF RundownInv
<1>1. PICK t \in Threads :
        \/ \E va \in VAs : AppCall(t, va)
        \/ AppReturn(t) \/ AppReturnHook(t)
  OBVIOUS
<1>2. t \in AppThreads
  BY InitThreadFacts
<1>3. /\ MovesWell(t) /\ tpc[t] = "run" /\ (careless => careless')
      /\ UNCHANGED <<hookVars, hitVars, event, unloadVars, doze, node, mon>>
  BY <1>1, CallWell, ReturnWell DEF RestTypes
<1>4. careless' \in BOOLEAN
  BY <1>1 DEF AppCall, AppReturn, AppReturnHook, RestTypes
<1>5. UNCHANGED <<made, hit, hitParams, hitWaiting, wfh>>
  BY <1>3 DEF hookVars, hitVars
<1>6. RestTypes'
  BY <1>3, <1>4, <1>5 DEF RestTypes
<1>7. StackTypes' /\ ThreadInv' /\ LiveInv' /\ ClearInv'
  BY <1>2, <1>3, MovesKeep DEF RestTypes
<1>8. \A s \in AppThreads : tpc[s] \in {"arming", "spin", "done"} => tpc'[s] = tpc[s]
  BY <1>3 DEF MovesWell, OnlyMoves
<1>9. HitInv'
  BY <1>3, <1>5, <1>8, HitKeeps DEF RestTypes
<1>10. UnloadTypes' /\ OwnerInv' /\ CountInv'
  BY <1>3, <1>5, FrameKeeps
<1> QED
  BY <1>6, <1>7, <1>9, <1>10

LEMMA StubKeeps ==
    ASSUME RundownInv, ~Crashed, events' \in 0 .. MaxEvents, NEW t \in AppThreads, StubStep(t)
    PROVE  RundownInv'
<1> USE DEF RundownInv
<1>1. CASE AppDoze(t)
  <2>1. /\ UNCHANGED <<victimVars, unloadVars, node, mon, careless>> /\ doze' = t
    BY <1>1 DEF AppDoze
  <2>2. UNCHANGED <<hooks, made, hit, hitParams, hitWaiting, wfh, tpc, frames, rets, pHook, isRet, event>>
    BY <2>1 DEF victimVars, hookVars, hitVars, threadVars
  <2>3. RestTypes'
    BY <2>1, <2>2 DEF RestTypes
  <2>4. StackTypes' /\ ThreadInv' /\ LiveInv' /\ ClearInv'
    BY <2>1, <2>2, RestKeep DEF hookVars
  <2>5. HitInv'
    BY <2>1, <2>2, HitKeeps DEF RestTypes
  <2>6. UnloadTypes' /\ OwnerInv' /\ CountInv'
    BY <2>1, <2>2, FrameKeeps DEF hookVars
  <2> QED
    BY <2>3, <2>4, <2>5, <2>6
<1>2. CASE ~AppDoze(t)
  <2>1. \/ AppReturnStub(t) \/ AppIgnored(t) \/ AppStopped(t) \/ AppArm(t) \/ AppCodeGone(t)
        \/ AppHit(t)
    BY <1>2 DEF StubStep
  <2>2. /\ MovesWell(t) /\ careless' = careless
        /\ UNCHANGED <<hookVars, unloadVars, doze, node, mon, wfh>>
    BY <2>1, StubWell DEF UnloadTypes
  <2>3. StackTypes' /\ ThreadInv' /\ LiveInv' /\ ClearInv'
    BY <2>2, MovesKeep DEF RestTypes
  <2>4. UnloadTypes' /\ OwnerInv' /\ CountInv'
    BY <2>2, FrameKeeps
  <2>5. \A s \in AppThreads : s # t => tpc'[s] = tpc[s]
    BY <2>2 DEF MovesWell, OnlyMoves
  <2>6. UNCHANGED <<made, doze, mon, wfh, careless>>
    BY <2>2 DEF hookVars
  <2>7. RestTypes' /\ HitInv'
    <3>1. CASE AppHit(t)
      <4>1. /\ tpc[t] = "onhook" /\ hit = FALSE
            /\ hitParams' = [thread |-> t, hook |-> pHook[t], isRet |-> isRet[t]]
            /\ hit' = TRUE /\ hitWaiting' = {} /\ event' = event
            /\ tpc' = [tpc EXCEPT ![t] = "arming"]
        BY <3>1 DEF AppHit, AtHit, OnHookPass, HitOpen, RestTypes
      <4>2. hitParams' \in [thread : AppThreads, hook : Hooks, isRet : BOOLEAN]
        BY <4>1 DEF StackTypes
      <4>3. RestTypes'
        BY <2>6, <4>1, <4>2 DEF RestTypes
      <4>4. wfh \notin {"event", "answered"} /\ mon # "held"
        BY <4>1 DEF HitInv
      <4>5. hitParams'.thread = t /\ tpc'[t] = "arming"
        BY <4>1 DEF StackTypes
      <4>6. event[t] # "inverse"
        BY <4>1 DEF HitInv
      <4>7. HitInv'
        BY <2>5, <2>6, <4>1, <4>4, <4>5, <4>6 DEF HitInv
      <4> QED
        BY <4>3, <4>7
    <3>2. CASE AppArm(t)
      <4>1. /\ tpc[t] = "arming" /\ event' = [event EXCEPT ![t] = "inverse"]
            /\ tpc' = [tpc EXCEPT ![t] = IF t = InitThread THEN "done" ELSE "spin"]
            /\ UNCHANGED <<hit, hitParams, hitWaiting>>
        BY <3>2 DEF AppArm, HookLLHit, hitVars
      <4>2. RestTypes'
        BY <2>6, <4>1 DEF RestTypes
      <4>3. tpc'[t] \in {"spin", "done"}
        BY <4>1 DEF StackTypes
      <4>4. \A s \in AppThreads : s # t => event'[s] = event[s]
        BY <4>1 DEF RestTypes
      <4>5. hitParams.thread \in AppThreads
        BY DEF RestTypes
      <4>6. (wfh = "answered" \/ mon = "held") /\ hitParams.thread # InitThread => hitParams.thread # t
        BY <4>1 DEF HitInv
      <4>7. HitInv'
        BY <2>5, <2>6, <4>1, <4>3, <4>4, <4>5, <4>6 DEF HitInv
      <4> QED
        BY <4>2, <4>7
    <3>3. CASE ~AppHit(t) /\ ~AppArm(t)
      <4>1. UNCHANGED <<hit, hitParams, hitWaiting, event>>
        BY <2>1, <3>3 DEF AppReturnStub, AppIgnored, AppStopped, AppCodeGone, ReturnStub, Thrown,
           OnHookIgnore, hitVars
      <4>2. RestTypes'
        BY <2>6, <4>1 DEF RestTypes
      <4>3. tpc[t] \in {"arming", "spin", "done"} => tpc'[t] = "wild"
        BY <2>1, <3>3 DEF AppReturnStub, AppIgnored, AppStopped, AppCodeGone, ReturnStub, Thrown,
           OnHookIgnore, AtHit, Goes, StackTypes
      <4>4. HitInv'
        BY <2>5, <2>6, <4>1, <4>3, HitKeeps DEF RestTypes
      <4> QED
        BY <4>2, <4>4
    <3> QED
      BY <3>1, <3>2, <3>3
  <2> QED
    BY <2>3, <2>4, <2>7
<1> QED
  BY <1>1, <1>2

\* A step of the worker, or somebody falls asleep: no thread moves.
LEMMA WorkerKeeps ==
    ASSUME RundownInv, ~Crashed, events' \in 0 .. MaxEvents, Sleep \/ WorkerStep
    PROVE  RundownInv'
<1> USE DEF RundownInv
<1>1. UNCHANGED <<hookVars, unloadVars, node, mon, careless, tpc, frames, rets, pHook, isRet>>
  BY DEF Sleep, WorkerStep, WorkerListens, WorkerAgain, WorkerHit, WaitForHookHit, WorkerStopped,
     WorkerEvent, WaitForHookEvent, WorkerRest, threadVars, victimVars
<1>2. UNCHANGED <<made, hooks, hitStop, missed, instance, loads, unl, owner>>
  BY <1>1 DEF hookVars, unloadVars
<1>3. StackTypes' /\ ThreadInv' /\ LiveInv' /\ ClearInv'
  BY <1>1, RestKeep
<1>4. UnloadTypes' /\ CountInv'
  BY <1>1, <1>2, CountKeeps DEF UnloadTypes
<1>5. hitParams' = hitParams /\ hitParams.thread \in AppThreads
  BY DEF RestTypes, Sleep, WorkerStep, WorkerListens, WorkerAgain, WorkerHit, WaitForHookHit,
     WorkerStopped, WorkerEvent, WaitForHookEvent, victimVars, hitVars
<1>6. CASE Sleep
  <2>1. /\ UNCHANGED <<hit, wfh, event>> /\ doze # Nobody /\ doze' = Nobody
        /\ hitWaiting' = hitWaiting \cup {doze}
    BY <1>6 DEF Sleep, threadVars
  <2>2. RestTypes'
    BY <1>1, <1>2, <1>5, <2>1 DEF RestTypes
  <2>3. HitInv' /\ OwnerInv'
    BY <1>1, <1>2, <1>5, <2>1, HitKeeps, OwnerKeeps DEF RestTypes
  <2> QED
    BY <1>3, <1>4, <2>2, <2>3
<1>7. CASE WorkerListens
  <2>1. /\ wfh = "called" /\ hit' = FALSE /\ event' = event
        /\ wfh' \in {"wait", "ended"} /\ doze' \in {doze, Worker}
    BY <1>7 DEF WorkerListens, threadVars
  <2>2. hitWaiting' \subseteq hitWaiting
    BY <1>7 DEF WorkerListens, HitNotifyOne
  <2>3. RestTypes'
    BY <1>1, <1>2, <1>5, <2>1, <2>2 DEF RestTypes, Wfh
  <2>4. mon \notin {"call", "held"}
    BY <2>1 DEF HitInv
  <2>5. HitInv'
    BY <1>1, <1>5, <2>1, <2>4 DEF HitInv
  <2>6. OwnerInv'
    BY <1>1, <1>2, <2>1, OwnerKeeps
  <2> QED
    BY <1>3, <1>4, <2>3, <2>5, <2>6
<1>8. CASE WorkerAgain
  <2>1. UNCHANGED <<hit, hitWaiting, wfh, event>> /\ doze' = Worker
    BY <1>8 DEF WorkerAgain, victimVars, hitVars, threadVars
  <2>2. RestTypes'
    BY <1>1, <1>2, <1>5, <2>1 DEF RestTypes
  <2>3. HitInv' /\ OwnerInv'
    BY <1>1, <1>2, <1>5, <2>1, HitKeeps, OwnerKeeps DEF RestTypes
  <2> QED
    BY <1>3, <1>4, <2>2, <2>3
<1>9. CASE WorkerHit
  <2>1. UNCHANGED <<hit, hitWaiting, event, doze>> /\ wfh = "wait" /\ hit = TRUE /\ wfh' = "event"
    BY <1>9 DEF WorkerHit, WaitForHookHit, threadVars, RestTypes
  <2>2. RestTypes'
    BY <1>1, <1>2, <1>5, <2>1 DEF RestTypes, Wfh
  <2>3. HitInv'
    BY <1>1, <1>5, <2>1 DEF HitInv
  <2>4. OwnerInv'
    BY <1>1, <1>2, <2>1, OwnerKeeps
  <2> QED
    BY <1>3, <1>4, <2>2, <2>3, <2>4
<1>10. CASE WorkerStopped
  <2>1. UNCHANGED <<hit, hitWaiting, event, doze>> /\ wfh = "wait" /\ wfh' = "ended"
    BY <1>10 DEF WorkerStopped, Awake, threadVars
  <2>2. RestTypes'
    BY <1>1, <1>2, <1>5, <2>1 DEF RestTypes, Wfh
  <2>3. mon \notin {"call", "held"}
    BY <2>1 DEF HitInv
  <2>4. HitInv'
    BY <1>1, <1>5, <2>1, <2>3 DEF HitInv
  <2>5. OwnerInv'
    BY <1>1, <1>2, <2>1, OwnerKeeps
  <2> QED
    BY <1>3, <1>4, <2>2, <2>4, <2>5
<1>11. CASE WorkerEvent
  <2>1. /\ UNCHANGED <<hit, hitWaiting, doze>> /\ wfh = "event" /\ wfh' = "answered"
        /\ event[hitParams.thread] = "inverse"
        /\ event' = [event EXCEPT ![hitParams.thread] = "initial"]
    BY <1>11 DEF WorkerEvent, WaitForHookEvent, EventSeen, EventTaken
  <2>2. RestTypes'
    BY <1>1, <1>2, <1>5, <2>1 DEF RestTypes, Wfh
  <2>3. /\ event'[hitParams.thread] = "initial"
        /\ \A t \in AppThreads : event'[t] = "inverse" => event[t] = "inverse"
    BY <1>5, <2>1 DEF RestTypes
  <2>4. tpc[hitParams.thread] \in {"spin", "done", "wild"} /\ hit /\ mon \notin {"call", "held"}
    BY <1>5, <2>1 DEF HitInv
  <2>5. hitParams.thread # InitThread => tpc[hitParams.thread] # "done"
    BY <1>5 DEF ThreadInv, ThreadOK
  <2>6. HitInv'
    BY <1>1, <1>5, <2>1, <2>3, <2>4, <2>5 DEF HitInv
  <2>7. OwnerInv'
    BY <1>1, <1>2, <2>1, OwnerKeeps
  <2> QED
    BY <1>3, <1>4, <2>2, <2>6, <2>7
<1> QED
  BY <1>6, <1>7, <1>8, <1>9, <1>10, <1>11 DEF WorkerStep

LEMMA MonitorKeeps ==
    ASSUME RundownInv, ~Crashed, events' \in 0 .. MaxEvents, MonitorStep
    PROVE  RundownInv'
<1> USE DEF RundownInv
<1>1. /\ UNCHANGED <<hookVars, hit, hitParams, hitWaiting, unloadVars, doze, node, careless>>
      /\ UNCHANGED <<frames, rets, pHook, isRet, event>>
  BY DEF MonitorStep, MonitorCalls, MonitorTakes, MonitorResumes, hitVars, threadVars
<1>2. UNCHANGED <<made, hooks, hitStop, missed, instance, loads, unl, owner>>
  BY <1>1 DEF hookVars, unloadVars
<1>3. UnloadTypes' /\ CountInv'
  BY <1>1, <1>2, CountKeeps DEF UnloadTypes
<1>4. hitParams.thread \in AppThreads
  BY DEF RestTypes
<1>5. CASE MonitorCalls \/ MonitorTakes
  <2>1. UNCHANGED tpc
    BY <1>5 DEF MonitorCalls, MonitorTakes, threadVars
  <2>2. StackTypes' /\ ThreadInv' /\ LiveInv' /\ ClearInv'
    BY <1>1, <2>1, RestKeep
  <2>3. \/ mon = "call" /\ node = "up" /\ mon' = "wait" /\ wfh' = "called"
        \/ mon' = "ended" /\ wfh' = wfh
        \/ mon = "wait" /\ wfh = "answered" /\ mon' = "held" /\ wfh' = "none"
        \/ wfh = "ended" /\ mon' = "ended" /\ wfh' = "none"
    BY <1>5 DEF MonitorCalls, MonitorTakes
  <2>4. RestTypes'
    BY <1>1, <1>2, <2>3 DEF RestTypes, Wfh
  <2>5. HitInv'
    BY <1>1, <1>4, <2>1, <2>3 DEF HitInv
  <2>6. OwnerInv'
    BY <1>1, <1>2, <2>3, OwnerKeeps
  <2> QED
    BY <1>3, <2>2, <2>4, <2>5, <2>6
<1>6. CASE MonitorResumes
  <2>1. mon = "held" /\ mon' = "call" /\ UNCHANGED wfh
    BY <1>6 DEF MonitorResumes, hitVars
  <2>2. RestTypes'
    BY <1>1, <1>2, <2>1 DEF RestTypes
  <2>3. OwnerInv'
    BY <1>1, <1>2, <2>1, OwnerKeeps
  <2>4. wfh = "none"
    BY <2>1 DEF HitInv
  <2>5. CASE hitParams.thread = InitThread
    <3>1. UNCHANGED tpc
      BY <1>6, <2>5 DEF MonitorResumes
    <3>2. StackTypes' /\ ThreadInv' /\ LiveInv' /\ ClearInv'
      BY <1>1, <3>1, RestKeep
    <3>3. HitInv'
      BY <1>1, <2>1, <2>4, <3>1 DEF HitInv
    <3> QED
      BY <1>3, <2>2, <2>3, <3>2, <3>3
  <2>6. CASE hitParams.thread # InitThread
    <3>1. PICK t \in AppThreads : t = hitParams.thread /\ t # InitThread
      BY <1>4, <2>6
    <3>2. tpc[t] = "spin" /\ event[t] = "initial"
      BY <2>1, <3>1, NotWild DEF HitInv
    <3>3. InHook(t) /\ Entered(t) /\ Busy(t)
      BY <3>1, <3>2 DEF ThreadInv, ThreadOK, InHook, Busy, InStub
    <3>4. instance = "live" => LiveOK(t)
      BY StateOf
    <3>5. instance = "live" => pHook[t] \in hooks
      BY <3>1, <3>3, <3>4, InitThreadFacts DEF LiveOK
    <3>6. instance # "live" => careless
      BY <3>3, StateOf DEF ClearOK
    <3>7. /\ tpc'[t] \in {"run", "wild", "retstub"}
          /\ tpc' = [tpc EXCEPT ![t] = tpc'[t]]
          /\ tpc'[t] = "wild" => pHook[t] \notin hooks
      BY <1>6, <3>1 DEF MonitorResumes, Goes, StackTypes
    <3>8. StackTypes' /\ OnlyMoves(t)
      BY <1>1, <1>2, <3>7 DEF StackTypes, OnlyMoves
    <3>9. ThreadOK(t)'
      BY <1>1, <3>1, <3>3, <3>7 DEF ThreadOK, InHook, Entered
    <3>10. instance = "live" => LiveOK(t)'
      BY <1>1, <1>2, <3>4, <3>5, <3>7 DEF LiveOK, InHook
    <3>11. MovesWell(t)
      BY <1>1, <3>6, <3>8, <3>9, <3>10 DEF MovesWell
    <3>12. StackTypes' /\ ThreadInv' /\ LiveInv' /\ ClearInv'
      BY <1>1, <3>11, MovesKeep DEF RestTypes
    <3>13. HitInv'
      BY <1>1, <2>1, <2>4, <3>2, <3>8 DEF HitInv, OnlyMoves
    <3> QED
      BY <1>3, <2>2, <2>3, <3>12, <3>13
  <2> QED
    BY <2>5, <2>6
<1> QED
  BY <1>5, <1>6 DEF MonitorStep

----------------------------------------------------------------------------
(* Counting unload threads.                                                *)

\* Those that are going to release the module.
Releasing == {u \in Unloaders : unl[u] \in Inside}

LEMMA CountFacts ==
    /\ IsFiniteSet(Releasing) /\ Unloading = Cardinality(Releasing) /\ Unloading \in Nat
    /\ IsFiniteSet(Releasing') /\ Unloading' = Cardinality(Releasing') /\ Unloading' \in Nat
<1>1. IsFiniteSet(Unloaders)
  BY BoundsAssumption, FS_Interval DEF Unloaders
<1>2. \A S \in SUBSET Unloaders : IsFiniteSet(S) /\ Cardinality(S) \in Nat
  BY <1>1, FS_Subset, FS_CardinalityType
<1>3. Releasing \in SUBSET Unloaders /\ Releasing' \in SUBSET Unloaders
  BY DEF Releasing
<1> QED
  BY <1>2, <1>3 DEF Unloading, Releasing

LEMMA CountStarted ==
    ASSUME UnloadTypes, NEW u \in Unloaders, unl[u] = "idle", unl' = [unl EXCEPT ![u] = "fini"]
    PROVE  Unloading' = Unloading + 1
<1>1. Releasing' = Releasing \cup {u} /\ u \notin Releasing
  BY DEF Releasing, UnloadTypes, Inside
<1> QED
  BY <1>1, CountFacts, FS_AddElement

LEMMA CountSame ==
    ASSUME UnloadTypes, NEW u \in Unloaders, unl[u] \in Inside, NEW p \in Inside,
           unl' = [unl EXCEPT ![u] = p]
    PROVE  Unloading' = Unloading
<1>1. Releasing' = Releasing
  BY DEF Releasing, UnloadTypes
<1> QED
  BY <1>1, CountFacts

\* The last reference takes the others along.
LEMMA CountFreed ==
    ASSUME UnloadTypes, NEW u \in Unloaders, UnloadFree(u)
    PROVE  /\ unl[u] = "free" /\ Unloading > 0 /\ unl' \in [Unloaders -> UnloadPlaces]
           /\ loads' = loads - 1
           /\ \/ /\ loads = 1 /\ Unloading > 1
                 /\ \E v \in Unloaders : unl'[v] = "wild"
                 /\ Unloading' = 0
              \/ /\ loads = 1 => Unloading = 1
                 /\ unl' = [unl EXCEPT ![u] = "done"]
                 /\ Unloading' = Unloading - 1
<1>1. /\ unl[u] = "free" /\ loads' = loads - 1
      /\ unl' = [v \in Unloaders |-> CASE v = u -> "done"
                                       [] v # u /\ loads = 1 /\ unl[v] \in Inside -> "wild"
                                       [] OTHER -> unl[v]]
  BY DEF UnloadFree, UnlAt, Released
<1>2. /\ unl'[u] = "done"
      /\ \A v \in Unloaders \ {u} :
            unl'[v] = IF loads = 1 /\ unl[v] \in Inside THEN "wild" ELSE unl[v]
  BY <1>1
<1>3. unl' \in [Unloaders -> UnloadPlaces]
  <2>1. \A v \in Unloaders : unl'[v] \in UnloadPlaces
    BY <1>2 DEF UnloadPlaces, UnloadTypes
  <2> QED
    BY <1>1, <2>1
<1>4. u \in Releasing
  BY <1>1 DEF Releasing, Inside
<1>5. PICK n \in Nat : n = Unloading /\ n # 0 /\ Cardinality(Releasing \ {u}) = n - 1
                       /\ IsFiniteSet(Releasing \ {u})
  <2>1. Unloading # 0
    BY <1>4, CountFacts, FS_EmptySet
  <2> QED
    BY <1>4, <2>1, CountFacts, FS_RemoveElement
<1>6. CASE loads = 1 /\ Releasing \ {u} # {}
  <2>1. n > 1
    <3>1. n - 1 # 0
      BY <1>5, <1>6, FS_EmptySet
    <3> QED
      BY <1>5, <3>1
  <2>2. PICK v \in Unloaders \ {u} : unl[v] \in Inside
    BY <1>6 DEF Releasing
  <2>3. unl'[v] = "wild"
    BY <1>2, <1>6, <2>2
  <2>4. \A w \in Unloaders : unl'[w] \notin Inside
    BY <1>2, <1>6 DEF Inside
  <2>5. Releasing' = {}
    BY <2>4 DEF Releasing
  <2>6. Unloading' = 0
    BY <2>5, CountFacts, FS_EmptySet
  <2> QED
    BY <1>1, <1>3, <1>5, <1>6, <2>1, <2>3, <2>6
<1>7. CASE ~(loads = 1 /\ Releasing \ {u} # {})
  <2>1. \A v \in Unloaders \ {u} : unl'[v] = unl[v]
    BY <1>2, <1>7 DEF Releasing
  <2>2. unl' = [unl EXCEPT ![u] = "done"]
    BY <1>2, <1>3, <2>1 DEF UnloadTypes
  <2>3. Releasing' = Releasing \ {u}
    BY <1>2, <2>1 DEF Releasing, Inside
  <2>4. Unloading' = n - 1
    BY <1>5, <2>3, CountFacts
  <2>5. loads = 1 => n = 1
    <3>1. loads = 1 => n - 1 = 0
      BY <1>5, <1>7, FS_EmptySet
    <3> QED
      BY <1>5, <3>1
  <2>6. Unloading > 0 /\ unl[u] = "free" /\ loads' = loads - 1
    BY <1>1, <1>5
  <2>7. Unloading' = Unloading - 1 /\ (loads = 1 => Unloading = 1)
    BY <1>5, <2>4, <2>5
  <2> QED
    BY <1>3, <2>2, <2>6, <2>7
<1> QED
  BY <1>6, <1>7

----------------------------------------------------------------------------
(* Requests, the connection, and the unload threads.                       *)

\* Neither threads nor WaitForHook are concerned.
LEMMA OutsideKeeps ==
    ASSUME RundownInv, ~Crashed, UNCHANGED <<hitVars, threadVars, doze, mon>>,
           made' \in Nat, careless' \in BOOLEAN
    PROVE  RestTypes' /\ ThreadInv' /\ HitInv'
<1> USE DEF RundownInv
<1>1. UNCHANGED <<hit, hitParams, hitWaiting, wfh, tpc, frames, rets, pHook, isRet, event>>
  BY DEF hitVars, threadVars
<1>2. RestTypes'
  BY <1>1 DEF RestTypes
<1>3. ThreadInv'
  BY <1>1 DEF ThreadInv, ThreadOK, InHook, Entered
<1>4. HitInv'
  BY <1>1, HitKeeps DEF RestTypes
<1> QED
  BY <1>2, <1>3, <1>4

\* If the hooks stay, so does what is known of every thread.
LEMMA ThreadsStay ==
    ASSUME UNCHANGED <<hooks, tpc, frames, rets, pHook, isRet>>
    PROVE  /\ StackTypes => StackTypes'
           /\ \A t \in AppThreads : (LiveOK(t) => LiveOK(t)') /\ (ClearOK(t) => ClearOK(t)')
  BY DEF StackTypes, LiveOK, ClearOK, InHook, Busy, Returning

LEMMA HookKeeps ==
    ASSUME RundownInv, ~Crashed, events' \in 0 .. MaxEvents, NEW va \in VAs, ServeHook(va)
    PROVE  RundownInv'
<1> USE DEF RundownInv
<1>1. /\ UNCHANGED <<hitVars, threadVars, unloadVars, doze, node, mon, careless>>
      /\ hooks' = hooks \cup {[va |-> va, n |-> made + 1]} /\ made' = made + 1
  BY DEF ServeHook, Hook
<1>2. UNCHANGED <<hit, hitParams, hitWaiting, wfh, tpc, frames, rets, pHook, isRet, event>>
  BY <1>1 DEF hitVars, threadVars
<1>3. UNCHANGED <<hitStop, missed, instance, loads, unl, owner>>
  BY <1>1 DEF unloadVars
<1>4. made' \in Nat
  BY <1>1 DEF RestTypes
<1>5. RestTypes' /\ ThreadInv' /\ HitInv'
  BY <1>1, <1>4, OutsideKeeps DEF RestTypes
<1>6. hooks \subseteq hooks' /\ hooks' \subseteq RealHooks
  <2>1. PICK h : h = [va |-> va, n |-> made + 1]
    OBVIOUS
  <2>2. h \in Hooks /\ h.va = va
    BY <1>1, <1>4, <2>1 DEF Hooks
  <2>3. h # NoHook
    BY <2>2, AddressAssumption DEF NoHook
  <2> QED
    BY <1>1, <2>1, <2>2, <2>3 DEF StackTypes, RealHooks
<1>7. StackTypes'
  BY <1>2, <1>6 DEF StackTypes
<1>8. LiveInv'
  <2>1. ASSUME NEW t \in AppThreads, LiveOK(t) PROVE LiveOK(t)'
    BY <1>2, <1>6, <2>1, MatchesMore DEF LiveOK, InHook
  <2> QED
    BY <1>3, <2>1 DEF LiveInv, Mapped
<1>9. ClearInv'
  BY <1>1, <1>2, <1>3 DEF ClearInv, ClearOK, Busy, Returning
<1>10. UnloadTypes' /\ CountInv'
  BY <1>1, <1>3, CountKeeps DEF UnloadTypes
<1>11. OwnerInv'
  <2>1. instance # "live" => unl[owner] \in {"stop", "notify", "offline"}
    BY DEF ServeHook, OwnerInv
  <2> QED
    BY <1>1, <1>2, <1>3, <2>1 DEF OwnerInv
<1> QED
  BY <1>5, <1>7, <1>8, <1>9, <1>10, <1>11

LEMMA OutsideSteps ==
    ASSUME RundownInv, ~Crashed, events' \in 0 .. MaxEvents,
           ConnectionLost \/ LoadAgain \/ \E u \in Unloaders : ServeHookLate(u)
    PROVE  RundownInv'
<1> USE DEF RundownInv
<1>1. /\ UNCHANGED <<hookVars, hitVars, threadVars, doze, mon, hitStop, missed, instance, owner>>
      /\ careless' \in BOOLEAN
  BY DEF ConnectionLost, LoadAgain, ServeHookLate, victimVars, unloadVars, RestTypes
<1>2. UNCHANGED <<made, hooks, hit, hitParams, hitWaiting, wfh, tpc, frames, rets, pHook, isRet, event>>
  BY <1>1 DEF hookVars, hitVars, threadVars
<1>3. RestTypes' /\ ThreadInv' /\ HitInv'
  BY <1>1, <1>2, OutsideKeeps DEF RestTypes
<1>4. StackTypes'
  BY <1>2, ThreadsStay
<1>5. CASE ConnectionLost
  <2>1. UNCHANGED <<unl, loads, careless>> /\ node = "up" /\ node' \in {"stuck", "lost"}
    BY <1>5 DEF ConnectionLost, unloadVars
  <2>2. UnloadTypes' /\ CountInv'
    BY <1>1, <2>1, CountKeeps DEF UnloadTypes
  <2>3. OwnerInv'
    BY <1>1, <1>2, <2>1 DEF OwnerInv
  <2>4. LiveInv' /\ ClearInv'
    BY <1>1, <1>2, <2>1, ThreadsStay DEF LiveInv, ClearInv, Mapped
  <2> QED
    BY <1>3, <1>4, <2>2, <2>3, <2>4
<1>6. CASE LoadAgain
  <2>1. UNCHANGED <<unl, node, careless>> /\ loads > 0 /\ loads' = loads + 1
    BY <1>6 DEF LoadAgain, Mapped
  <2>2. UnloadTypes'
    BY <1>1, <2>1 DEF UnloadTypes
  <2>3. OwnerInv'
    BY <1>1, <1>2, <2>1, OwnerKeeps
  <2>4. LiveInv' /\ ClearInv'
    <3>1. Mapped'
      BY <2>1 DEF Mapped, UnloadTypes
    <3> QED
      BY <1>1, <1>2, <2>1, <3>1, ThreadsStay DEF LiveInv, ClearInv
  <2>5. CountInv'
    <3>1. PICK n \in Nat, l \in Nat : n = Unloading /\ l = loads
      BY CountFacts DEF UnloadTypes
    <3>2. Unloading' = Unloading
      BY <2>1 DEF Unloading
    <3>3. n <= l => n <= l + 1
      OBVIOUS
    <3> QED
      BY <2>1, <3>1, <3>2, <3>3 DEF CountInv, Mapped
  <2> QED
    BY <1>3, <1>4, <2>2, <2>3, <2>4, <2>5
<1>7. ASSUME NEW u \in Unloaders, ServeHookLate(u) PROVE RundownInv'
  <2>1. /\ unl[u] = "rpc" /\ unl' = [unl EXCEPT ![u] = "wild"] /\ careless' = TRUE
        /\ UNCHANGED <<node, loads>>
    BY <1>7 DEF ServeHookLate
  <2>2. UnloadTypes'
    BY <1>1, <2>1 DEF UnloadTypes, UnloadPlaces
  <2>3. instance # "live" /\ owner = u
    BY <2>1 DEF LiveInv, OwnerInv
  <2>4. LiveInv' /\ ClearInv'
    BY <1>1, <2>1, <2>3 DEF LiveInv, ClearInv
  <2>5. unl'[u] = "wild" /\ \A v \in Unloaders : v # u => unl'[v] = unl[v]
    BY <2>1 DEF UnloadTypes
  <2>6. OwnerInv'
    BY <1>1, <1>2, <2>3, <2>5 DEF OwnerInv
  <2>7. CountInv'
    BY <2>1, <2>5 DEF CountInv, Mapped, Inside
  <2> QED
    BY <1>3, <1>4, <2>2, <2>4, <2>6, <2>7
<1> QED
  BY <1>5, <1>6, <1>7

\* An unload thread comes: never more than the module was loaded times, if nobody is careless.
LEMMA StartKeeps ==
    ASSUME RundownInv, ~Crashed, events' \in 0 .. MaxEvents,
           NEW u \in Unloaders, Detach(u) \/ LossNoticed(u)
    PROVE  RundownInv'
<1> USE DEF RundownInv
<1>1. /\ UNCHANGED <<hookVars, hitVars, threadVars, doze, mon, hitStop, missed, instance, owner, loads>>
      /\ unl[u] = "idle" /\ unl' = [unl EXCEPT ![u] = "fini"] /\ StartCareless
  BY DEF Detach, LossNoticed, StartThread, UnlAt, UnlTo, victimVars
<1>2. UNCHANGED <<made, hooks, hit, hitParams, hitWaiting, wfh, tpc, frames, rets, pHook, isRet, event>>
  BY <1>1 DEF hookVars, hitVars, threadVars
<1>3. careless' \in BOOLEAN /\ (~careless' => ~careless /\ ~(Unloading >= loads))
  BY <1>1 DEF StartCareless, Unbalanced, Unloading, RestTypes
<1>4. RestTypes' /\ ThreadInv' /\ HitInv'
  BY <1>1, <1>2, <1>3, OutsideKeeps DEF RestTypes
<1>5. StackTypes'
  BY <1>2, ThreadsStay
<1>6. unl'[u] = "fini" /\ \A v \in Unloaders : v # u => unl'[v] = unl[v]
  BY <1>1 DEF UnloadTypes
<1>7. UnloadTypes'
  <2>1. node' \in {node, "over"}
    BY DEF Detach, LossNoticed
  <2> QED
    BY <1>1, <2>1 DEF UnloadTypes, UnloadPlaces, Inside
<1>8. LiveInv' /\ ClearInv'
  BY <1>1, <1>2, <1>3, <1>6, ThreadsStay DEF LiveInv, ClearInv, Mapped
<1>9. instance # "live" => owner # u
  BY <1>1 DEF OwnerInv
<1>10. OwnerInv'
  <2>1. node' = node \/ node' = "over"
    BY DEF Detach, LossNoticed
  <2> QED
    BY <1>1, <1>2, <1>6, <1>9, <2>1 DEF OwnerInv
<1>11. Mapped
  <2>1. CASE Detach(u)
    BY <2>1 DEF Detach
  <2>2. CASE LossNoticed(u) /\ instance = "live"
    BY <2>2 DEF LiveInv
  <2>3. CASE LossNoticed(u) /\ instance # "live"
    <3>1. unl[owner] = "stop" /\ owner \in Unloaders
      BY <2>3, NotWild DEF LossNoticed, OwnerInv
    <3> QED
      BY <3>1 DEF CountInv, Inside
  <2> QED
    BY <2>1, <2>2, <2>3
<1>12. CountInv'
  <2>1. PICK n \in Nat, l \in Nat : n = Unloading /\ l = loads
    BY CountFacts DEF UnloadTypes
  <2>2. Unloading' = n + 1
    BY <1>1, <2>1, CountStarted
  <2>3. ~careless' => n + 1 <= l
    BY <1>3, <2>1
  <2> QED
    BY <1>1, <1>11, <2>1, <2>2, <2>3 DEF CountInv, Mapped
<1> QED
  BY <1>4, <1>5, <1>7, <1>8, <1>10, <1>12

\* The steps of an unload thread up to FreeLibraryAndExitThread(), of which all but the first are
\* the owner's.
LEMMA DestroyKeeps ==
    ASSUME RundownInv, ~Crashed, events' \in 0 .. MaxEvents, NEW u \in Unloaders,
           \/ UnloadFini(u) \/ UnloadStop(u) \/ UnloadNotify(u) \/ UnloadOffline(u)
           \/ UnloadUnhook(u) \/ UnloadRpc(u) \/ UnloadNull(u)
    PROVE  RundownInv'
<1> USE DEF RundownInv
<1>1. /\ UNCHANGED <<made, hit, hitParams, wfh, threadVars, doze, mon, loads>>
      /\ hooks' \subseteq hooks /\ hitWaiting' \subseteq hitWaiting
      /\ careless' \in BOOLEAN /\ (careless => careless')
  BY DEF UnloadFini, UnloadStop, UnloadNotify, UnloadOffline, UnloadUnhook, UnloadRpc, UnloadNull,
     UnhookOne, WokenAll, victimVars, hookVars, hitVars, RestTypes
<1>2. UNCHANGED <<tpc, frames, rets, pHook, isRet, event>>
  BY <1>1 DEF threadVars
<1>3. RestTypes'
  BY <1>1, <1>2 DEF RestTypes
<1>4. StackTypes' /\ ThreadInv'
  BY <1>1, <1>2 DEF StackTypes, ThreadInv, ThreadOK, InHook, Entered
<1>5. HitInv'
  BY <1>1, <1>2, HitKeeps DEF RestTypes
<1>6. unl[u] \in Inside \ {"free"}
  BY DEF UnloadFini, UnloadStop, UnloadNotify, UnloadOffline, UnloadUnhook, UnloadRpc, UnloadNull,
     UnlAt, Inside
<1>7. PICK p \in Inside : unl' = [unl EXCEPT ![u] = p]
  <2>1. \/ \E p \in Inside : unl' = [unl EXCEPT ![u] = p]
        \/ unl' = unl
    BY DEF UnloadFini, UnloadStop, UnloadNotify, UnloadOffline, UnloadUnhook, UnloadRpc, UnloadNull,
       UnlTo, Inside
  <2>2. unl = [unl EXCEPT ![u] = unl[u]]
    BY DEF UnloadTypes
  <2> QED
    BY <1>6, <2>1, <2>2
<1>8. unl'[u] = p /\ \A v \in Unloaders : v # u => unl'[v] = unl[v]
  BY <1>7 DEF UnloadTypes
<1>9. unl' \in [Unloaders -> UnloadPlaces]
  BY <1>7 DEF UnloadTypes, UnloadPlaces
<1>10. CountInv'
  <2>1. Unloading' = Unloading
    BY <1>6, <1>7, CountSame
  <2>2. Mapped
    BY <1>6 DEF CountInv
  <2> QED
    BY <1>1, <2>1, <2>2 DEF CountInv, Mapped
<1>11. p # "wild"
  BY <1>7 DEF Inside
<1>12. ASSUME instance # "live" PROVE ClearInv'
  <2>1. ASSUME NEW t \in AppThreads, ClearOK(t) PROVE ClearOK(t)'
    BY <1>2, <2>1 DEF ClearOK, Busy, Returning
  <2> QED
    BY <1>1, <1>8, <1>11, <1>12, <2>1 DEF ClearInv
<1>13. CASE UnloadFini(u) /\ instance = "live"
  <2>1. /\ unl[u] = "fini" /\ instance' = "running" /\ owner' = u /\ p = "stop"
        /\ UNCHANGED <<hooks, hitStop, missed, node>>
        /\ ~careless' => \A t \in AppThreads : ~Busy(t)
    <3>1. unl' = [unl EXCEPT ![u] = "stop"]
      BY <1>13 DEF UnloadFini, UnlTo
    <3>2. p = "stop"
      BY <1>8, <3>1 DEF UnloadTypes
    <3> QED
      BY <1>13, <3>2 DEF UnloadFini, UnlAt, victimVars, hookVars
  <2>2. UnloadTypes'
    BY <1>1, <1>9, <2>1 DEF UnloadTypes, Unloaders
  <2>3. LiveInv'
    BY <2>1 DEF LiveInv
  <2>4. ClearInv'
    <3>1. \A v \in Unloaders : unl'[v] # "wild"
      BY <1>8, <1>11, NotWild
    <3>2. ASSUME ~careless', NEW t \in AppThreads PROVE ClearOK(t)'
      BY <1>2, <2>1, <3>2, NotWild DEF ClearOK, Busy, Returning
    <3> QED
      BY <3>1, <3>2 DEF ClearInv
  <2>5. OwnerInv'
    BY <1>8, <1>13, <2>1 DEF OwnerInv, LiveInv
  <2> QED
    BY <1>3, <1>4, <1>5, <1>10, <2>2, <2>3, <2>4, <2>5
<1>14. CASE UnloadFini(u) /\ instance # "live"
  <2>1. /\ unl[u] = "fini" /\ p = "free"
        /\ UNCHANGED <<hooks, hitStop, missed, node, instance, owner>>
    <3>1. unl' = [unl EXCEPT ![u] = "free"]
      BY <1>14 DEF UnloadFini, UnlTo
    <3>2. p = "free"
      BY <1>8, <3>1 DEF UnloadTypes
    <3> QED
      BY <1>14, <3>2 DEF UnloadFini, UnlAt, victimVars, hookVars
  <2>2. UnloadTypes'
    BY <1>1, <1>9, <2>1 DEF UnloadTypes
  <2>3. owner # u
    BY <1>14, <2>1 DEF OwnerInv
  <2>4. LiveInv' /\ ClearInv'
    BY <1>12, <1>14, <2>1 DEF LiveInv
  <2>5. OwnerInv'
    BY <1>1, <1>8, <1>14, <2>1, <2>3 DEF OwnerInv
  <2> QED
    BY <1>3, <1>4, <1>5, <1>10, <2>2, <2>4, <2>5
<1>15. CASE ~UnloadFini(u)
  <2>1. unl[u] \in {"stop", "notify", "offline", "unhook", "rpc", "null"}
    BY <1>15 DEF UnloadStop, UnloadNotify, UnloadOffline, UnloadUnhook, UnloadRpc, UnloadNull, UnlAt
  <2>2. instance # "live" /\ owner = u
    BY <2>1 DEF LiveInv, OwnerInv
  <2>3. /\ owner' = owner /\ instance' \in {instance, "null"}
        /\ hitStop' \in {hitStop, TRUE}
        /\ missed' \in {missed, doze} /\ node' \in {node, "stuck", "over"}
    BY <1>15 DEF UnloadStop, UnloadNotify, UnloadOffline, UnloadUnhook, UnloadRpc, UnloadNull
  <2>4. UnloadTypes'
    BY <1>1, <1>9, <2>3 DEF UnloadTypes, RestTypes
  <2>5. LiveInv' /\ ClearInv'
    BY <1>12, <2>2, <2>3 DEF LiveInv
  <2>6. /\ hitStop'
        /\ p \in {"notify", "offline", "unhook", "rpc", "hung", "null", "free"}
        /\ p \in {"rpc", "hung", "null", "free"} => hooks' = {}
        /\ p \in {"null", "free"} => node' = "over" /\ wfh' \in {"none", "answered", "ended"}
    <3>1. unl[u] # "stop" => hitStop
      BY <2>1, <2>2 DEF OwnerInv
    <3>2. CASE UnloadStop(u)
      <4>1. p = "notify" /\ hitStop' = TRUE
        BY <1>7, <1>8, <3>2 DEF UnloadStop, UnlTo, UnloadTypes
      <4> QED
        BY <4>1
    <3>3. CASE UnloadNotify(u)
      <4>1. unl[u] = "notify" /\ p = "offline" /\ hitStop' = hitStop
        BY <1>7, <1>8, <3>3 DEF UnloadNotify, UnlAt, UnlTo, UnloadTypes
      <4> QED
        BY <3>1, <4>1
    <3>4. CASE UnloadOffline(u)
      <4>1. unl[u] = "offline" /\ p = "unhook" /\ hitStop' = hitStop
        BY <1>7, <1>8, <3>4 DEF UnloadOffline, UnlAt, UnlTo, UnloadTypes
      <4> QED
        BY <3>1, <4>1
    <3>5. CASE UnloadUnhook(u)
      <4>1. unl[u] = "unhook" /\ hitStop' = hitStop
        BY <3>5 DEF UnloadUnhook, UnlAt
      <4>2. p = "unhook" \/ (p = "rpc" /\ hooks' = {})
        BY <1>7, <1>8, <3>5, <4>1 DEF UnloadUnhook, UnhookedAll, UnlTo, UnloadTypes
      <4> QED
        BY <3>1, <4>1, <4>2
    <3>6. CASE UnloadRpc(u)
      <4>1. unl[u] = "rpc" /\ UNCHANGED <<hooks, hitStop, wfh>>
        BY <3>6 DEF UnloadRpc, UnlAt, victimVars, hookVars, hitVars
      <4>2. \/ p = "hung"
            \/ p = "null" /\ node' = "over" /\ wfh \notin {"called", "wait", "event"}
        BY <1>7, <1>8, <3>6 DEF UnloadRpc, UnlTo, UnloadTypes
      <4>3. hooks = {}
        BY <2>2, <4>1 DEF OwnerInv
      <4> QED
        BY <3>1, <4>1, <4>2, <4>3 DEF RestTypes, Wfh
    <3>7. CASE UnloadNull(u)
      <4>1. unl[u] = "null" /\ p = "free" /\ UNCHANGED <<hooks, hitStop, wfh, node>>
        BY <1>7, <1>8, <3>7 DEF UnloadNull, UnlAt, UnlTo, UnloadTypes, victimVars, hookVars, hitVars
      <4> QED
        BY <2>2, <3>1, <4>1 DEF OwnerInv
    <3> QED
      BY <1>15, <3>2, <3>3, <3>4, <3>5, <3>6, <3>7
  <2>7. OwnerInv'
    BY <1>8, <2>2, <2>3, <2>6 DEF OwnerInv
  <2> QED
    BY <1>3, <1>4, <1>5, <1>10, <2>4, <2>5, <2>7
<1> QED
  BY <1>13, <1>14, <1>15

LEMMA FreeKeeps ==
    ASSUME RundownInv, ~Crashed, events' \in 0 .. MaxEvents, NEW u \in Unloaders, UnloadFree(u)
    PROVE  RundownInv'
<1> USE DEF RundownInv
<1>1. UNCHANGED <<hookVars, hitVars, threadVars, hitStop, missed, instance, owner, doze, node, mon, careless>>
  BY DEF UnloadFree, victimVars
<1>2. UNCHANGED <<made, hooks, hit, hitParams, hitWaiting, wfh, tpc, frames, rets, pHook, isRet, event>>
  BY <1>1 DEF hookVars, hitVars, threadVars
<1>3. RestTypes' /\ ThreadInv' /\ HitInv'
  BY <1>1, <1>2, OutsideKeeps DEF RestTypes
<1>4. StackTypes'
  BY <1>2, ThreadsStay
<1>5. /\ unl[u] = "free" /\ Unloading > 0 /\ unl' \in [Unloaders -> UnloadPlaces]
      /\ loads' = loads - 1
      /\ \/ /\ loads = 1 /\ Unloading > 1
            /\ Unloading' = 0
         \/ /\ loads = 1 => Unloading = 1
            /\ unl' = [unl EXCEPT ![u] = "done"]
            /\ Unloading' = Unloading - 1
  BY CountFreed
<1>6. PICK n \in Nat, l \in Nat : n = Unloading /\ l = loads
  BY CountFacts DEF UnloadTypes
<1>7. l # 0 /\ instance # "live"
  <2>1. Mapped
    BY <1>5 DEF CountInv, Inside
  <2>2. instance # "live"
    BY <1>5 DEF LiveInv
  <2> QED
    BY <1>6, <2>1, <2>2 DEF Mapped
<1>8. UnloadTypes'
  BY <1>1, <1>5, <1>6, <1>7 DEF UnloadTypes
<1>9. /\ unl'[u] = "done"
      /\ \A v \in Unloaders : v # u =>
            unl'[v] = IF loads = 1 /\ unl[v] \in Inside THEN "wild" ELSE unl[v]
  <2>1. unl' = [v \in Unloaders |-> CASE v = u -> "done"
                                       [] v # u /\ loads = 1 /\ unl[v] \in Inside -> "wild"
                                       [] OTHER -> unl[v]]
    BY DEF UnloadFree
  <2> QED
    BY <2>1
<1>10. LiveInv'
  BY <1>1, <1>7 DEF LiveInv
<1>11. OwnerInv'
  BY <1>1, <1>2, <1>5, <1>9 DEF OwnerInv
<1>12. CountInv'
  <2>1. ~Mapped' => \A v \in Unloaders : unl'[v] \notin Inside
    <3>1. l - 1 > 0 \/ l = 1
      BY <1>7
    <3>2. ASSUME l = 1, NEW v \in Unloaders PROVE unl'[v] \notin Inside
      BY <1>6, <1>9, <3>2 DEF Inside
    <3> QED
      BY <1>5, <1>6, <3>1, <3>2 DEF Mapped
  <2>2. ASSUME ~careless PROVE Unloading' <= loads'
    <3>1. n <= l
      BY <1>6, <2>2 DEF CountInv
    <3>2. Unloading' = n - 1 \/ (l = 1 /\ n > 1)
      BY <1>5, <1>6
    <3> QED
      BY <1>5, <1>6, <3>1, <3>2
  <2> QED
    BY <1>1, <2>1, <2>2 DEF CountInv
<1>13. ClearInv'
  <2>1. SUFFICES ASSUME ~careless
                 PROVE  /\ \A v \in Unloaders : unl'[v] # "wild"
                        /\ \A t \in AppThreads : ClearOK(t)'
    BY <1>1 DEF ClearInv
  <2>2. n <= l
    BY <1>6, <2>1 DEF CountInv
  <2>3. unl' = [unl EXCEPT ![u] = "done"]
    BY <1>5, <1>6, <2>2
  <2>4. \A v \in Unloaders : unl'[v] # "wild"
    BY <2>3, NotWild DEF UnloadTypes
  <2>5. \A t \in AppThreads : ClearOK(t)'
    BY <1>2, <1>7, <2>1, ThreadsStay DEF ClearInv
  <2> QED
    BY <2>4, <2>5
<1> QED
  BY <1>3, <1>4, <1>8, <1>10, <1>11, <1>12, <1>13

----------------------------------------------------------------------------
(* The invariant, and what follows from it.                                *)

LEMMA InitRundown == Init => RundownInv
<1> SUFFICES ASSUME Init PROVE RundownInv
  OBVIOUS
<1>1. /\ StackTypes
      /\ \A t \in AppThreads : \A H : Matches(frames[t], rets[t], H)
      /\ \A t \in AppThreads : tpc[t] \in {"run", "onhook", "done"}
      /\ \A t \in Threads : tpc[t] # "done"
      /\ \A t \in Threads : InHook(t) =>
            t = Main /\ pHook[t] = InitialHook /\ Entered(t) /\ hooks = {InitialHook}
      /\ tpc[InitThread] \in {"onhook", "done"} /\ pHook[InitThread] = NoHook
  BY InitStacks DEF Init
<1>2. /\ hitStop = FALSE /\ doze = Nobody /\ missed = Nobody /\ instance = "live" /\ loads = 1
      /\ unl = [u \in Unloaders |-> "idle"] /\ owner = 0 /\ node = "up" /\ mon = "call"
      /\ careless = FALSE /\ events = 0 /\ VictimInit
  BY DEF Init
<1>3. /\ made = 0 /\ hit = TRUE /\ hitWaiting = {} /\ wfh = "none"
      /\ hitParams = [thread |-> InitThread, hook |-> NoHook, isRet |-> FALSE]
      /\ isRet = [t \in AppThreads |-> FALSE]
      /\ event = [t \in AppThreads |-> "initial"]
  BY <1>2 DEF VictimInit, HitInitially
<1>4. frames[InitThread] = <<>>
  BY <1>2, InitThreadFacts, ThreadAssumption DEF VictimInit
<1>5. \A u \in Unloaders : unl[u] = "idle"
  BY <1>2
<1>6. RestTypes
  <2>1. hitParams \in [thread : AppThreads, hook : Hooks, isRet : BOOLEAN]
    BY <1>3, InitThreadFacts, NoHookFacts
  <2> QED
    BY <1>2, <1>3, <2>1 DEF RestTypes, Wfh
<1>7. UnloadTypes
  <2>1. unl \in [Unloaders -> UnloadPlaces]
    BY <1>2 DEF UnloadPlaces
  <2>2. owner \in 0 .. MaxUnloads
    BY <1>2, BoundsAssumption
  <2> QED
    BY <1>2, <2>1, <2>2 DEF UnloadTypes
<1>8. events \in 0 .. MaxEvents
  BY <1>2, BoundsAssumption
<1>9. ThreadInv
  BY <1>1, <1>3, <1>4, InitThreadFacts DEF ThreadInv, ThreadOK
<1>10. LiveInv
  <2>1. \A t \in AppThreads : LiveOK(t)
    BY <1>1 DEF LiveOK
  <2> QED
    BY <1>2, <1>5, <2>1 DEF LiveInv, Mapped
<1>11. ClearInv
  BY <1>2 DEF ClearInv
<1>12. HitInv
  BY <1>2, <1>3 DEF HitInv
<1>13. OwnerInv
  BY <1>2, <1>5 DEF OwnerInv
<1>14. CountInv
  <2>1. Releasing = {}
    BY <1>5 DEF Releasing, Inside
  <2>2. Unloading = 0
    BY <2>1, CountFacts, FS_EmptySet
  <2> QED
    BY <1>2, <2>2 DEF CountInv, Mapped
<1> QED
  BY <1>1, <1>6, <1>7, <1>8, <1>9, <1>10, <1>11, <1>12, <1>13, <1>14 DEF RundownInv

LEMMA StutterRundown == RundownInv /\ UNCHANGED vars => RundownInv'
<1> SUFFICES ASSUME RundownInv, UNCHANGED vars PROVE RundownInv'
  OBVIOUS
<1> USE DEF RundownInv
<1>1. /\ UNCHANGED <<hookVars, hitVars, threadVars, unloadVars, doze, node, mon, careless, events>>
  BY DEF vars, victimVars
<1>2. /\ UNCHANGED <<made, hooks, hit, hitParams, hitWaiting, wfh, tpc, frames, rets, pHook, isRet, event>>
      /\ UNCHANGED <<hitStop, missed, instance, loads, unl, owner>>
  BY <1>1 DEF hookVars, hitVars, threadVars, unloadVars
<1>3. RestTypes' /\ UnloadTypes'
  BY <1>1, <1>2 DEF RestTypes, UnloadTypes
<1>4. StackTypes' /\ ThreadInv' /\ LiveInv' /\ ClearInv'
  BY <1>1, <1>2, RestKeep
<1>5. HitInv'
  BY <1>1, <1>2 DEF HitInv
<1>6. OwnerInv' /\ CountInv'
  BY <1>1, <1>2, OwnerKeeps, CountKeeps
<1> QED
  BY <1>1, <1>3, <1>4, <1>5, <1>6

LEMMA NextRundown == RundownInv /\ [Next]_vars => RundownInv'
<1> SUFFICES ASSUME RundownInv, [Next]_vars PROVE RundownInv'
  OBVIOUS
<1>1. CASE UNCHANGED vars
  BY <1>1, StutterRundown
<1>2. CASE Next
  <2>1. ~Crashed /\ events' \in 0 .. MaxEvents
    BY <1>2, NextFacts DEF RundownInv
  <2>2. CASE \/ \E t \in Threads : \E va \in VAs : AppCall(t, va)
             \/ \E t \in Threads : AppReturn(t) \/ AppReturnHook(t)
    BY <2>1, <2>2, AppKeeps
  <2>3. CASE \E t \in AppThreads : StubStep(t)
    BY <2>1, <2>3, StubKeeps
  <2>4. CASE Sleep \/ WorkerStep
    BY <2>1, <2>4, WorkerKeeps
  <2>5. CASE MonitorStep
    BY <2>1, <2>5, MonitorKeeps
  <2>6. CASE \E va \in VAs : ServeHook(va)
    BY <2>1, <2>6, HookKeeps
  <2>7. CASE ConnectionLost \/ LoadAgain \/ \E u \in Unloaders : ServeHookLate(u)
    BY <2>1, <2>7, OutsideSteps
  <2>8. CASE \E u \in Unloaders : Detach(u) \/ LossNoticed(u)
    BY <2>1, <2>8, StartKeeps
  <2>9. CASE \E u \in Unloaders : UnloadStep(u)
    BY <2>1, <2>9, DestroyKeeps, FreeKeeps DEF UnloadStep
  <2> QED
    BY <1>2, <2>2, <2>3, <2>4, <2>5, <2>6, <2>7, <2>8, <2>9 DEF Next, Running, FromOutside
<1> QED
  BY <1>1, <1>2

LEMMA RundownTypes == RundownInv => TypeOK
<1> SUFFICES ASSUME RundownInv PROVE TypeOK
  OBVIOUS
<1>1. hooks \subseteq Hooks \ {NoHook}
  BY DEF RundownInv, StackTypes, RealHooks
<1>2. \A t \in AppThreads :
         /\ frames[t] \in Seq([va : VAs, ret : {CallerAddr, ReturnAddr}])
         /\ rets[t] \in Seq(Words)
  BY DEF RundownInv, StackTypes, FrameSet
<1> QED
  BY <1>1, <1>2 DEF RundownInv, StackTypes, RestTypes, UnloadTypes, Wfh, TypeOK

LEMMA RundownClean == RundownInv => CleanDetach
<1> SUFFICES ASSUME RundownInv, ~careless
             PROVE  /\ ~Crashed
                    /\ ~Mapped => /\ hooks = {}
                                 /\ \A t \in AppThreads : ~Busy(t)
                                 /\ wfh \in {"none", "answered", "ended"}
  BY DEF CleanDetach
<1> USE DEF RundownInv
<1>1. ~Crashed
  BY DEF Crashed, LiveInv, LiveOK, ClearInv, ClearOK
<1>2. ASSUME ~Mapped PROVE instance # "live"
  BY <1>2 DEF LiveInv
<1>3. ASSUME ~Mapped PROVE \A t \in AppThreads : ~Busy(t)
  BY <1>2, <1>3 DEF ClearInv, ClearOK
<1>4. ASSUME ~Mapped PROVE unl[owner] = "done"
  BY <1>1, <1>2, <1>4, NotWild DEF OwnerInv, CountInv, Inside
<1>5. ASSUME ~Mapped PROVE hooks = {} /\ wfh \in {"none", "answered", "ended"}
  BY <1>2, <1>4, <1>5 DEF OwnerInv
<1> QED
  BY <1>1, <1>3, <1>5

\* The types of the rundown, for any number of threads and unload threads: the number of times
\* the module is loaded does not become negative (initfini.cpp 26-31), the return stacks hold
\* what _HookLLReturn takes off them (hookll.x64.asm), and a thread that waits, arms, spins or
\* returns is one there is.
THEOREM RundownTypeCorrect == Spec => []TypeOK
<1>1. RundownInv /\ [Next]_vars => RundownInv'
  BY NextRundown
<1> QED
  BY <1>1, InitRundown, RundownTypes, PTL DEF Spec

\* A detach leaves the process unharmed and nothing of the module behind, for any number of
\* threads, hooks and unload threads and calls of any depth, if no thread was in a hook when it
\* began, none has run into one since, no hook was being set and the module was released as
\* often as it was loaded (initfini.cpp 89-120, rpc.cpp 86-94, singleton.h 38-46).
THEOREM DetachIsClean == Spec => []CleanDetach
<1>1. RundownInv /\ [Next]_vars => RundownInv'
  BY NextRundown
<1> QED
  BY <1>1, InitRundown, RundownClean, PTL DEF Spec

----------------------------------------------------------------------------
(* The victim of the server's specification.                               *)

LEMMA InstFacts ==
    ASSUME RundownInv, ~Crashed
    PROVE  /\ instance = "live" => InstNow = "up"
           /\ instance # "live" /\ unl[owner] \in {"stop", "notify", "offline"} => InstNow = "rundown"
           /\ instance # "live" /\ unl[owner] \in {"unhook", "rpc", "hung", "null", "free"} =>
                 InstNow = "leaving"
           /\ instance # "live" /\ unl[owner] = "done" => InstNow = "none"
           /\ instance # "live" => owner \in Unloaders
           /\ instance # "live" => unl[owner] \in {"stop", "notify", "offline", "unhook", "rpc", "hung",
                                                  "null", "free", "done"}
  BY NotWild DEF InstNow, RundownInv, OwnerInv

\* A thread or an unload thread runs into code that is not there.
LEMMA StepDie ==
    ASSUME ~Crashed, Crashed'
    PROVE  P!VictimNext
<1>1. InstNow' = "none"
  BY DEF InstNow
<1>2. P!Die(ThePid)
  BY <1>1 DEF P!Die
<1> QED
  BY <1>2 DEF P!VictimNext

\* Steps of which the server's specification knows nothing.
LEMMA StepNothing ==
    ASSUME ~Crashed, ~Crashed', loads' = loads, InstNow' = InstNow, Unloading' = Unloading
    PROVE  UNCHANGED P!processVars
  BY DEF P!processVars

LEMMA StepUnloaders ==
    ASSUME ~Crashed, ~Crashed', UNCHANGED unloadVars
    PROVE  UNCHANGED P!processVars
<1>1. UNCHANGED <<loads, unl, owner, instance>>
  BY DEF unloadVars
<1>2. Unloading' = Unloading
  BY <1>1 DEF Unloading
<1>3. InstNow' = InstNow
  BY <1>1 DEF InstNow
<1> QED
  BY <1>1, <1>2, <1>3, StepNothing

LEMMA StepLoad ==
    ASSUME ~Crashed, ~Crashed', loads \in Nat, loads > 0, loads' = loads + 1,
           InstNow' = InstNow, Unloading' = Unloading
    PROVE  P!VictimNext
<1>1. P!InstanceLoaded(ThePid) = InstNow
  BY DEF P!InstanceLoaded
<1>2. P!LoadModule(ThePid)
  BY <1>1 DEF P!LoadModule
<1>3. UNCHANGED [p \in {ThePid} |-> IF Crashed THEN "dead" ELSE "alive"]
  OBVIOUS
<1>4. UNCHANGED [p \in {ThePid} |-> IF Crashed THEN 0 ELSE Unloading]
  OBVIOUS
<1> QED
  BY <1>2, <1>3, <1>4 DEF P!VictimNext

LEMMA StepStart ==
    ASSUME ~Crashed, ~Crashed', loads' = loads, InstNow' = InstNow, InstNow # "none",
           Unloading' = Unloading + 1
    PROVE  P!VictimNext
<1>1. P!Linked(ThePid) /\ P!StartUnload(ThePid)
  BY DEF P!Linked, P!StartUnload
<1> QED
  BY <1>1 DEF P!VictimNext

LEMMA StepRundown ==
    ASSUME ~Crashed, ~Crashed', loads' = loads, InstNow = "up", InstNow' = "rundown",
           Unloading > 0, Unloading' = Unloading
    PROVE  P!VictimNext
<1>1. P!Rundown(ThePid)
  BY DEF P!Rundown
<1> QED
  BY <1>1 DEF P!VictimNext

LEMMA StepOfflined ==
    ASSUME ~Crashed, ~Crashed', loads' = loads, InstNow = "rundown", InstNow' = "leaving",
           Unloading' = Unloading
    PROVE  P!VictimNext
<1>1. P!Offlined(ThePid)
  BY DEF P!Offlined
<1> QED
  BY <1>1 DEF P!VictimNext

LEMMA StepRelease ==
    ASSUME ~Crashed, ~Crashed', loads' = loads - 1, loads = 1 => Unloading = 1,
           Unloading' = Unloading - 1, Unloading \in Nat
    PROVE  /\ InstNow = "leaving" /\ InstNow' = "none" => P!VictimNext
           /\ InstNow \in {"rundown", "leaving"} /\ InstNow' = InstNow /\ Unloading > 1 => P!VictimNext
           /\ InstNow = "none" /\ InstNow' = InstNow /\ Unloading > 0 => P!VictimNext
<1>1. PICK n \in Nat : n = Unloading
  OBVIOUS
<1>2. P!Release(ThePid, InstNow')
  <2>1. ~(loads = 1 /\ Unloading > 1)
    BY <1>1
  <2>2. UNCHANGED [p \in {ThePid} |-> IF Crashed THEN "dead" ELSE "alive"]
    OBVIOUS
  <2>3. [p \in {ThePid} |-> IF Crashed THEN 0 ELSE loads]'
           = [[p \in {ThePid} |-> IF Crashed THEN 0 ELSE loads] EXCEPT ![ThePid] = @ - 1]
    OBVIOUS
  <2>4. [p \in {ThePid} |-> IF Crashed THEN 0 ELSE Unloading]'
           = [[p \in {ThePid} |-> IF Crashed THEN 0 ELSE Unloading] EXCEPT ![ThePid] = @ - 1]
    OBVIOUS
  <2>5. [p \in {ThePid} |-> InstNow]' = [[p \in {ThePid} |-> InstNow] EXCEPT ![ThePid] = InstNow']
    OBVIOUS
  <2> QED
    BY <2>1, <2>2, <2>3, <2>4, <2>5 DEF P!Release
<1>3. ASSUME InstNow = "leaving" /\ InstNow' = "none" PROVE P!Unloaded(ThePid)
  BY <1>2, <1>3 DEF P!Unloaded
<1>4. ASSUME InstNow \in {"rundown", "leaving"} /\ InstNow' = InstNow /\ Unloading > 1
      PROVE  P!UnloadAgain(ThePid)
  BY <1>2, <1>4 DEF P!UnloadAgain, P!Surplus
<1>5. ASSUME InstNow = "none" /\ InstNow' = InstNow /\ Unloading > 0
      PROVE  P!UnloadAgain(ThePid)
  BY <1>2, <1>5 DEF P!UnloadAgain, P!Surplus
<1> QED
  BY <1>3, <1>4, <1>5 DEF P!VictimNext

LEMMA NextVictim == RundownInv /\ RundownInv' /\ [Next]_vars => [P!VictimNext]_P!processVars
<1> SUFFICES ASSUME RundownInv, RundownInv', [Next]_vars
             PROVE  P!VictimNext \/ UNCHANGED P!processVars
  OBVIOUS
<1>1. CASE UNCHANGED vars
  <2>1. UNCHANGED <<tpc, unl, instance, owner, loads>>
    BY <1>1 DEF vars, victimVars, threadVars, unloadVars
  <2>2. Crashed' = Crashed /\ Unloading' = Unloading
    BY <2>1 DEF Crashed, Unloading
  <2>3. InstNow' = InstNow
    BY <2>1, <2>2 DEF InstNow
  <2> QED
    BY <2>1, <2>2, <2>3 DEF P!processVars
<1>2. CASE Next
  <2>1. ~Crashed
    BY <1>2, NextFacts DEF RundownInv
  <2>2. CASE Crashed'
    BY <2>1, <2>2, StepDie
  <2>3. CASE ~Crashed'
    <3>1. /\ UnloadTypes /\ CountInv /\ OwnerInv /\ LiveInv
          /\ Unloading \in Nat /\ loads \in Nat
      BY CountFacts DEF RundownInv, UnloadTypes
    <3>2. CASE UNCHANGED unloadVars
      BY <2>1, <2>3, <3>2, StepUnloaders
    <3>3. CASE LoadAgain
      <4>1. UNCHANGED <<unl, instance, owner>> /\ loads > 0 /\ loads' = loads + 1
        BY <3>3 DEF LoadAgain, Mapped
      <4>2. Unloading' = Unloading /\ InstNow' = InstNow
        BY <2>1, <2>3, <4>1 DEF Unloading, InstNow
      <4> QED
        BY <2>1, <2>3, <3>1, <4>1, <4>2, StepLoad
    <3>4. CASE \E u \in Unloaders : ServeHookLate(u)
      <4>1. PICK u \in Unloaders : unl' = [unl EXCEPT ![u] = "wild"]
        BY <3>4 DEF ServeHookLate
      <4>2. unl'[u] = "wild"
        BY <3>1, <4>1 DEF UnloadTypes
      <4> QED
        BY <2>3, <4>2 DEF Crashed
    <3>5. ASSUME NEW u \in Unloaders, Detach(u) \/ LossNoticed(u) PROVE P!VictimNext
      <4>1. /\ unl[u] = "idle" /\ unl' = [unl EXCEPT ![u] = "fini"]
            /\ UNCHANGED <<instance, owner, loads>>
        BY <3>5 DEF Detach, LossNoticed, StartThread, UnlAt, UnlTo
      <4>2. Unloading' = Unloading + 1
        BY <3>1, <4>1, CountStarted
      <4>3. instance # "live" => unl'[owner] = unl[owner]
        BY <3>1, <4>1 DEF OwnerInv, UnloadTypes
      <4>4. InstNow' = InstNow
        BY <2>1, <2>3, <4>1, <4>3 DEF InstNow
      <4>5. InstNow # "none"
        <5>1. CASE instance = "live"
          BY <2>1, <5>1, InstFacts
        <5>2. CASE instance # "live" /\ Detach(u)
          <6>1. node = "up"
            BY <5>2 DEF Detach
          <6>2. unl[owner] # "done"
            BY <3>1, <5>2, <6>1 DEF OwnerInv
          <6> QED
            BY <2>1, <5>2, <6>2, InstFacts
        <5>3. CASE instance # "live" /\ LossNoticed(u)
          <6>1. ~hitStop
            BY <5>3 DEF LossNoticed
          <6>2. unl[owner] # "done"
            BY <3>1, <5>3, <6>1 DEF OwnerInv
          <6> QED
            BY <2>1, <5>3, <6>2, InstFacts
        <5> QED
          BY <3>5, <5>1, <5>2, <5>3
      <4> QED
        BY <2>1, <2>3, <4>1, <4>2, <4>4, <4>5, StepStart
    <3>6. ASSUME NEW u \in Unloaders, UnloadFini(u) /\ instance = "live" PROVE P!VictimNext
      <4>1. /\ unl[u] = "fini" /\ unl' = [unl EXCEPT ![u] = "stop"] /\ loads' = loads
            /\ instance' = "running" /\ owner' = u
        BY <3>6 DEF UnloadFini, UnlAt, UnlTo
      <4>2. Unloading' = Unloading
        BY <3>1, <4>1, CountSame DEF Inside
      <4>3. Unloading > 0
        <5>1. u \in Releasing
          BY <4>1 DEF Releasing, Inside
        <5>2. Unloading # 0
          BY <5>1, CountFacts, FS_EmptySet
        <5> QED
          BY <3>1, <5>2
      <4>4. unl'[u] = "stop"
        BY <3>1, <4>1 DEF UnloadTypes
      <4>5. InstNow = "up" /\ InstNow' = "rundown"
        BY <2>1, <2>3, <3>6, <4>1, <4>4, InstFacts DEF InstNow
      <4> QED
        BY <2>1, <2>3, <4>1, <4>2, <4>3, <4>5, StepRundown
    <3>7. ASSUME NEW u \in Unloaders, UnloadFini(u) /\ instance # "live"
          PROVE  UNCHANGED P!processVars
      <4>1. /\ unl[u] = "fini" /\ unl' = [unl EXCEPT ![u] = "free"]
            /\ UNCHANGED <<instance, owner, loads>>
        BY <3>7 DEF UnloadFini, UnlAt, UnlTo
      <4>2. Unloading' = Unloading
        BY <3>1, <4>1, CountSame DEF Inside
      <4>3. unl'[owner] = unl[owner]
        BY <3>1, <3>7, <4>1 DEF OwnerInv, UnloadTypes
      <4>4. InstNow' = InstNow
        BY <2>1, <2>3, <4>1, <4>3 DEF InstNow
      <4> QED
        BY <2>1, <2>3, <4>1, <4>2, <4>4, StepNothing
    <3>8. ASSUME NEW u \in Unloaders, UnloadOffline(u) PROVE P!VictimNext
      <4>1. /\ unl[u] = "offline" /\ unl' = [unl EXCEPT ![u] = "unhook"]
            /\ UNCHANGED <<instance, owner, loads>>
        BY <3>8 DEF UnloadOffline, UnlAt, UnlTo
      <4>2. Unloading' = Unloading
        BY <3>1, <4>1, CountSame DEF Inside
      <4>3. instance # "live" /\ owner = u /\ unl'[u] = "unhook"
        BY <3>1, <4>1 DEF LiveInv, OwnerInv, UnloadTypes
      <4>4. InstNow = "rundown" /\ InstNow' = "leaving"
        BY <2>1, <2>3, <4>1, <4>3, InstFacts DEF InstNow
      <4> QED
        BY <2>1, <2>3, <4>1, <4>2, <4>4, StepOfflined
    <3>9. ASSUME NEW u \in Unloaders,
                 \/ UnloadStop(u) \/ UnloadNotify(u) \/ UnloadUnhook(u) \/ UnloadRpc(u)
                 \/ UnloadNull(u)
          PROVE  UNCHANGED P!processVars
      <4>1. unl[u] \in {"stop", "notify", "unhook", "rpc", "null"}
        BY <3>9 DEF UnloadStop, UnloadNotify, UnloadUnhook, UnloadRpc, UnloadNull, UnlAt
      <4>2. instance # "live" /\ owner = u
        BY <3>1, <4>1 DEF LiveInv, OwnerInv
      <4>3. loads' = loads /\ owner' = owner /\ instance' \in {instance, "null"}
        BY <3>9 DEF UnloadStop, UnloadNotify, UnloadUnhook, UnloadRpc, UnloadNull
      <4>4. PICK p \in Inside :
              /\ unl' = [unl EXCEPT ![u] = p]
              /\ unl[u] \in {"stop", "notify"} <=> p \in {"stop", "notify", "offline"}
              /\ p # "fini"
        <5>1. unl = [unl EXCEPT ![u] = unl[u]]
          BY <3>1 DEF UnloadTypes
        <5> QED
          BY <3>9, <4>1, <5>1 DEF UnloadStop, UnloadNotify, UnloadUnhook, UnloadRpc, UnloadNull,
             UnlAt, UnlTo, Inside
      <4>5. Unloading' = Unloading
        BY <3>1, <4>1, <4>4, CountSame DEF Inside
      <4>6. unl'[owner] = p
        BY <3>1, <4>2, <4>4 DEF UnloadTypes
      <4>7. InstNow' = InstNow
        BY <2>1, <2>3, <4>1, <4>2, <4>3, <4>4, <4>6 DEF InstNow, Inside
      <4> QED
        BY <2>1, <2>3, <4>3, <4>5, <4>7, StepNothing
    <3>10. ASSUME NEW u \in Unloaders, UnloadFree(u) PROVE P!VictimNext
      <4>1. /\ unl[u] = "free" /\ Unloading > 0 /\ loads' = loads - 1
            /\ loads = 1 => Unloading = 1
            /\ unl' = [unl EXCEPT ![u] = "done"]
            /\ Unloading' = Unloading - 1
        BY <2>3, <3>1, <3>10, CountFreed DEF Crashed
      <4>2. UNCHANGED <<instance, owner>> /\ instance # "live"
        BY <3>1, <3>10, <4>1 DEF UnloadFree, LiveInv
      <4>3. CASE owner = u
        <5>1. unl'[owner] = "done"
          BY <3>1, <4>1, <4>3 DEF UnloadTypes
        <5>2. InstNow = "leaving" /\ InstNow' = "none"
          BY <2>1, <2>3, <4>1, <4>2, <4>3, <5>1, InstFacts DEF InstNow
        <5> QED
          BY <2>1, <2>3, <3>1, <4>1, <5>2, StepRelease
      <4>4. CASE owner # u
        <5>1. unl'[owner] = unl[owner] /\ owner \in Unloaders
          BY <2>1, <3>1, <4>1, <4>2, <4>4, InstFacts DEF UnloadTypes
        <5>2. InstNow' = InstNow
          BY <2>1, <2>3, <4>2, <5>1 DEF InstNow
        <5>3. CASE unl[owner] = "done"
          <6>1. InstNow = "none"
            BY <2>1, <4>2, <5>3, InstFacts
          <6> QED
            BY <2>1, <2>3, <3>1, <4>1, <5>2, <6>1, StepRelease
        <5>4. CASE unl[owner] # "done"
          <6>1. InstNow \in {"rundown", "leaving"}
            BY <2>1, <4>2, <5>4, InstFacts
          <6>2. u \in Releasing /\ owner \in Releasing \ {u}
            BY <2>1, <4>1, <4>2, <4>4, <5>4, InstFacts DEF Releasing, Inside
          <6>3. /\ Cardinality(Releasing \ {u}) = Unloading - 1 /\ Cardinality(Releasing \ {u}) # 0
            BY <6>2, CountFacts, FS_RemoveElement, FS_EmptySet
          <6>4. Unloading > 1
            <7>1. PICK n \in Nat : n = Unloading /\ n > 0 /\ n - 1 # 0
              BY <3>1, <4>1, <6>3
            <7> QED
              BY <7>1
          <6> QED
            BY <2>1, <2>3, <3>1, <4>1, <5>2, <6>1, <6>4, StepRelease
        <5> QED
          BY <5>3, <5>4
      <4> QED
        BY <4>3, <4>4
    <3>11. \/ UNCHANGED unloadVars
           \/ LoadAgain
           \/ \E u \in Unloaders :
                 \/ ServeHookLate(u) \/ Detach(u) \/ LossNoticed(u) \/ UnloadStep(u)
      BY <1>2 DEF Next, Running, FromOutside, AppCall, AppReturn, AppReturnHook, ThreadRest, StubStep,
         AppReturnStub, AppIgnored, AppHit, AppDoze, AppStopped, AppArm, AppCodeGone, Sleep,
         WorkerStep, WorkerListens, WorkerAgain, WorkerHit, WorkerStopped, WorkerEvent, WorkerRest,
         MonitorStep, MonitorCalls, MonitorTakes, MonitorResumes, ServeHook, ConnectionLost
    <3> QED
      BY <3>2, <3>3, <3>4, <3>5, <3>6, <3>7, <3>8, <3>9, <3>10, <3>11 DEF UnloadStep
  <2> QED
    BY <2>2, <2>3
<1> QED
  BY <1>1, <1>2

LEMMA InitVictim ==
    ASSUME Init
    PROVE  /\ [p \in {ThePid} |-> IF Crashed THEN "dead" ELSE "alive"] = [p \in {ThePid} |-> "alive"]
           /\ [p \in {ThePid} |-> InstNow] = [p \in {ThePid} |-> "up"]
           /\ [p \in {ThePid} |-> IF Crashed THEN 0 ELSE loads] = [p \in {ThePid} |-> 1]
           /\ [p \in {ThePid} |-> IF Crashed THEN 0 ELSE Unloading] = [p \in {ThePid} |-> 0]
<1>1. RundownInv
  BY InitRundown
<1>2. /\ instance = "live" /\ loads = 1 /\ unl = [u \in Unloaders |-> "idle"]
  BY DEF Init
<1>3. ~Crashed
  BY <1>1, <1>2 DEF Crashed, RundownInv, LiveInv, LiveOK
<1>4. InstNow = "up"
  BY <1>1, <1>2, <1>3, InstFacts
<1>5. Unloading = 0
  <2>1. Releasing = {}
    BY <1>2 DEF Releasing, Inside
  <2> QED
    BY <2>1, CountFacts, FS_EmptySet
<1> QED
  BY <1>2, <1>3, <1>4, <1>5

\* What the server's specification takes a victim for is what the module does, for any number of
\* threads and unload threads: the Victim object goes through its destructor once and calls
\* Offline in it, whatever requests and losses of the connection start unload threads meanwhile,
\* and the last reference takes the other unload threads along (singleton.h 38-46,
\* initfini.cpp 19-32, 89-107).
THEOREM RundownImplementsVictim == Spec => ImplementsVictimProcess
<1>1. RundownInv /\ [Next]_vars => RundownInv'
  BY NextRundown
<1>2. RundownInv /\ RundownInv' /\ [Next]_vars => [P!VictimNext]_P!processVars
  BY NextVictim
<1> QED
  BY <1>1, <1>2, InitRundown, InitVictim, PTL DEF Spec, ImplementsVictimProcess, P!VictimSpec
=============================================================================
