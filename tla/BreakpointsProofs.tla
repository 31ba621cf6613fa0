------------------------- MODULE BreakpointsProofs -------------------------
(***************************************************************************)
(* Proofs about Breakpoints, for any number of threads, functions and      *)
(* breakpoints and any depth of calls.                                     *)
(***************************************************************************)
EXTENDS Breakpoints, VictimHooksProofs

\* From its report to its resumption.
Reporting == mon \in {"check", "unhook", "notify", "initial", "handler", "resume"}

\* A thread in a hook is in the hook's function; the module's own thread passes one hit.
ThreadInv ==
    /\ \A t \in Threads : tpc[t] # "done"
    /\ \A t \in AppThreads : t \notin Threads =>
          tpc[t] \in {"onhook", "arming", "done"} /\ pHook[t] = NoHook /\ isRet[t] = FALSE
    /\ \A t \in AppThreads : Matches(frames[t], rets[t], RealHooks)
    /\ \A t \in Threads : InHook(t) => Entered(t)

\* The way of a hit: a thread passes when _hit is false, which it is in WaitForHook only, and
\* triggers its slimevent; the server hears of it when the event has been taken back.
HitInv ==
    /\ mon = "wait" <=> wfh # "none"
    /\ wfh # "wait" => hit
    /\ hitParams.thread = InitThread <=> hitParams.hook = NoHook
    /\ \A t \in AppThreads : tpc[t] \in {"arming", "spin"} =>
          /\ hit
          /\ hitParams = [thread |-> t, hook |-> pHook[t], isRet |-> isRet[t]]
          /\ mon # "listen" /\ wfh # "called"
    /\ \A t \in AppThreads : tpc[t] = "arming" => wfh \in {"wait", "event"}
    /\ \A t \in AppThreads : event[t] = "inverse" =>
          /\ wfh \in {"wait", "event"}
          /\ hit /\ hitParams.thread = t
          /\ tpc[t] \in {"spin", "done"}
    /\ (wfh = "answered" \/ Reporting) /\ hitParams.hook # NoHook => tpc[hitParams.thread] = "spin"
    /\ Reporting => /\ hookData.thread = hitParams.thread
                    /\ hookData.hook = hitParams.hook
                    /\ hookData.isRet = hitParams.isRet

StopInv == TypeOK /\ ThreadInv /\ HitInv

\* At an address there is one hook, that of launch or one the server lists, or is about to.
TableInv ==
    /\ \A g, h \in hooks : g.va = h.va => g = h
    /\ \A h \in hooks : h # InitialHook => h.va \in serverHooks \/ op[h.va] = "list"
    /\ InitialHook \in hooks => EntryPoint \notin serverHooks /\ op[EntryPoint] # "list"

\* What the monitor knows of a hook, as long as it has not been removed.
DataInv ==
    /\ mon \in {"check", "unhook"} => 
          /\ hookData.hook \in hooks
          /\ hookData.va = hookData.hook.va /\ hookData.tramp = hookData.hook
    /\ Reporting /\ hookData.hook = NoHook => hookData.va = NoVa
    /\ Reporting /\ hookData.va = NoVa => hookData.tramp = NoHook
    /\ Reporting /\ hookData.va # NoVa =>
          /\ hookData.va = hookData.hook.va /\ hookData.tramp = hookData.hook
    /\ mon \in {"notify", "handler"} /\ hookData.va # NoVa => hookData.va \in serverHooks
    /\ mon = "initial" => hookData.va = NoVa
    /\ mon = "handler" => hookData.va # NoVa
    /\ mon = "resume" <=> action # "none"
    /\ action \in {"Skip", "BreakOnReturn"} => hookData.va # NoVa

\* If breakpoints are set during the initial break and in handlers only:
\* the monitor waits while that happens, and removes no hook but the initial one ...
QuietInv ==
    /\ \A va \in VAs : op[va] # "idle" =>
          \/ mon = "initial" /\ ~readyEvt
          \/ mon = "handler" /\ hookData.va \in bps
    /\ mon = "handler" => op[hookData.va] \notin {"list", "ok"}
    /\ mon = "unhook" => hookData.hook = InitialHook
    /\ Reporting /\ hookData.va # NoVa =>
          /\ hookData.hook \in hooks
          /\ mon \in {"notify", "handler", "resume"} => hookData.hook # InitialHook
    /\ Reporting /\ hookData.hook # NoHook /\ hookData.va = NoVa =>
          hookData.hook = InitialHook /\ InitialHook \notin hooks
    /\ GratuitousIsInitial

\* ... so that every hook a thread holds exists, but for that one.
HeldInv ==
    /\ NoWildThread
    /\ \A t \in Threads : InHook(t) /\ pHook[t] \notin hooks =>
          Reporting /\ hookData.thread = t /\ hookData.va = NoVa
    /\ \A t \in Threads : InHook(t) /\ pHook[t] = InitialHook => t = Main
    /\ \A t \in Threads : tpc[t] = "retstub" => pHook[t] # InitialHook
    /\ \A t \in AppThreads : Matches(frames[t], rets[t], hooks \ {InitialHook})

\* If bpClear() is not called, addresses gain handlers and lose none.
ClientInv ==
    /\ \A va \in VAs : opKind[va] = "set"
    /\ \A va \in VAs : op[va] # "idle" => va \in bps
    /\ serverHooks \subseteq bps

\* The module's own threads are never stopped and never break on return.
IgnoreInv == \A t \in Internal : tpc[t] \in {"run", "onhook"} /\ rets[t] = <<>>

ListedAreHooked ==
    \A va \in VAs : va \in serverHooks \/ op[va] = "list" =>
        \E h \in hooks : h.va = va /\ h # InitialHook

----------------------------------------------------------------------------
(* Stops: types, stacks and the handshake of a hit.                        *)

LEMMA StopTypes == StopInv => StackTypes
  BY DEF StopInv, TypeOK, HitTypeOK, ThreadTypeOK, StackTypes, FrameSet, RealHooks

LEMMA InitStop == Init => StopInv
<1> SUFFICES ASSUME Init PROVE StopInv
  OBVIOUS
<1> USE ThreadAssumption, AddressAssumption, NoHookFacts
<1>1. VictimInit
  BY DEF Init
<1>2. HitTypeOK
  <2>1. hooks \subseteq Hooks \ {NoHook} /\ made \in Nat
    <3>1. made = 0
      BY <1>1 DEF VictimInit
    <3>2. hooks \subseteq RealHooks
      BY <1>1, InitStacks DEF StackTypes
    <3> QED
      BY <3>1, <3>2 DEF RealHooks
  <2>2. hitParams \in [thread : AppThreads, hook : Hooks, isRet : BOOLEAN]
    BY <1>1 DEF VictimInit, AppThreads
  <2>3. hit \in BOOLEAN /\ hitWaiting = {} /\ wfh = "none"
    BY <1>1 DEF VictimInit, HitInitially
  <2> QED
    BY <2>1, <2>2, <2>3 DEF HitTypeOK
<1>3. ThreadTypeOK
  <2>1. event \in [AppThreads -> {"initial", "inverse"}]
    BY <1>1 DEF VictimInit
  <2> QED
    BY <1>1, <2>1, InitStacks DEF StackTypes, ThreadTypeOK, FrameSet
<1>4. ServerTypeOK
  <2>1. hookData \in [thread : AppThreads, hook : Hooks, isRet : BOOLEAN,
                       va : VAs \cup {NoVa}, tramp : Hooks]
    BY DEF Init, NoData, AppThreads
  <2>2. ops \in 0 .. MaxOps
    BY OpsAssumption DEF Init
  <2> QED
    BY <2>1, <2>2 DEF Init, ServerTypeOK
<1>5. ThreadInv
  <2>1. \A t \in Threads : InHook(t) => Entered(t)
    BY <1>1, InitStacks
  <2>2. \A t \in AppThreads : Matches(frames[t], rets[t], RealHooks)
    BY <1>1, InitStacks
  <2>3. /\ \A t \in Threads : tpc[t] # "done"
        /\ \A t \in AppThreads : t \notin Threads =>
             tpc[t] \in {"onhook", "arming", "done"} /\ pHook[t] = NoHook /\ isRet[t] = FALSE
    BY <1>1 DEF VictimInit, AppThreads
  <2> QED
    BY <2>1, <2>2, <2>3 DEF ThreadInv
<1>6. HitInv
  BY DEF Init, VictimInit, HitInv, HitInitially, AppThreads, Reporting
<1> QED
  BY <1>2, <1>3, <1>4, <1>5, <1>6 DEF StopInv, TypeOK

\* A step of the server or the client that leaves the thread it stopped alone.
LEMMA ServerStop ==
    ASSUME StopInv, UNCHANGED <<hookVars, hitVars, threadVars>>, ServerTypeOK',
           mon' = "wait" <=> mon = "wait", mon' = "listen" => mon = "listen",
           Reporting' => Reporting /\ /\ hookData'.thread = hookData.thread
                                      /\ hookData'.hook = hookData.hook
                                      /\ hookData'.isRet = hookData.isRet
    PROVE  StopInv'
<1> USE DEF hookVars, hitVars, threadVars
<1>1. TypeOK'
  BY DEF StopInv, TypeOK, HitTypeOK, ThreadTypeOK
<1>2. ThreadInv'
  BY DEF StopInv, ThreadInv, InHook, Entered
<1>3. HitInv'
  BY DEF StopInv, HitInv
<1> QED
  BY <1>1, <1>2, <1>3 DEF StopInv

----------------------------------------------------------------------------
LEMMA ServerStepsStop ==
    ASSUME StopInv,
           \/ MonitorListed \/ MonitorUnlisted \/ MonitorNotify \/ ProxyReady \/ InitialAnswer
           \/ HandlerAnswer \/ UnknownAnswer
           \/ \E va \in VAs : \/ BpSet(va) \/ BpClear(va) \/ ServerBpSet(va) \/ ServerList(va)
                             \/ BpDone(va)
    PROVE  StopInv'
<1> USE DEF victimVars, hookVars, hitVars, threadVars, monitorVars, opVars, clientVars, Reporting
<1> USE DEF StopInv, TypeOK, HitTypeOK, ServerTypeOK
<1>1. CASE MonitorListed
  BY <1>1, ServerStop DEF MonitorListed
<1>2. CASE MonitorUnlisted
  BY <1>2, ServerStop DEF MonitorUnlisted
<1>3. CASE MonitorNotify
  BY <1>3, ServerStop DEF MonitorNotify
<1>4. CASE ProxyReady
  BY <1>4, ServerStop DEF ProxyReady
<1>5. CASE InitialAnswer
  BY <1>5, ServerStop DEF InitialAnswer
<1>6. CASE HandlerAnswer
  BY <1>6, ServerStop DEF HandlerAnswer
<1>7. CASE UnknownAnswer
  BY <1>7, ServerStop DEF UnknownAnswer
<1>8. ASSUME NEW va \in VAs, BpSet(va) PROVE StopInv'
  <2>1. ops' \in 0 .. MaxOps
    BY <1>8, OpsAssumption DEF BpSet, UserMayAct
  <2>2. ServerTypeOK'
    BY <1>8, <2>1 DEF BpSet, BpsBeforeCall
  <2> QED
    BY <1>8, <2>2, ServerStop DEF BpSet
<1>9. ASSUME NEW va \in VAs, BpClear(va) PROVE StopInv'
  <2>1. ops' \in 0 .. MaxOps
    BY <1>9, OpsAssumption DEF BpClear, UserMayAct
  <2>2. ServerTypeOK'
    BY <1>9, <2>1 DEF BpClear
  <2> QED
    BY <1>9, <2>2, ServerStop DEF BpClear
<1>10. ASSUME NEW va \in VAs, ServerBpSet(va) PROVE StopInv'
  BY <1>10, ServerStop DEF ServerBpSet
<1>11. ASSUME NEW va \in VAs, ServerList(va) PROVE StopInv'
  <2>1. ServerTypeOK'
    BY <1>11 DEF ServerList, Listed
  <2> QED
    BY <1>11, <2>1, ServerStop DEF ServerList
<1>12. ASSUME NEW va \in VAs, BpDone(va) PROVE StopInv'
  <2>1. ServerTypeOK'
    BY <1>12 DEF BpDone
  <2> QED
    BY <1>12, <2>1, ServerStop DEF BpDone
<1> QED
  BY <1>1, <1>2, <1>3, <1>4, <1>5, <1>6, <1>7, <1>8, <1>9, <1>10, <1>11, <1>12

\* Hooks come and go; nothing else of the victim changes.
LEMMA PatchStop ==
    ASSUME StopInv, MonitorUnhook \/ \E va \in VAs : VictimHook(va)
    PROVE  StopInv'
<1> USE DEF victimVars, hookVars, hitVars, threadVars, monitorVars, opVars, clientVars
<1>1. CASE MonitorUnhook
  <2>1. HitTypeOK'
    BY <1>1 DEF StopInv, TypeOK, HitTypeOK, MonitorUnhook, Unhook
  <2>2. ThreadTypeOK'
    BY <1>1 DEF StopInv, TypeOK, ThreadTypeOK, MonitorUnhook
  <2>3. ServerTypeOK'
    BY <1>1, NoHookFacts DEF StopInv, TypeOK, ServerTypeOK, MonitorUnhook, InitialData
  <2>4. ThreadInv'
    BY <1>1 DEF StopInv, ThreadInv, InHook, Entered, MonitorUnhook
  <2>5. /\ Reporting /\ mon \notin {"wait", "listen"} /\ Reporting' /\ mon' \notin {"wait", "listen"}
        /\ hookData'.thread = hookData.thread /\ hookData'.hook = hookData.hook
        /\ hookData'.isRet = hookData.isRet
    BY <1>1 DEF StopInv, TypeOK, ServerTypeOK, MonitorUnhook, InitialData, Reporting
  <2>6. HitInv'
    BY <1>1, <2>5 DEF StopInv, HitInv, MonitorUnhook
  <2> QED
    BY <2>1, <2>2, <2>3, <2>4, <2>6 DEF StopInv, TypeOK
<1>2. ASSUME NEW va \in VAs, VictimHook(va) PROVE StopInv'
  <2>1. HitTypeOK'
    <3>1. [va |-> va, n |-> made + 1] \in RealHooks
      BY AddressAssumption DEF StopInv, TypeOK, HitTypeOK, RealHooks, Hooks, NoHook
    <3> QED
      BY <1>2, <3>1 DEF StopInv, TypeOK, HitTypeOK, VictimHook, Hook, RealHooks
  <2>2. ThreadTypeOK'
    BY <1>2 DEF StopInv, TypeOK, ThreadTypeOK, VictimHook
  <2>3. ServerTypeOK'
    BY <1>2 DEF StopInv, TypeOK, ServerTypeOK, VictimHook
  <2>4. ThreadInv'
    BY <1>2 DEF StopInv, ThreadInv, InHook, Entered, VictimHook
  <2>5. HitInv'
    BY <1>2 DEF StopInv, HitInv, VictimHook, Reporting
  <2> QED
    BY <2>1, <2>2, <2>3, <2>4, <2>5 DEF StopInv, TypeOK
<1> QED
  BY <1>1, <1>2

\* The way of a hit from the worker to the monitor.
LEMMA WorkerStop ==
    ASSUME StopInv,
           \/ /\ \/ HitSpuriousWakeup \/ WaitForHook \/ WaitForHookAgain \/ WaitForHookHit
                 \/ WaitForHookEvent
              /\ UNCHANGED serverVars
           \/ MonitorListen \/ MonitorRead
    PROVE  StopInv'
<1> USE DEF victimVars, hookVars, hitVars, threadVars, monitorVars, opVars, clientVars, serverVars
<1>1. CASE HitSpuriousWakeup /\ UNCHANGED serverVars
  <2>1. HitTypeOK'
    BY <1>1 DEF StopInv, TypeOK, HitTypeOK, HitSpuriousWakeup
  <2>2. ThreadTypeOK' /\ ServerTypeOK' /\ ThreadInv'
    BY <1>1 DEF StopInv, TypeOK, ThreadTypeOK, ServerTypeOK, ThreadInv, InHook, Entered,
       HitSpuriousWakeup
  <2>3. HitInv'
    BY <1>1 DEF StopInv, HitInv, Reporting, HitSpuriousWakeup
  <2> QED
    BY <2>1, <2>2, <2>3 DEF StopInv, TypeOK
<1>2. CASE WaitForHook /\ UNCHANGED serverVars
  <2>1. \A rest \in HitNotifyOne : rest \subseteq hitWaiting
    BY DEF HitNotifyOne
  <2>2. HitTypeOK'
    BY <1>2, <2>1 DEF StopInv, TypeOK, HitTypeOK, WaitForHook
  <2>3. ThreadTypeOK' /\ ServerTypeOK' /\ ThreadInv'
    BY <1>2 DEF StopInv, TypeOK, ThreadTypeOK, ServerTypeOK, ThreadInv, InHook, Entered, WaitForHook
  <2>4. HitInv'
    BY <1>2 DEF StopInv, HitInv, Reporting, WaitForHook
  <2> QED
    BY <2>2, <2>3, <2>4 DEF StopInv, TypeOK
<1>3. CASE (WaitForHookAgain \/ WaitForHookHit) /\ UNCHANGED serverVars
  <2>1. HitTypeOK'
    BY <1>3 DEF StopInv, TypeOK, HitTypeOK, WaitForHookAgain, WaitForHookHit
  <2>2. ThreadTypeOK' /\ ServerTypeOK' /\ ThreadInv'
    <3>1. UNCHANGED <<threadVars, serverVars>>
      BY <1>3 DEF WaitForHookAgain, WaitForHookHit
    <3>2. ThreadTypeOK' /\ ThreadInv'
      BY <3>1 DEF StopInv, TypeOK, ThreadTypeOK, ThreadInv, InHook, Entered
    <3>3. ServerTypeOK'
      BY <3>1 DEF StopInv, TypeOK, ServerTypeOK
    <3> QED
      BY <3>2, <3>3
  <2>3. HitInv'
    BY <1>3 DEF StopInv, HitInv, Reporting, WaitForHookAgain, WaitForHookHit
  <2> QED
    BY <2>1, <2>2, <2>3 DEF StopInv, TypeOK
<1>4. CASE WaitForHookEvent /\ UNCHANGED serverVars
  <2>1. PICK t \in AppThreads : t = hitParams.thread
    BY DEF StopInv, TypeOK, HitTypeOK
  <2>2. event[t] = "inverse" /\ event' = [event EXCEPT ![t] = "initial"]
    BY <1>4, <2>1 DEF WaitForHookEvent, EventSeen, EventTaken
  <2>3. HitTypeOK' /\ ThreadTypeOK' /\ ServerTypeOK'
    <3>1. HitTypeOK' /\ ServerTypeOK'
      BY <1>4 DEF StopInv, TypeOK, HitTypeOK, ServerTypeOK, WaitForHookEvent
    <3>2. ThreadTypeOK'
      BY <1>4, <2>1, <2>2 DEF StopInv, TypeOK, ThreadTypeOK, WaitForHookEvent
    <3> QED
      BY <3>1, <3>2
  <2>4. ThreadInv'
    BY <1>4 DEF StopInv, ThreadInv, InHook, Entered, WaitForHookEvent
  <2>5. tpc[t] = "spin" \/ (tpc[t] = "done" /\ t = InitThread)
    BY <2>2 DEF StopInv, HitInv, ThreadInv, AppThreads
  <2>6. \A s \in AppThreads : event'[s] = IF s = t THEN "initial" ELSE event[s]
    BY <2>2 DEF StopInv, TypeOK, ThreadTypeOK
  <2>7. HitInv'
    BY <1>4, <2>1, <2>2, <2>5, <2>6 DEF StopInv, HitInv, Reporting, WaitForHookEvent
  <2> QED
    BY <2>3, <2>4, <2>7 DEF StopInv, TypeOK
<1>5. CASE MonitorListen
  <2>1. TypeOK'
    BY <1>5 DEF StopInv, TypeOK, HitTypeOK, ThreadTypeOK, ServerTypeOK, MonitorListen
  <2>2. ThreadInv'
    BY <1>5 DEF StopInv, ThreadInv, InHook, Entered, MonitorListen
  <2>3. HitInv'
    BY <1>5 DEF StopInv, HitInv, Reporting, MonitorListen
  <2> QED
    BY <2>1, <2>2, <2>3 DEF StopInv
<1>6. CASE MonitorRead
  <2>1. /\ hookData' = [thread |-> hitParams.thread, hook |-> hitParams.hook,
                        isRet |-> hitParams.isRet, va |-> hitParams.hook.va,
                        tramp |-> hitParams.hook]
        /\ mon' \in {"notify", "check", "misread"}
        /\ UNCHANGED <<action, gratuitous, serverHooks, op, opKind, ops, bps, ready, readyEvt>>
    BY <1>6 DEF MonitorRead
  <2>2. /\ hitParams.thread \in AppThreads /\ hitParams.hook \in Hooks /\ hitParams.isRet \in BOOLEAN
        /\ hitParams.hook.va \in VAs \cup {NoVa}
    BY NoHookFacts DEF StopInv, TypeOK, HitTypeOK
  <2>3. ServerTypeOK'
    BY <2>1, <2>2 DEF StopInv, TypeOK, ServerTypeOK
  <2>4. HitTypeOK' /\ ThreadTypeOK'
    BY <1>6 DEF StopInv, TypeOK, HitTypeOK, ThreadTypeOK, MonitorRead
  <2>5. ThreadInv'
    BY <1>6 DEF StopInv, ThreadInv, InHook, Entered, MonitorRead
  <2>6. /\ hookData'.thread = hitParams.thread /\ hookData'.hook = hitParams.hook
        /\ hookData'.isRet = hitParams.isRet
    BY <2>1
  <2>7. HitInv'
    BY <1>6, <2>1, <2>6 DEF StopInv, HitInv, Reporting, MonitorRead
  <2> QED
    BY <2>3, <2>4, <2>5, <2>7 DEF StopInv, TypeOK
<1> QED
  BY <1>1, <1>2, <1>3, <1>4, <1>5, <1>6

----------------------------------------------------------------------------
\* A thread in the hit handshake, or on its way out of an ignored hook.
LEMMA HitStop ==
    ASSUME StopInv, NEW t \in AppThreads, UNCHANGED serverVars,
           OnHookIgnore(t) \/ OnHookPass(t) \/ OnHookWait(t) \/ HookLLHit(t)
    PROVE  StopInv'
<1> USE DEF victimVars, hookVars, hitVars, threadVars, monitorVars, opVars, clientVars, serverVars
<1>0. ServerTypeOK'
  BY DEF StopInv, TypeOK, ServerTypeOK
<1>1. CASE OnHookIgnore(t)
  <2>1. t \in Threads /\ \E pc \in {"run", "wild"} : tpc' = [tpc EXCEPT ![t] = pc]
    BY <1>1, ThreadAssumption DEF OnHookIgnore, IgnoredThread
  <2>2. HitTypeOK'
    BY <1>1 DEF StopInv, TypeOK, HitTypeOK, OnHookIgnore
  <2>3. ThreadTypeOK'
    BY <1>1, <2>1 DEF StopInv, TypeOK, ThreadTypeOK, OnHookIgnore
  <2>4. ThreadInv'
    BY <1>1, <2>1 DEF StopInv, TypeOK, ThreadTypeOK, ThreadInv, InHook, InStub, Entered, OnHookIgnore
  <2>5. HitInv'
    BY <1>1, <2>1 DEF StopInv, TypeOK, ThreadTypeOK, HitTypeOK, HitInv, Reporting, OnHookIgnore
  <2> QED
    BY <1>0, <2>2, <2>3, <2>4, <2>5 DEF StopInv, TypeOK
<1>2. CASE OnHookPass(t)
  <2>1. /\ tpc' = [tpc EXCEPT ![t] = "arming"]
        /\ hitParams' = [thread |-> t, hook |-> pHook[t], isRet |-> isRet[t]]
        /\ pHook[t] \in Hooks /\ isRet[t] \in BOOLEAN
    BY <1>2 DEF StopInv, TypeOK, ThreadTypeOK, OnHookPass
  <2>2. HitTypeOK'
    BY <1>2, <2>1 DEF StopInv, TypeOK, HitTypeOK, OnHookPass
  <2>3. ThreadTypeOK'
    BY <1>2 DEF StopInv, TypeOK, ThreadTypeOK, OnHookPass, InStub
  <2>4. ThreadInv'
    <3>1. /\ \A s \in AppThreads : tpc'[s] = IF s = t THEN "arming" ELSE tpc[s]
          /\ UNCHANGED <<frames, rets, pHook, isRet>> /\ tpc[t] = "onhook"
      BY <1>2, <2>1 DEF StopInv, TypeOK, ThreadTypeOK, OnHookPass
    <3> QED
      BY <3>1 DEF StopInv, ThreadInv, InHook, InStub, Entered, AppThreads
  <2>5. t = InitThread <=> pHook[t] = NoHook
    BY <1>2, ThreadAssumption DEF StopInv, ThreadInv, InHook, InStub, Entered, OnHookPass, AppThreads
  <2>6. ~hit /\ wfh = "wait" /\ mon = "wait"
    BY <1>2 DEF StopInv, HitInv, OnHookPass, HitOpen
  <2>7. HitInv'
    BY <1>2, <2>1, <2>5, <2>6 DEF StopInv, TypeOK, ThreadTypeOK, HitInv, Reporting, OnHookPass
  <2> QED
    BY <1>0, <2>2, <2>3, <2>4, <2>7 DEF StopInv, TypeOK
<1>3. CASE OnHookWait(t)
  <2>1. HitTypeOK'
    BY <1>3 DEF StopInv, TypeOK, HitTypeOK, OnHookWait
  <2>2. ThreadTypeOK' /\ ThreadInv'
    BY <1>3 DEF StopInv, TypeOK, ThreadTypeOK, ThreadInv, InHook, Entered, OnHookWait
  <2>3. HitInv'
    BY <1>3 DEF StopInv, HitInv, Reporting, OnHookWait
  <2> QED
    BY <1>0, <2>1, <2>2, <2>3 DEF StopInv, TypeOK
<1>4. CASE HookLLHit(t)
  <2>1. PICK pc : pc = IF t = InitThread THEN "done" ELSE "spin"
    OBVIOUS
  <2>2. tpc' = [tpc EXCEPT ![t] = pc] /\ event' = [event EXCEPT ![t] = "inverse"]
    BY <1>4, <2>1 DEF HookLLHit
  <2>3. HitTypeOK'
    BY <1>4 DEF StopInv, TypeOK, HitTypeOK, HookLLHit
  <2>4. ThreadTypeOK'
    BY <1>4, <2>1, <2>2 DEF StopInv, TypeOK, ThreadTypeOK, HookLLHit, InStub
  <2>5. ThreadInv'
    BY <1>4, <2>1, <2>2, ThreadAssumption DEF StopInv, TypeOK, ThreadTypeOK, ThreadInv, InHook,
       InStub, Entered, HookLLHit, AppThreads
  <2>6. hit /\ hitParams.thread = t /\ wfh \in {"wait", "event"} /\ mon = "wait"
    BY <1>4 DEF StopInv, HitInv, HookLLHit
  <2>7. HitInv'
    BY <1>4, <2>1, <2>2, <2>6 DEF StopInv, TypeOK, ThreadTypeOK, HitInv, Reporting, HookLLHit
  <2> QED
    BY <1>0, <2>3, <2>4, <2>5, <2>7 DEF StopInv, TypeOK
<1> QED
  BY <1>1, <1>2, <1>3, <1>4

\* One thread moves, and is not in the hit handshake, before or after.
LEMMA MoveStop ==
    ASSUME StopInv, NEW t \in Threads, UNCHANGED <<hookVars, hitVars, event, serverVars>>,
           ThreadTypeOK', tpc[t] \notin {"arming", "spin"}, tpc'[t] \notin {"arming", "spin", "done"},
           \A s \in AppThreads : s # t =>
              /\ tpc'[s] = tpc[s] /\ pHook'[s] = pHook[s] /\ isRet'[s] = isRet[s]
              /\ frames'[s] = frames[s] /\ rets'[s] = rets[s],
           Matches(frames'[t], rets'[t], RealHooks), InHook(t)' => Entered(t)'
    PROVE  StopInv'
<1> USE DEF hookVars, hitVars, monitorVars, opVars, clientVars, serverVars
<1>1. HitTypeOK' /\ ServerTypeOK'
  <2>1. HitTypeOK'
    BY DEF StopInv, TypeOK, HitTypeOK
  <2>2. ServerTypeOK'
    BY DEF StopInv, TypeOK, ServerTypeOK
  <2> QED
    BY <2>1, <2>2
<1>2. ThreadInv'
  <2>1. \A s \in AppThreads : Matches(frames'[s], rets'[s], RealHooks)
    BY DEF StopInv, ThreadInv
  <2>2. ASSUME NEW s \in Threads, s # t, InHook(s)' PROVE Entered(s)'
    BY <2>2 DEF StopInv, ThreadInv, InHook, Entered, AppThreads
  <2>3. /\ \A s \in Threads : tpc'[s] # "done"
        /\ \A s \in AppThreads : s \notin Threads =>
             tpc'[s] \in {"onhook", "arming", "done"} /\ pHook'[s] = NoHook /\ isRet'[s] = FALSE
    BY DEF StopInv, ThreadInv, AppThreads
  <2> QED
    BY <2>1, <2>2, <2>3 DEF ThreadInv
<1>3. HitInv'
  <2>1. hitParams.thread \in AppThreads
    BY DEF StopInv, TypeOK, HitTypeOK
  <2>2. t \in AppThreads
    BY DEF AppThreads
  <2>3. (wfh = "answered" \/ Reporting) /\ hitParams.hook # NoHook => tpc'[hitParams.thread] = "spin"
    BY <2>1, <2>2 DEF StopInv, HitInv
  <2>4. \A s \in AppThreads : tpc'[s] \in {"arming", "spin"} =>
          s # t /\ hit /\ hitParams = [thread |-> s, hook |-> pHook'[s], isRet |-> isRet'[s]]
          /\ mon # "listen" /\ wfh # "called" /\ (tpc'[s] = "arming" => wfh \in {"wait", "event"})
    BY DEF StopInv, HitInv
  <2>5. \A s \in AppThreads : event[s] = "inverse" =>
          /\ wfh \in {"wait", "event"} /\ hit /\ hitParams.thread = s /\ tpc'[s] \in {"spin", "done"}
    <3>1. \A s \in AppThreads : event[s] = "inverse" => s # t
      BY DEF StopInv, HitInv, ThreadInv
    <3> QED
      BY <3>1 DEF StopInv, HitInv
  <2> QED
    BY <2>3, <2>4, <2>5 DEF StopInv, HitInv, Reporting
<1> QED
  BY <1>1, <1>2, <1>3 DEF StopInv, TypeOK

LEMMA CallStop ==
    ASSUME StopInv, NEW t \in Threads, NEW va \in VAs, Call(t, va), UNCHANGED serverVars
    PROVE  StopInv'
<1>1. /\ StackTypes' /\ OnlyMoves(t)
      /\ UNCHANGED <<hookVars, hitVars, event>>
      /\ tpc[t] = "run" /\ tpc'[t] \in {"run", "onhook"}
      /\ tpc'[t] = "onhook" => Entered(t)'
      /\ \A H : Matches(frames[t], rets[t], H) => Matches(frames'[t], rets'[t], H)
  BY StopTypes, CallMoves
<1>2. ThreadTypeOK'
  BY <1>1 DEF StopInv, TypeOK, ThreadTypeOK, StackTypes, FrameSet
<1>3. InHook(t)' => Entered(t)'
  BY <1>1 DEF InHook, InStub
<1>4. Matches(frames'[t], rets'[t], RealHooks)
  BY <1>1 DEF StopInv, ThreadInv, AppThreads
<1> QED
  BY <1>1, <1>2, <1>3, <1>4, MoveStop DEF OnlyMoves

LEMMA ReturnStop ==
    ASSUME StopInv, NEW t \in Threads, UNCHANGED serverVars,
           Return(t) \/ ReturnHook(t) \/ ReturnStub(t)
    PROVE  StopInv'
<1>1. t \in AppThreads /\ StackTypes /\ Matches(frames[t], rets[t], RealHooks)
  BY StopTypes DEF AppThreads, StopInv, ThreadInv
<1>2. CASE Return(t)
  <2>1. /\ StackTypes' /\ OnlyMoves(t)
        /\ UNCHANGED <<hookVars, hitVars, event, tpc, pHook, isRet>>
        /\ tpc[t] = "run" /\ Matches(frames'[t], rets'[t], RealHooks)
    BY <1>1, <1>2, ReturnMoves
  <2>2. ThreadTypeOK' /\ ~InHook(t)'
    BY <2>1 DEF StopInv, TypeOK, ThreadTypeOK, StackTypes, FrameSet, InHook, InStub
  <2> QED
    BY <2>1, <2>2, MoveStop DEF OnlyMoves
<1>3. CASE ReturnHook(t)
  <2>1. /\ StackTypes' /\ OnlyMoves(t)
        /\ UNCHANGED <<hookVars, hitVars, event>>
        /\ tpc[t] = "run" /\ tpc'[t] = "onhook" /\ Entered(t)'
        /\ Matches(frames'[t], rets'[t], RealHooks)
    BY <1>1, <1>3, ReturnHookMoves
  <2>2. ThreadTypeOK'
    BY <2>1 DEF StopInv, TypeOK, ThreadTypeOK, StackTypes, FrameSet
  <2> QED
    BY <2>1, <2>2, MoveStop DEF OnlyMoves
<1>4. CASE ReturnStub(t) /\ pHook[t] \in hooks
  <2>1. Entered(t)
    BY <1>4 DEF ReturnStub, InHook, StopInv, ThreadInv
  <2>2. /\ StackTypes' /\ OnlyMoves(t)
        /\ UNCHANGED <<hookVars, hitVars, event, pHook, isRet>>
        /\ tpc[t] = "retstub" /\ tpc'[t] = "run"
        /\ \A H : pHook[t] \in H /\ Matches(frames[t], rets[t], H) =>
                     Matches(frames'[t], rets'[t], H)
    BY <1>1, <1>4, <2>1, ReturnStubMoves
  <2>3. ThreadTypeOK' /\ ~InHook(t)'
    BY <2>2 DEF StopInv, TypeOK, ThreadTypeOK, StackTypes, FrameSet, InHook, InStub
  <2>4. Matches(frames'[t], rets'[t], RealHooks)
    BY <1>1, <1>4, <2>2 DEF StackTypes
  <2> QED
    BY <2>2, <2>3, <2>4, MoveStop DEF OnlyMoves
<1>5. CASE ReturnStub(t) /\ pHook[t] \notin hooks
  <2>1. /\ tpc[t] = "retstub" /\ UNCHANGED <<hookVars, hitVars, rets, frames, pHook, isRet, event>>
        /\ tpc' = [tpc EXCEPT ![t] = "wild"]
    BY <1>5 DEF ReturnStub
  <2>2. tpc'[t] = "wild" /\ \A s \in AppThreads : s # t => tpc'[s] = tpc[s]
    BY <1>1, <2>1 DEF StopInv, TypeOK, ThreadTypeOK
  <2>3. ThreadTypeOK'
    BY <2>1 DEF StopInv, TypeOK, ThreadTypeOK
  <2>4. ~InHook(t)'
    BY <2>2 DEF InHook, InStub
  <2> QED
    BY <1>1, <2>1, <2>2, <2>3, <2>4, MoveStop
<1> QED
  BY <1>2, <1>3, <1>4, <1>5

\* The thread that MonitorResume lets go on is the one that is stopped.
LEMMA ResumeFacts ==
    ASSUME StopInv, MonitorResume
    PROVE  /\ hookData.thread \in AppThreads
           /\ hookData.hook = NoHook => hookData.thread = InitThread /\ UNCHANGED threadVars
           /\ hookData.hook # NoHook =>
                 /\ hookData.thread \in Threads
                 /\ tpc[hookData.thread] = "spin" /\ event[hookData.thread] = "initial"
                 /\ pHook[hookData.thread] = hookData.hook
                 /\ isRet[hookData.thread] = hookData.isRet
                 /\ Entered(hookData.thread)
                 /\ hookData.hook \in RealHooks
           /\ wfh = "none" /\ hit
           /\ \A s \in AppThreads : tpc[s] \in {"arming", "spin"} => s = hookData.thread
<1>1. mon = "resume" /\ (hookData.hook = NoHook => UNCHANGED threadVars)
  BY DEF MonitorResume
<1>2. /\ hookData.thread = hitParams.thread /\ hookData.hook = hitParams.hook
      /\ hookData.isRet = hitParams.isRet /\ wfh = "none" /\ hit
  BY <1>1 DEF StopInv, HitInv, Reporting
<1>3. PICK t \in AppThreads : t = hookData.thread
  BY DEF StopInv, TypeOK, ServerTypeOK
<1>4. hookData.hook = NoHook <=> t = InitThread
  BY <1>2, <1>3 DEF StopInv, HitInv
<1>5. \A s \in AppThreads : tpc[s] \in {"arming", "spin"} => s = t
  BY <1>2, <1>3 DEF StopInv, HitInv
<1>6. ASSUME hookData.hook # NoHook
      PROVE  /\ t \in Threads /\ tpc[t] = "spin" /\ event[t] = "initial"
             /\ pHook[t] = hookData.hook /\ isRet[t] = hookData.isRet /\ Entered(t)
             /\ hookData.hook \in RealHooks
  <2>1. t \in Threads
    BY <1>3, <1>4, <1>6 DEF AppThreads
  <2>2. tpc[t] = "spin"
    BY <1>1, <1>2, <1>3, <1>6 DEF StopInv, HitInv, Reporting
  <2>3. event[t] = "initial"
    BY <1>2 DEF StopInv, HitInv, TypeOK, ThreadTypeOK
  <2>4. hitParams = [thread |-> t, hook |-> pHook[t], isRet |-> isRet[t]]
    BY <2>2 DEF StopInv, HitInv
  <2>5. Entered(t)
    BY <2>1, <2>2 DEF StopInv, ThreadInv, InHook, InStub
  <2>6. hookData.hook \in RealHooks
    BY <1>6 DEF StopInv, TypeOK, ServerTypeOK, RealHooks
  <2> QED
    BY <1>2, <2>1, <2>2, <2>3, <2>4, <2>5, <2>6
<1> QED
  BY <1>1, <1>2, <1>3, <1>4, <1>5, <1>6

LEMMA ResumeStop ==
    ASSUME StopInv, MonitorResume
    PROVE  StopInv'
<1> USE DEF hookVars, hitVars, threadVars, monitorVars, opVars, clientVars
<1>1. HitTypeOK' /\ ServerTypeOK'
  <2>1. NoData \in [thread : AppThreads, hook : Hooks, isRet : BOOLEAN, va : VAs \cup {NoVa}, tramp : Hooks]
    BY NoHookFacts DEF NoData, AppThreads
  <2>2. HitTypeOK'
    BY DEF StopInv, TypeOK, HitTypeOK, MonitorResume
  <2>3. ServerTypeOK'
    BY <2>1 DEF StopInv, TypeOK, ServerTypeOK, MonitorResume
  <2> QED
    BY <2>2, <2>3
<1>2. /\ mon' = "listen" /\ UNCHANGED <<hooks, made, hit, hitParams, hitWaiting, wfh>>
      /\ hit /\ wfh = "none"
  BY ResumeFacts DEF MonitorResume
<1>3. CASE hookData.hook = NoHook
  <2>1. UNCHANGED threadVars /\ hookData.thread = InitThread
    BY <1>3, ResumeFacts
  <2>2. ThreadTypeOK' /\ ThreadInv'
    BY <2>1 DEF StopInv, TypeOK, ThreadTypeOK, ThreadInv, InHook, Entered
  <2>3. \A s \in AppThreads : tpc[s] \notin {"arming", "spin"}
    <3>1. tpc[InitThread] # "spin" /\ tpc[InitThread] # "arming"
      BY <1>2, ThreadAssumption DEF StopInv, ThreadInv, HitInv, AppThreads
    <3> QED
      BY <2>1, <3>1, ResumeFacts
  <2>4. HitInv'
    BY <1>2, <2>1, <2>3 DEF StopInv, HitInv, Reporting
  <2> QED
    BY <1>1, <2>2, <2>4 DEF StopInv, TypeOK
<1>4. CASE hookData.hook # NoHook
  <2>1. PICK t \in Threads : t = hookData.thread
    BY <1>4, ResumeFacts
  <2>2. /\ tpc[t] = "spin" /\ pHook[t] = hookData.hook /\ Entered(t)
        /\ hookData.hook \in RealHooks
        /\ \A s \in AppThreads : tpc[s] \in {"arming", "spin"} => s = t
        /\ t \in AppThreads
    BY <1>4, <2>1, ResumeFacts
  <2>3. /\ frames \in [AppThreads -> Seq(FrameSet)] /\ frames[t] \in Seq(FrameSet)
        /\ rets \in [AppThreads -> Seq(Words)]
        /\ Matches(frames[t], rets[t], RealHooks)
    BY <2>2 DEF StopInv, TypeOK, ThreadTypeOK, FrameSet, ThreadInv
  <2>4. /\ ThreadTypeOK' /\ UNCHANGED <<rets, event>>
        /\ tpc'[t] \in {"run", "onhook", "retstub", "wild"}
        /\ \A s \in AppThreads : s # t =>
              /\ tpc'[s] = tpc[s] /\ pHook'[s] = pHook[s] /\ isRet'[s] = isRet[s]
              /\ frames'[s] = frames[s] /\ rets'[s] = rets[s]
        /\ Matches(frames'[t], rets'[t], RealHooks)
        /\ InHook(t)' => Entered(t)'
    <3>1. CASE Context(t) = "leave"
      <4>1. PICK fs : fs = Front(frames[t])
        OBVIOUS
      <4>2. /\ frames' = [frames EXCEPT ![t] = fs] /\ tpc' = [tpc EXCEPT ![t] = "run"]
            /\ UNCHANGED <<rets, pHook, isRet, event>>
        BY <1>4, <2>1, <3>1, <4>1 DEF MonitorResume
      <4>3. fs \in Seq(FrameSet) /\ Matches(fs, rets[t], RealHooks)
        BY <2>2, <2>3, <4>1, FrontFacts, MatchesLeave DEF Entered
      <4>4. frames' \in [AppThreads -> Seq(FrameSet)] /\ frames'[t] = fs /\ tpc'[t] = "run"
        BY <2>2, <2>3, <4>2, <4>3 DEF StopInv, TypeOK, ThreadTypeOK
      <4>5. ThreadTypeOK'
        BY <4>2, <4>4 DEF StopInv, TypeOK, ThreadTypeOK, FrameSet
      <4>6. \A s \in AppThreads : s # t => tpc'[s] = tpc[s] /\ frames'[s] = frames[s]
        BY <2>3, <4>2 DEF StopInv, TypeOK, ThreadTypeOK
      <4>7. ~InHook(t)'
        BY <4>4 DEF InHook, InStub
      <4> QED
        BY <4>2, <4>3, <4>4, <4>5, <4>6, <4>7
    <3>2. CASE Context(t) = "va"
      <4>1. PICK va \in VAs : va = hookData.hook.va
        BY <2>2, NoHookFacts
      <4>2. Arrive(t, va) /\ UNCHANGED <<frames, rets, event>>
        BY <1>4, <2>1, <3>2, <4>1 DEF MonitorResume
      <4>3. /\ tpc' \in [AppThreads -> InStub \cup {"run", "retstub", "done", "wild"}]
            /\ pHook' \in [AppThreads -> Hooks]
            /\ isRet' \in [AppThreads -> BOOLEAN]
            /\ tpc'[t] \in {"run", "onhook"}
            /\ tpc'[t] = "onhook" => pHook'[t] \in hooks /\ pHook'[t].va = va
            /\ \A s \in AppThreads : s # t =>
                  tpc'[s] = tpc[s] /\ pHook'[s] = pHook[s] /\ isRet'[s] = isRet[s]
        BY <4>2, ArriveFacts, StopTypes DEF StopInv
      <4>4. ThreadTypeOK'
        BY <4>2, <4>3 DEF StopInv, TypeOK, ThreadTypeOK
      <4>5. InHook(t)' => Entered(t)'
        BY <2>2, <4>1, <4>2, <4>3 DEF InHook, InStub, Entered, StopInv, TypeOK, HitTypeOK
      <4> QED
        BY <2>3, <4>2, <4>3, <4>4, <4>5
    <3>3. CASE Context(t) \notin {"leave", "va"}
      <4>1. /\ tpc' = [tpc EXCEPT ![t] = IF Context(t) = "trampoline" THEN "run" ELSE Context(t)]
            /\ UNCHANGED <<frames, rets, pHook, isRet, event>>
            /\ Context(t) \in {"retstub", "trampoline", "wild"}
        BY <1>4, <2>1, <3>3 DEF MonitorResume
      <4>2. PICK pc \in {"run", "retstub", "wild"} : tpc' = [tpc EXCEPT ![t] = pc]
        BY <4>1
      <4>3. tpc'[t] = pc /\ \A s \in AppThreads : s # t => tpc'[s] = tpc[s]
        BY <2>2, <4>2 DEF StopInv, TypeOK, ThreadTypeOK
      <4>4. ThreadTypeOK'
        BY <4>1, <4>2 DEF StopInv, TypeOK, ThreadTypeOK
      <4>5. Entered(t)'
        BY <2>2, <4>1 DEF Entered
      <4> QED
        BY <2>3, <4>1, <4>3, <4>4, <4>5
    <3> QED
      BY <3>1, <3>2, <3>3
  <2>5. ThreadInv'
    <3>1. ASSUME NEW s \in Threads, s # t, InHook(s)' PROVE Entered(s)'
      BY <2>4, <3>1 DEF StopInv, ThreadInv, InHook, Entered, AppThreads
    <3>2. \A s \in AppThreads : Matches(frames'[s], rets'[s], RealHooks)
      BY <2>4 DEF StopInv, ThreadInv
    <3>3. /\ \A s \in Threads : tpc'[s] # "done"
          /\ \A s \in AppThreads : s \notin Threads =>
               tpc'[s] \in {"onhook", "arming", "done"} /\ pHook'[s] = NoHook /\ isRet'[s] = FALSE
      BY <2>4 DEF StopInv, ThreadInv, AppThreads
    <3> QED
      BY <2>4, <3>1, <3>2, <3>3 DEF ThreadInv
  <2>6. HitInv'
    <3>1. \A s \in AppThreads : tpc'[s] \notin {"arming", "spin"}
      BY <2>2, <2>4
    <3>2. \A s \in AppThreads : event'[s] = "initial"
      BY <1>2, <2>4 DEF StopInv, HitInv, TypeOK, ThreadTypeOK
    <3> QED
      BY <1>2, <3>1, <3>2 DEF StopInv, HitInv, Reporting
  <2> QED
    BY <1>1, <2>4, <2>5, <2>6 DEF StopInv, TypeOK
<1> QED
  BY <1>3, <1>4

LEMMA NextStop == StopInv /\ [Next]_vars => StopInv'
<1> SUFFICES ASSUME StopInv, [Next]_vars PROVE StopInv'
  OBVIOUS
<1>1. CASE UNCHANGED vars
  BY <1>1, ServerStop DEF vars, serverVars, victimVars, monitorVars, opVars, clientVars, StopInv, TypeOK,
     ServerTypeOK, Reporting
<1>2. CASE \E t \in Threads, va \in VAs : Call(t, va) /\ UNCHANGED serverVars
  BY <1>2, CallStop
<1>3. CASE \E t \in Threads : (Return(t) \/ ReturnHook(t) \/ ReturnStub(t)) /\ UNCHANGED serverVars
  BY <1>3, ReturnStop
<1>4. CASE \E t \in AppThreads : /\ OnHookIgnore(t) \/ OnHookPass(t) \/ OnHookWait(t) \/ HookLLHit(t)
                                 /\ UNCHANGED serverVars
  BY <1>4, HitStop
<1>5. CASE \/ /\ \/ HitSpuriousWakeup \/ WaitForHook \/ WaitForHookAgain \/ WaitForHookHit
                 \/ WaitForHookEvent
              /\ UNCHANGED serverVars
           \/ MonitorListen \/ MonitorRead
  BY <1>5, WorkerStop
<1>6. CASE \/ MonitorListed \/ MonitorUnlisted \/ MonitorNotify \/ ProxyReady \/ InitialAnswer
           \/ HandlerAnswer \/ UnknownAnswer
           \/ \E va \in VAs : \/ BpSet(va) \/ BpClear(va) \/ ServerBpSet(va) \/ ServerList(va)
                             \/ BpDone(va)
  BY <1>6, ServerStepsStop
<1>7. CASE MonitorUnhook \/ \E va \in VAs : VictimHook(va)
  BY <1>7, PatchStop
<1>8. CASE MonitorResume
  BY <1>8, ResumeStop
<1> QED
  BY <1>1, <1>2, <1>3, <1>4, <1>5, <1>6, <1>7, <1>8 DEF Next

LEMMA AlwaysStop == Spec => []StopInv
  BY InitStop, NextStop, PTL DEF Spec

\* Victim, server and client are well typed; in particular a stub takes a hook off the return
\* stack for a hook, and a return address for a return address, however calls, breaks on return
\* and skipped functions nest (hookll.x64.asm 205-236).
THEOREM BreakpointsTypeCorrect == Spec => []TypeOK
<1>1. StopInv => TypeOK
  BY DEF StopInv
<1> QED
  BY <1>1, AlwaysStop, PTL

\* One hit at a time, for any number of threads: who is at "jmp $", or about to be, is the one
\* _hitParams tells the server about (hookhl.cpp 204-210).
THEOREM HitsAreExclusive == Spec => []HitExclusive
<1>1. StopInv => HitExclusive
  BY DEF StopInv, HitInv, HitExclusive
<1> QED
  BY <1>1, AlwaysStop, PTL

\* What the debugger engine rewrites is the context of a thread that is at "jmp $", in the
\* function of its hook and with its return address put back (slimevent.h 51-55).
THEOREM ReportsAreOfStoppedThreads == Spec => []StoppedWhenReported
<1>1. StopInv => StoppedWhenReported
  <2> SUFFICES ASSUME StopInv, Reporting, hookData.hook # NoHook
               PROVE  /\ tpc[hookData.thread] = "spin"
                      /\ event[hookData.thread] = "initial"
                      /\ pHook[hookData.thread] = hookData.hook
                      /\ isRet[hookData.thread] = hookData.isRet
                      /\ Last(frames[hookData.thread]) = [va |-> hookData.hook.va, ret |-> CallerAddr]
    BY DEF StoppedWhenReported, Reporting
  <2>1. PICK t \in AppThreads : /\ t = hookData.thread /\ t = hitParams.thread
                                /\ hookData.hook = hitParams.hook /\ hookData.isRet = hitParams.isRet
    BY DEF StopInv, TypeOK, HitTypeOK, HitInv
  <2>2. tpc[t] = "spin" /\ t \in Threads
    BY <2>1 DEF StopInv, HitInv, AppThreads
  <2>3. event[t] = "initial"
    BY DEF StopInv, HitInv, TypeOK, ThreadTypeOK, Reporting
  <2>4. pHook[t] = hookData.hook /\ isRet[t] = hookData.isRet
    BY <2>1, <2>2 DEF StopInv, HitInv
  <2>5. Last(frames[t]) = [va |-> pHook[t].va, ret |-> CallerAddr]
    BY <2>2 DEF StopInv, ThreadInv, InHook, InStub, Entered
  <2> QED
    BY <2>1, <2>2, <2>3, <2>4, <2>5
<1> QED
  BY <1>1, AlwaysStop, PTL

----------------------------------------------------------------------------
(* The tables of victim and server, and what the monitor knows.            *)

\* A thread's or the worker's step leaves hooks, server and client alone.
LEMMA StepKinds ==
    ASSUME [Next]_vars
    PROVE  \/ UNCHANGED <<hookVars, serverVars>>
           \/ MonitorListen \/ MonitorRead \/ MonitorListed \/ MonitorUnlisted \/ MonitorUnhook
           \/ MonitorNotify \/ MonitorResume \/ ProxyReady \/ InitialAnswer \/ HandlerAnswer
           \/ UnknownAnswer
           \/ \E va \in VAs : \/ BpSet(va) \/ BpClear(va) \/ ServerBpSet(va) \/ VictimHook(va)
                             \/ ServerList(va) \/ BpDone(va)
<1>1. CASE UNCHANGED vars
  BY <1>1 DEF vars, victimVars
<1>2. ASSUME NEW t \in AppThreads,
             \/ \E va \in VAs : Call(t, va)
             \/ Return(t) \/ ReturnHook(t) \/ ReturnStub(t)
             \/ OnHookIgnore(t) \/ OnHookPass(t) \/ OnHookWait(t) \/ HookLLHit(t)
             \/ HitSpuriousWakeup \/ WaitForHook \/ WaitForHookAgain \/ WaitForHookHit
             \/ WaitForHookEvent
      PROVE  UNCHANGED hookVars
  BY <1>2 DEF Call, Return, ReturnHook, ReturnStub, OnHookIgnore, OnHookPass, OnHookWait, HookLLHit,
     HitSpuriousWakeup, WaitForHook, WaitForHookAgain, WaitForHookHit, WaitForHookEvent
<1>3. InitThread \in AppThreads /\ Threads \subseteq AppThreads
  BY DEF AppThreads
<1> QED
  BY <1>1, <1>2, <1>3 DEF Next

LEMMA InitTable == Init => TableInv /\ DataInv
<1> SUFFICES ASSUME Init PROVE TableInv /\ DataInv
  OBVIOUS
<1>1. hooks \in {{}, {InitialHook}} /\ serverHooks = {} /\ op = [va \in VAs |-> "idle"]
  BY DEF Init, VictimInit
<1>2. TableInv
  BY <1>1, AddressAssumption DEF TableInv
<1>3. DataInv
  BY DEF Init, DataInv, Reporting
<1> QED
  BY <1>2, <1>3

LEMMA NextTable == StopInv /\ TableInv /\ [Next]_vars => TableInv'
<1> SUFFICES ASSUME StopInv, TableInv, [Next]_vars PROVE TableInv'
  OBVIOUS
<1> USE DEF victimVars, hookVars, monitorVars, opVars, clientVars, serverVars
<1>0. op \in [VAs -> {"idle", "sent", "hook", "list", "ok", "failed"}] /\ made \in Nat
      /\ \A h \in hooks : h.va \in VAs
  BY NoHookFacts DEF StopInv, TypeOK, ServerTypeOK, HitTypeOK, RealHooks
<1>1. CASE UNCHANGED <<hooks, serverHooks, op>>
  BY <1>1 DEF TableInv
<1>2. CASE MonitorUnhook
  BY <1>2 DEF TableInv, MonitorUnhook, Unhook
<1>3. ASSUME NEW va \in VAs, BpSet(va) \/ BpClear(va) \/ ServerBpSet(va) \/ BpDone(va)
      PROVE  TableInv'
  <2>1. PICK st \in {"sent", "hook", "idle"} : op' = [op EXCEPT ![va] = st]
    BY <1>3 DEF BpSet, BpClear, ServerBpSet, BpDone
  <2>2. UNCHANGED <<hooks, serverHooks>> /\ op[va] # "list"
    BY <1>3 DEF BpSet, BpClear, ServerBpSet, BpDone
  <2> QED
    BY <1>0, <2>1, <2>2, AddressAssumption DEF TableInv
<1>4. ASSUME NEW va \in VAs, VictimHook(va) PROVE TableInv'
  <2>1. CASE Hooked(va)
    <3>1. UNCHANGED <<hooks, serverHooks>> /\ op' = [op EXCEPT ![va] = "failed"] /\ op[va] = "hook"
      BY <1>4, <2>1 DEF VictimHook
    <3> QED
      BY <1>0, <3>1, AddressAssumption DEF TableInv
  <2>2. CASE ~Hooked(va)
    <3>1. PICK h : h = [va |-> va, n |-> made + 1]
      OBVIOUS
    <3>2. /\ hooks' = hooks \cup {h} /\ serverHooks' = serverHooks
          /\ op' = [op EXCEPT ![va] = "list"] /\ h.va = va /\ h # InitialHook
          /\ \A g \in hooks : g.va # va
      BY <1>0, <1>4, <2>2, <3>1 DEF VictimHook, Hook, Hooked, InitialHook
    <3> QED
      BY <1>0, <3>2, AddressAssumption DEF TableInv, InitialHook
  <2> QED
    BY <2>1, <2>2
<1>5. ASSUME NEW va \in VAs, ServerList(va) PROVE TableInv'
  <2>1. hooks' = hooks /\ serverHooks' = serverHooks \cup {va} /\ op' = [op EXCEPT ![va] = "ok"]
        /\ op[va] = "list"
    BY <1>5 DEF ServerList, Listed
  <2> QED
    BY <1>0, <2>1, AddressAssumption DEF TableInv
<1>6. CASE \/ MonitorListen \/ MonitorRead \/ MonitorListed \/ MonitorUnlisted
           \/ MonitorNotify \/ MonitorResume \/ ProxyReady \/ InitialAnswer \/ HandlerAnswer
           \/ UnknownAnswer
  BY <1>1, <1>6 DEF MonitorListen, MonitorRead, MonitorListed, MonitorUnlisted, MonitorNotify,
     MonitorResume, ProxyReady, InitialAnswer, HandlerAnswer, UnknownAnswer
<1>7. CASE UNCHANGED <<hookVars, serverVars>>
  BY <1>1, <1>7
<1> QED
  BY <1>2, <1>3, <1>4, <1>5, <1>6, <1>7, StepKinds

LEMMA NextData == StopInv /\ DataInv /\ [Next]_vars => DataInv'
<1> SUFFICES ASSUME StopInv, DataInv, [Next]_vars PROVE DataInv'
  OBVIOUS
<1> USE DEF victimVars, hookVars, monitorVars, opVars, clientVars, serverVars
<1>1. CASE /\ UNCHANGED <<mon, hookData, action>>
           /\ hooks \subseteq hooks' /\ serverHooks \subseteq serverHooks'
  BY <1>1 DEF DataInv, Reporting
<1>2. ASSUME NEW va \in VAs,
             BpSet(va) \/ BpClear(va) \/ ServerBpSet(va) \/ VictimHook(va) \/ ServerList(va) \/ BpDone(va)
      PROVE  DataInv'
  BY <1>1, <1>2 DEF BpSet, BpClear, ServerBpSet, VictimHook, Hook, ServerList, Listed, BpDone
<1>3. CASE ProxyReady \/ UNCHANGED <<hookVars, serverVars>>
  BY <1>1, <1>3 DEF ProxyReady
<1>4. CASE MonitorListen
  BY <1>4 DEF DataInv, Reporting, MonitorListen
<1>5. CASE MonitorRead
  <2>1. PICK h \in Hooks : h = hitParams.hook
    BY DEF StopInv, TypeOK, HitTypeOK
  <2>2. /\ hookData' = [thread |-> hitParams.thread, hook |-> h, isRet |-> hitParams.isRet,
                        va |-> h.va, tramp |-> h]
        /\ mon' = CASE h = NoHook -> "notify"
                    [] h \in hooks -> "check"
                    [] OTHER -> "misread"
        /\ UNCHANGED <<hooks, action, serverHooks>> /\ mon = "wait"
    BY <1>5, <2>1 DEF MonitorRead
  <2>3. /\ hookData'.hook = h /\ hookData'.va = h.va /\ hookData'.tramp = h
        /\ \/ mon' = "notify" /\ h = NoHook
           \/ mon' = "check" /\ h \in hooks /\ h # NoHook
           \/ mon' = "misread"
    <3>1. NoHook \notin hooks
      BY DEF StopInv, TypeOK, HitTypeOK
    <3> QED
      BY <2>2, <3>1
  <2>4. h.va = NoVa <=> h = NoHook
    BY NoHookFacts
  <2> QED
    BY <2>2, <2>3, <2>4 DEF DataInv, Reporting
<1>6. CASE MonitorListed
  BY <1>6 DEF DataInv, Reporting, MonitorListed, Unlisted
<1>7. CASE MonitorUnlisted
  BY <1>7 DEF DataInv, Reporting, MonitorUnlisted
<1>8. CASE MonitorUnhook
  <2>1. /\ hookData'.va = NoVa /\ hookData'.tramp = NoHook /\ hookData'.hook = hookData.hook
        /\ mon = "unhook" /\ mon' = "notify" /\ UNCHANGED action
    BY <1>8 DEF MonitorUnhook, InitialData, StopInv, TypeOK, ServerTypeOK
  <2> QED
    BY <2>1 DEF DataInv, Reporting
<1>9. CASE MonitorNotify
  BY <1>9 DEF DataInv, Reporting, MonitorNotify
<1>10. CASE MonitorResume
  BY <1>10 DEF DataInv, Reporting, MonitorResume
<1>11. CASE InitialAnswer
  BY <1>11 DEF DataInv, Reporting, InitialAnswer
<1>12. CASE HandlerAnswer
  BY <1>12 DEF DataInv, Reporting, HandlerAnswer
<1>13. CASE UnknownAnswer
  BY <1>13 DEF DataInv, Reporting, UnknownAnswer
<1> QED
  BY <1>2, <1>3, <1>4, <1>5, <1>6, <1>7, <1>8, <1>9, <1>10, <1>11, <1>12, <1>13, StepKinds

LEMMA AlwaysTable == Spec => [](StopInv /\ TableInv /\ DataInv)
  BY InitStop, NextStop, InitTable, NextTable, NextData, PTL DEF Spec

----------------------------------------------------------------------------
(* Breakpoints are set during the initial break and in handlers.           *)

LEMMA InitQuiet == Init => QuietInv /\ HeldInv /\ ListedAreHooked /\ ClientInv
<1> SUFFICES ASSUME Init PROVE QuietInv /\ HeldInv /\ ListedAreHooked /\ ClientInv
  OBVIOUS
<1>1. QuietInv
  BY DEF Init, QuietInv, Reporting, GratuitousIsInitial
<1>2. ListedAreHooked /\ ClientInv
  BY DEF Init, ListedAreHooked, ClientInv
<1>3. HeldInv
  <2>1. NoWildThread
    BY DEF Init, VictimInit, NoWildThread
  <2>2. \A t \in Threads : InHook(t) => t = Main /\ pHook[t] = InitialHook /\ pHook[t] \in hooks
                                        /\ tpc[t] = "onhook"
    BY ThreadAssumption DEF Init, VictimInit, InHook, InStub, AppThreads
  <2>3. \A t \in AppThreads : Matches(frames[t], rets[t], hooks \ {InitialHook})
    <3>1. PICK e \in FrameSet : e = [va |-> EntryPoint, ret |-> CallerAddr]
      BY FrameFacts, AddressAssumption
    <3>2. \/ frames = [t \in AppThreads |-> IF t = Main THEN <<e>> ELSE <<>>]
          \/ frames = [t \in AppThreads |-> <<>>]
      BY <3>1 DEF Init, VictimInit
    <3>3. /\ <<>> \in Seq(FrameSet) /\ <<e>> \in Seq(FrameSet)
          /\ Len(<<>>) = 0 /\ Len(<<e>>) = 1 /\ <<e>>[1] = e
      OBVIOUS
    <3>4. ASSUME NEW t \in AppThreads PROVE Matches(frames[t], rets[t], hooks \ {InitialHook})
      <4>1. rets[t] = <<>>
        BY DEF Init, VictimInit
      <4>2. frames[t] \in Seq(FrameSet) /\ \A i \in 1 .. Len(frames[t]) : frames[t][i].ret = CallerAddr
        <5>1. frames[t] \in {<<>>, <<e>>} /\ e.ret = CallerAddr
          BY <3>1, <3>2
        <5>2. CASE frames[t] = <<>>
          BY <3>3, <5>2
        <5>3. CASE frames[t] = <<e>>
          BY <3>3, <5>1, <5>3
        <5> QED
          BY <5>1, <5>2, <5>3
      <4> QED
        BY <4>1, <4>2, MatchesEmpty
    <3> QED
      BY <3>4
  <2> QED
    BY <2>1, <2>2, <2>3 DEF HeldInv, InHook
<1> QED
  BY <1>1, <1>2, <1>3

LEMMA NextQuiet ==
    ~LateBpSet /\ StopInv /\ TableInv /\ DataInv /\ QuietInv /\ [Next]_vars => QuietInv'
<1> SUFFICES ASSUME ~LateBpSet, StopInv, TableInv, DataInv, QuietInv, [Next]_vars PROVE QuietInv'
  OBVIOUS
<1> USE DEF victimVars, hookVars, monitorVars, opVars, clientVars, serverVars
<1>0. op \in [VAs -> {"idle", "sent", "hook", "list", "ok", "failed"}] /\ made \in Nat
      /\ NoHook \notin hooks
  BY DEF StopInv, TypeOK, ServerTypeOK, HitTypeOK
<1>1. CASE UNCHANGED <<hookVars, serverVars>>
  BY <1>1 DEF QuietInv, Reporting, GratuitousIsInitial
<1>2. CASE MonitorListen
  BY <1>2 DEF QuietInv, Reporting, GratuitousIsInitial, MonitorListen
<1>3. CASE MonitorRead
  <2>1. PICK h \in Hooks : h = hitParams.hook
    BY DEF StopInv, TypeOK, HitTypeOK
  <2>2. /\ hookData' = [thread |-> hitParams.thread, hook |-> h, isRet |-> hitParams.isRet,
                        va |-> h.va, tramp |-> h]
        /\ mon' = CASE h = NoHook -> "notify"
                    [] h \in hooks -> "check"
                    [] OTHER -> "misread"
        /\ UNCHANGED <<hooks, gratuitous, op, bps, readyEvt>> /\ mon = "wait"
    BY <1>3, <2>1 DEF MonitorRead
  <2>3. /\ hookData'.hook = h /\ hookData'.va = h.va
        /\ \/ mon' = "notify" /\ h = NoHook
           \/ mon' = "check" /\ h \in hooks /\ h # NoHook
           \/ mon' = "misread"
    BY <1>0, <2>2
  <2>4. h.va = NoVa <=> h = NoHook
    BY NoHookFacts
  <2> QED
    BY <2>2, <2>3, <2>4 DEF QuietInv, Reporting, GratuitousIsInitial
<1>4. CASE MonitorListed
  <2>1. hookData.hook \in hooks /\ hookData.va = hookData.hook.va /\ hookData.va \in serverHooks
    BY <1>4 DEF DataInv, MonitorListed, Unlisted
  <2>2. hookData.hook # InitialHook
    BY <2>1 DEF TableInv, InitialHook
  <2>3. hookData.va # NoVa
    BY <2>1, NoHookFacts DEF StopInv, TypeOK, HitTypeOK, RealHooks
  <2> QED
    BY <1>4, <2>1, <2>2, <2>3 DEF QuietInv, Reporting, GratuitousIsInitial, MonitorListed
<1>5. CASE MonitorUnlisted
  <2>1. /\ hookData.hook \in hooks /\ hookData.va = hookData.hook.va /\ hookData.va \notin serverHooks
        /\ mon = "check"
    BY <1>5 DEF DataInv, MonitorUnlisted, Unlisted
  <2>2. hookData.va \in VAs
    BY <2>1, NoHookFacts DEF StopInv, TypeOK, HitTypeOK, RealHooks
  <2>3. op[hookData.va] = "idle"
    BY <2>1, <2>2 DEF QuietInv
  <2>4. hookData.hook = InitialHook
    BY <2>1, <2>3 DEF TableInv
  <2> QED
    BY <1>5, <2>1, <2>4 DEF QuietInv, Reporting, GratuitousIsInitial, MonitorUnlisted
<1>6. CASE MonitorUnhook
  <2>1. hookData.hook = InitialHook /\ hookData.va = EntryPoint /\ mon = "unhook"
    BY <1>6 DEF QuietInv, DataInv, MonitorUnhook, InitialHook
  <2>2. hooks' = {h \in hooks : h.va # EntryPoint}
    BY <1>6, <2>1 DEF MonitorUnhook, Unhook
  <2>3. /\ hookData'.va = NoVa /\ hookData'.hook = hookData.hook
        /\ mon' = "notify" /\ UNCHANGED <<gratuitous, op, bps, readyEvt>>
    BY <1>6 DEF MonitorUnhook, InitialData, StopInv, TypeOK, ServerTypeOK
  <2> QED
    BY <2>1, <2>2, <2>3 DEF QuietInv, Reporting, GratuitousIsInitial, InitialHook
<1>7. CASE MonitorNotify
  <2>1. hookData.va # NoVa => hookData.va \in VAs /\ op[hookData.va] = "idle"
    BY <1>7 DEF QuietInv, MonitorNotify, StopInv, TypeOK, ServerTypeOK
  <2>2. /\ mon = "notify" /\ mon' = IF hookData.va = NoVa THEN "initial" ELSE "handler"
        /\ UNCHANGED <<hooks, hookData, gratuitous, op, bps, readyEvt>>
    BY <1>7 DEF MonitorNotify
  <2>3. \A va \in VAs : op[va] = "idle"
    BY <2>2 DEF QuietInv
  <2> QED
    BY <2>1, <2>2, <2>3 DEF QuietInv, Reporting, GratuitousIsInitial
<1>8. CASE MonitorResume
  BY <1>8 DEF QuietInv, Reporting, GratuitousIsInitial, MonitorResume
<1>9. CASE ProxyReady
  BY <1>9 DEF QuietInv, Reporting, GratuitousIsInitial, ProxyReady
<1>10. CASE InitialAnswer
  <2>1. /\ mon = "initial" /\ mon' = "resume" /\ readyEvt /\ hookData.va = NoVa
        /\ UNCHANGED <<hooks, hookData, gratuitous, op, bps, readyEvt>>
    BY <1>10 DEF DataInv, InitialAnswer
  <2> QED
    BY <2>1 DEF QuietInv, Reporting, GratuitousIsInitial
<1>11. CASE HandlerAnswer
  BY <1>11 DEF QuietInv, Reporting, GratuitousIsInitial, HandlerAnswer, OpsDone
<1>12. CASE UnknownAnswer
  BY <1>12 DEF QuietInv, Reporting, GratuitousIsInitial, UnknownAnswer
<1>13. ASSUME NEW va \in VAs, BpSet(va) \/ BpClear(va) PROVE QuietInv'
  <2>1. /\ op' = [op EXCEPT ![va] = "sent"] /\ bps \subseteq bps'
        /\ UNCHANGED <<hooks, mon, hookData, gratuitous, readyEvt>> /\ UserMayAct
    BY <1>13 DEF BpSet, BpsBeforeCall, BpClear
  <2>2. (mon = "initial" /\ ~readyEvt) \/ (mon = "handler" /\ hookData.va \in bps)
    BY <2>1 DEF UserMayAct
  <2> QED
    BY <1>0, <2>1, <2>2 DEF QuietInv, Reporting, GratuitousIsInitial
<1>14. ASSUME NEW va \in VAs, ServerBpSet(va) PROVE QuietInv'
  <2>1. op' = [op EXCEPT ![va] = "hook"] /\ op[va] = "sent"
        /\ UNCHANGED <<hooks, mon, hookData, gratuitous, readyEvt, bps>>
    BY <1>14 DEF ServerBpSet
  <2> QED
    BY <1>0, <2>1 DEF QuietInv, Reporting, GratuitousIsInitial
<1>15. ASSUME NEW va \in VAs, VictimHook(va) PROVE QuietInv'
  <2>1. PICK st \in {"failed", "list"} : op' = [op EXCEPT ![va] = st] /\ (st = "list" => ~Hooked(va))
    BY <1>15 DEF VictimHook
  <2>2. /\ hooks \subseteq hooks' /\ (InitialHook \in hooks' => InitialHook \in hooks) /\ op[va] = "hook"
        /\ UNCHANGED <<mon, hookData, gratuitous, readyEvt, bps>>
    BY <1>0, <1>15 DEF VictimHook, Hook, InitialHook
  <2>3. mon = "handler" /\ va = hookData.va => Hooked(va)
    BY DEF QuietInv, DataInv, Hooked, Reporting
  <2>4. mon = "handler" => op'[hookData.va] \notin {"list", "ok"}
    <3>1. mon = "handler" => hookData.va \in VAs
      BY DEF DataInv, StopInv, TypeOK, ServerTypeOK
    <3> QED
      BY <1>0, <2>1, <2>3, <3>1 DEF QuietInv
  <2>5. \A v \in VAs : op'[v] # "idle" => op[v] # "idle"
    BY <1>0, <2>1, <2>2
  <2> QED
    BY <2>2, <2>4, <2>5 DEF QuietInv, Reporting, GratuitousIsInitial
<1>16. ASSUME NEW va \in VAs, ServerList(va) PROVE QuietInv'
  <2>1. op' = [op EXCEPT ![va] = "ok"] /\ op[va] = "list"
        /\ UNCHANGED <<hooks, mon, hookData, gratuitous, readyEvt, bps>>
    BY <1>16 DEF ServerList
  <2> QED
    BY <1>0, <2>1 DEF QuietInv, Reporting, GratuitousIsInitial
<1>17. ASSUME NEW va \in VAs, BpDone(va) PROVE QuietInv'
  <2>1. /\ op' = [op EXCEPT ![va] = "idle"] /\ op[va] \in {"ok", "failed"}
        /\ bps \ {va} \subseteq bps' /\ (op[va] # "ok" => bps' = bps)
        /\ UNCHANGED <<hooks, mon, hookData, gratuitous, readyEvt>>
    BY <1>17 DEF BpDone
  <2>2. mon = "handler" /\ hookData.va \in bps => hookData.va \in bps'
    BY <2>1 DEF QuietInv
  <2> QED
    BY <1>0, <2>1, <2>2 DEF QuietInv, Reporting, GratuitousIsInitial
<1> QED
  BY <1>1, <1>2, <1>3, <1>4, <1>5, <1>6, <1>7, <1>8, <1>9, <1>10, <1>11, <1>12, <1>13, <1>14, <1>15,
     <1>16, <1>17, StepKinds

\* A thread in a hook that the monitor has not stopped finds its hook and trampoline.
LEMMA HeldHookExists ==
    ASSUME StopInv, HeldInv, NEW t \in Threads, InHook(t), tpc[t] # "spin" \/ ~Reporting
    PROVE  pHook[t] \in hooks
<1>1. SUFFICES ASSUME Reporting, hookData.thread = t, tpc[t] # "spin" PROVE FALSE
  BY DEF HeldInv
<1>2. hitParams.thread = t /\ (hitParams.hook # NoHook => tpc[t] = "spin")
  BY <1>1 DEF StopInv, HitInv
<1>3. t # InitThread
  BY ThreadAssumption
<1> QED
  BY <1>1, <1>2, <1>3 DEF StopInv, HitInv

\* One thread moves, and does not get into a hook that does not exist.
LEMMA MoveHeld ==
    ASSUME StopInv, HeldInv, NEW t \in Threads, UNCHANGED hooks,
           \A s \in AppThreads : s # t =>
              /\ tpc'[s] = tpc[s] /\ pHook'[s] = pHook[s]
              /\ frames'[s] = frames[s] /\ rets'[s] = rets[s],
           mon' # "misread", tpc'[t] # "wild",
           InHook(t)' => pHook'[t] \in hooks /\ (pHook'[t] = InitialHook => t = Main),
           tpc'[t] = "retstub" => pHook'[t] # InitialHook,
           Matches(frames'[t], rets'[t], hooks \ {InitialHook}),
           UNCHANGED <<mon, hookData>> \/ (Reporting /\ hookData.thread = t)
    PROVE  HeldInv'
<1>1. \A s \in AppThreads : Matches(frames'[s], rets'[s], hooks' \ {InitialHook})
  BY DEF HeldInv
<1>2. NoWildThread'
  BY DEF HeldInv, NoWildThread
<1>3. ASSUME NEW s \in Threads, s # t, InHook(s)'
      PROVE  /\ pHook'[s] \notin hooks' => (Reporting /\ hookData.thread = s /\ hookData.va = NoVa)'
             /\ pHook'[s] = InitialHook => s = Main
             /\ tpc'[s] = "retstub" => pHook'[s] # InitialHook
  BY <1>3 DEF HeldInv, InHook, AppThreads, Reporting
<1>4. /\ \A s \in Threads : InHook(s)' /\ pHook'[s] \notin hooks' =>
              (Reporting /\ hookData.thread = s /\ hookData.va = NoVa)'
      /\ \A s \in Threads : InHook(s)' /\ pHook'[s] = InitialHook => s = Main
      /\ \A s \in Threads : tpc'[s] = "retstub" => pHook'[s] # InitialHook
  BY <1>3 DEF InHook
<1> QED
  BY <1>1, <1>2, <1>4 DEF HeldInv

LEMMA ThreadsHeld ==
    ASSUME StopInv, HeldInv, NEW t \in Threads, UNCHANGED serverVars,
           \/ \E va \in VAs : Call(t, va)
           \/ Return(t) \/ ReturnHook(t) \/ ReturnStub(t)
    PROVE  HeldInv'
<1> USE DEF hookVars, hitVars, serverVars, monitorVars, OnlyMoves
<1>1. /\ t \in AppThreads /\ StackTypes
      /\ Matches(frames[t], rets[t], hooks \ {InitialHook}) /\ hooks \ {InitialHook} \subseteq RealHooks
      /\ mon # "misread"
  BY StopTypes DEF AppThreads, HeldInv, NoWildThread, StackTypes
<1>2. ASSUME NEW va \in VAs, Call(t, va) PROVE HeldInv'
  <2>1. /\ OnlyMoves(t) /\ UNCHANGED hooks /\ va # EntryPoint
        /\ tpc'[t] \in {"run", "onhook"}
        /\ tpc'[t] = "onhook" => pHook'[t] \in hooks /\ pHook'[t].va = va
        /\ Matches(frames'[t], rets'[t], hooks \ {InitialHook})
    BY <1>1, <1>2, CallMoves
  <2>2. InHook(t)' => pHook'[t] \in hooks /\ pHook'[t] # InitialHook
    BY <2>1 DEF InHook, InStub, InitialHook
  <2> QED
    BY <1>1, <2>1, <2>2, MoveHeld
<1>3. CASE Return(t)
  <2>1. /\ OnlyMoves(t) /\ UNCHANGED <<hooks, tpc>> /\ tpc[t] = "run"
        /\ Matches(frames'[t], rets'[t], hooks \ {InitialHook})
    BY <1>1, <1>3, ReturnMoves
  <2>2. ~InHook(t)'
    BY <2>1 DEF InHook, InStub
  <2> QED
    BY <1>1, <2>1, <2>2, MoveHeld
<1>4. CASE ReturnHook(t)
  <2>1. PICK G : G = hooks \ {InitialHook}
    OBVIOUS
  <2>2. /\ OnlyMoves(t) /\ UNCHANGED hooks /\ tpc'[t] = "onhook"
        /\ pHook'[t] \in G /\ Matches(frames'[t], rets'[t], G)
    BY <1>1, <1>4, <2>1, ReturnHookMoves
  <2> QED
    BY <1>1, <2>1, <2>2, MoveHeld
<1>5. CASE ReturnStub(t)
  <2>1. tpc[t] = "retstub" /\ pHook[t] \in hooks /\ pHook[t] # InitialHook /\ Entered(t)
    <3>1. tpc[t] = "retstub" /\ InHook(t)
      BY <1>5 DEF ReturnStub, InHook
    <3> QED
      BY <3>1, HeldHookExists DEF HeldInv, StopInv, ThreadInv
  <2>2. /\ OnlyMoves(t) /\ UNCHANGED hooks /\ tpc'[t] = "run"
        /\ \A H : pHook[t] \in H /\ Matches(frames[t], rets[t], H) =>
                     Matches(frames'[t], rets'[t], H)
    BY <1>1, <1>5, <2>1, ReturnStubMoves
  <2>3. Matches(frames'[t], rets'[t], hooks \ {InitialHook})
    BY <1>1, <2>1, <2>2
  <2>4. ~InHook(t)'
    BY <2>2 DEF InHook, InStub
  <2> QED
    BY <1>1, <2>2, <2>3, <2>4, MoveHeld
<1> QED
  BY <1>2, <1>3, <1>4, <1>5

LEMMA HitHeld ==
    ASSUME StopInv, HeldInv, NEW t \in AppThreads, UNCHANGED serverVars,
           OnHookIgnore(t) \/ OnHookPass(t) \/ OnHookWait(t) \/ HookLLHit(t)
    PROVE  HeldInv'
<1> USE DEF hookVars, threadVars, hitVars, serverVars, monitorVars
<1>1. UNCHANGED <<hooks, frames, rets, pHook, mon, hookData>>
  BY DEF OnHookIgnore, OnHookPass, OnHookWait, HookLLHit
<1>2. \A s \in AppThreads : s # t => tpc'[s] = tpc[s]
  BY DEF OnHookIgnore, OnHookPass, OnHookWait, HookLLHit, StopInv, TypeOK, ThreadTypeOK
<1>3. tpc[t] \in {"onhook", "arming"} /\ tpc'[t] \notin {"wild", "retstub"}
  <2>1. CASE OnHookIgnore(t)
    <3>1. t \in Threads /\ tpc[t] = "onhook"
      BY <2>1, ThreadAssumption DEF OnHookIgnore, IgnoredThread
    <3>2. pHook[t] \in hooks
      BY <3>1, HeldHookExists DEF InHook, InStub
    <3> QED
      BY <2>1, <3>1, <3>2 DEF OnHookIgnore, StopInv, TypeOK, ThreadTypeOK
  <2>2. CASE OnHookPass(t) \/ OnHookWait(t) \/ HookLLHit(t)
    BY <2>2 DEF OnHookPass, OnHookWait, HookLLHit, StopInv, TypeOK, ThreadTypeOK
  <2> QED
    BY <2>1, <2>2
<1>4. NoWildThread'
  BY <1>1, <1>2, <1>3 DEF HeldInv, NoWildThread
<1>5. \A s \in Threads : /\ InHook(s)' => InHook(s)
                         /\ tpc'[s] = "retstub" => tpc[s] = "retstub"
  BY <1>2, <1>3 DEF InHook, InStub, AppThreads
<1> QED
  BY <1>1, <1>4, <1>5 DEF HeldInv, Reporting

LEMMA ResumeHeld ==
    ASSUME StopInv, DataInv, QuietInv, HeldInv, MonitorResume
    PROVE  HeldInv'
<1> USE DEF hookVars, hitVars, threadVars, monitorVars, opVars, clientVars
<1>1. mon = "resume" /\ mon' = "listen" /\ UNCHANGED hooks
  BY DEF MonitorResume
<1>2. CASE hookData.hook = NoHook
  <2>1. UNCHANGED threadVars /\ hookData.thread = InitThread
    BY <1>2, ResumeFacts
  <2>2. \A s \in Threads : InHook(s) => pHook[s] \in hooks
    BY <2>1, ThreadAssumption DEF HeldInv
  <2> QED
    BY <1>1, <2>1, <2>2 DEF HeldInv, NoWildThread, InHook
<1>3. CASE hookData.hook # NoHook
  <2>1. PICK t \in Threads : t = hookData.thread
    BY <1>3, ResumeFacts
  <2>2. /\ tpc[t] = "spin" /\ event[t] = "initial" /\ pHook[t] = hookData.hook /\ Entered(t)
        /\ hookData.hook \in RealHooks /\ t \in AppThreads /\ Reporting
    BY <1>1, <1>3, <2>1, ResumeFacts DEF AppThreads, Reporting
  <2>3. /\ frames \in [AppThreads -> Seq(FrameSet)] /\ frames[t] \in Seq(FrameSet)
        /\ rets \in [AppThreads -> Seq(Words)]
        /\ Matches(frames[t], rets[t], hooks \ {InitialHook})
    BY <2>2 DEF StopInv, TypeOK, ThreadTypeOK, FrameSet, HeldInv
  <2>4. action \in {"Go", "Skip", "BreakOnReturn"}
    BY <1>1 DEF DataInv, StopInv, TypeOK, ServerTypeOK
  <2>5. hookData.tramp # NoHook => hookData.va # NoVa /\ hookData.tramp \in hooks
    BY <2>2 DEF DataInv, QuietInv
  <2>6. hookData.tramp = NoHook => InitialHook \notin hooks
    BY <1>3, <2>2 DEF DataInv, QuietInv
  <2>7. action = "BreakOnReturn" => hookData.hook \in hooks /\ hookData.hook # InitialHook
    BY <1>1, <2>2 DEF DataInv, QuietInv
  <2>8. /\ Context(t) \in {"leave", "retstub", "va", "trampoline"}
        /\ Context(t) = "retstub" => action = "BreakOnReturn"
        /\ Context(t) = "va" => hookData.tramp = NoHook
    BY <2>2, <2>4, <2>5 DEF Context
  <2>9. CASE Context(t) = "leave"
    <3>1. PICK fs : fs = Front(frames[t])
      OBVIOUS
    <3>2. /\ frames' = [frames EXCEPT ![t] = fs] /\ tpc' = [tpc EXCEPT ![t] = "run"]
          /\ UNCHANGED <<rets, pHook>>
      BY <1>3, <2>1, <2>9, <3>1 DEF MonitorResume
    <3>3. Matches(fs, rets[t], hooks \ {InitialHook})
      BY <2>2, <2>3, <3>1, MatchesLeave DEF Entered
    <3>4. frames'[t] = fs /\ tpc'[t] = "run"
      BY <2>2, <2>3, <3>2 DEF StopInv, TypeOK, ThreadTypeOK
    <3>5. \A s \in AppThreads : s # t => tpc'[s] = tpc[s] /\ frames'[s] = frames[s]
      BY <2>3, <3>2 DEF StopInv, TypeOK, ThreadTypeOK
    <3>6. ~InHook(t)'
      BY <3>4 DEF InHook, InStub
    <3> QED
      BY <1>1, <2>1, <2>2, <3>2, <3>3, <3>4, <3>5, <3>6, MoveHeld
  <2>10. CASE Context(t) = "va"
    <3>1. PICK va \in VAs : va = hookData.hook.va
      BY <2>2, NoHookFacts
    <3>2. Arrive(t, va) /\ UNCHANGED <<frames, rets, event>>
      BY <1>3, <2>1, <2>10, <3>1 DEF MonitorResume
    <3>3. /\ tpc'[t] \in {"run", "onhook"}
          /\ tpc'[t] = "onhook" => pHook'[t] \in hooks
          /\ \A s \in AppThreads : s # t => tpc'[s] = tpc[s] /\ pHook'[s] = pHook[s]
      BY <3>2, ArriveFacts, StopTypes DEF StopInv
    <3>4. InHook(t)' => pHook'[t] \in hooks /\ pHook'[t] # InitialHook
      BY <2>6, <2>8, <2>10, <3>3 DEF InHook, InStub
    <3> QED
      BY <1>1, <2>1, <2>2, <2>3, <3>2, <3>3, <3>4, MoveHeld
  <2>11. CASE Context(t) \in {"retstub", "trampoline"}
    <3>1. PICK pc \in {"run", "retstub"} : /\ tpc' = [tpc EXCEPT ![t] = pc]
                                           /\ pc = "retstub" => Context(t) = "retstub"
      BY <1>3, <2>1, <2>11 DEF MonitorResume
    <3>2. UNCHANGED <<frames, rets, pHook>>
      BY <1>3, <2>1, <2>11 DEF MonitorResume
    <3>3. tpc'[t] = pc /\ \A s \in AppThreads : s # t => tpc'[s] = tpc[s]
      BY <2>2, <3>1 DEF StopInv, TypeOK, ThreadTypeOK
    <3>4. InHook(t)' => pHook'[t] \in hooks /\ pHook'[t] # InitialHook
      BY <2>2, <2>7, <2>8, <3>1, <3>2, <3>3 DEF InHook, InStub
    <3>5. tpc'[t] = "retstub" => InHook(t)'
      BY DEF InHook
    <3> QED
      BY <1>1, <2>1, <2>2, <2>3, <3>2, <3>3, <3>4, <3>5, MoveHeld
  <2> QED
    BY <2>8, <2>9, <2>10, <2>11
<1> QED
  BY <1>2, <1>3

LEMMA ServerHeld ==
    ASSUME StopInv, TableInv, DataInv, QuietInv, HeldInv,
           \/ MonitorListen \/ MonitorRead \/ MonitorListed \/ MonitorUnlisted \/ MonitorUnhook
           \/ MonitorNotify \/ ProxyReady \/ InitialAnswer \/ HandlerAnswer \/ UnknownAnswer
           \/ \E va \in VAs : \/ BpSet(va) \/ BpClear(va) \/ ServerBpSet(va) \/ VictimHook(va)
                             \/ ServerList(va) \/ BpDone(va)
    PROVE  HeldInv'
<1> USE DEF victimVars, hookVars, hitVars, threadVars, monitorVars, opVars, clientVars
<1>1. CASE /\ UNCHANGED <<hooks, tpc, pHook, frames, rets>> /\ mon' # "misread"
           /\ Reporting => Reporting' /\ UNCHANGED hookData
  BY <1>1 DEF HeldInv, NoWildThread, InHook
<1>2. CASE MonitorListen
  BY <1>1, <1>2 DEF MonitorListen, Reporting
<1>3. CASE MonitorRead
  <2>1. PICK h \in Hooks : h = hitParams.hook
    BY DEF StopInv, TypeOK, HitTypeOK
  <2>2. mon = "wait" /\ wfh = "answered" /\ UNCHANGED <<hooks, tpc, pHook, frames, rets>>
    BY <1>3 DEF MonitorRead
  <2>3. h # NoHook => h \in hooks
    <3>1. SUFFICES ASSUME h # NoHook PROVE h \in hooks
      OBVIOUS
    <3>2. PICK t \in AppThreads : t = hitParams.thread /\ tpc[t] = "spin"
      BY <2>1, <2>2, <3>1 DEF StopInv, TypeOK, HitTypeOK, HitInv
    <3>3. t \in Threads
      BY <3>2 DEF StopInv, ThreadInv
    <3>4. pHook[t] = h
      BY <2>1, <3>2 DEF StopInv, HitInv
    <3> QED
      BY <2>2, <3>2, <3>3, <3>4, HeldHookExists DEF InHook, InStub, Reporting
  <2>4. mon' # "misread"
    BY <1>3, <2>1, <2>3 DEF MonitorRead
  <2> QED
    BY <1>1, <2>2, <2>4 DEF Reporting
<1>4. CASE MonitorListed
  BY <1>1, <1>4 DEF MonitorListed, Reporting
<1>5. CASE MonitorUnlisted
  BY <1>1, <1>5 DEF MonitorUnlisted, Reporting
<1>6. CASE MonitorUnhook
  <2>1. /\ mon = "unhook" /\ mon' = "notify" /\ hookData.hook = InitialHook
        /\ hookData.va = EntryPoint /\ InitialHook \in hooks
    BY <1>6 DEF MonitorUnhook, QuietInv, DataInv, InitialHook
  <2>2. hooks' = hooks \ {InitialHook}
    BY <1>6, <2>1 DEF MonitorUnhook, Unhook, TableInv, InitialHook
  <2>3. /\ hookData'.va = NoVa /\ hookData'.thread = hookData.thread /\ Reporting /\ Reporting'
        /\ UNCHANGED <<tpc, pHook, frames, rets>>
    BY <1>6 DEF MonitorUnhook, InitialData, Reporting, StopInv, TypeOK, ServerTypeOK
  <2>4. ASSUME NEW t \in Threads, InHook(t), pHook[t] \notin hooks'
        PROVE  hookData.thread = t
    <3>1. CASE pHook[t] = InitialHook
      <4>1. t = Main
        BY <2>4, <3>1 DEF HeldInv
      <4>2. hookData.thread \in Threads /\ pHook[hookData.thread] = InitialHook
            /\ tpc[hookData.thread] = "spin"
        <5>1. PICK s \in AppThreads : s = hookData.thread /\ s = hitParams.thread
          BY <2>3 DEF StopInv, TypeOK, HitTypeOK, HitInv
        <5>2. hitParams.hook = InitialHook /\ InitialHook # NoHook
          BY <2>1, <2>3, AddressAssumption DEF StopInv, HitInv, InitialHook, NoHook
        <5>3. tpc[s] = "spin"
          BY <2>3, <5>1, <5>2 DEF StopInv, HitInv
        <5>4. s \in Threads
          BY <5>3 DEF StopInv, ThreadInv
        <5>5. pHook[s] = InitialHook
          BY <5>2, <5>3 DEF StopInv, HitInv
        <5> QED
          BY <5>1, <5>3, <5>4, <5>5
      <4>3. hookData.thread = Main
        BY <4>2 DEF HeldInv, InHook, InStub
      <4> QED
        BY <4>1, <4>3
    <3>2. CASE pHook[t] # InitialHook
      BY <2>2, <2>4, <3>2 DEF HeldInv
    <3> QED
      BY <3>1, <3>2
  <2>5. hooks' \ {InitialHook} = hooks \ {InitialHook}
    BY <2>2
  <2> QED
    BY <2>1, <2>3, <2>4, <2>5 DEF HeldInv, NoWildThread, InHook
<1>7. CASE MonitorNotify
  BY <1>1, <1>7 DEF MonitorNotify, Reporting
<1>8. CASE ProxyReady
  BY <1>1, <1>8 DEF ProxyReady, Reporting, HeldInv, NoWildThread
<1>9. CASE InitialAnswer \/ HandlerAnswer \/ UnknownAnswer
  BY <1>1, <1>9 DEF InitialAnswer, HandlerAnswer, UnknownAnswer, Reporting
<1>10. ASSUME NEW va \in VAs,
              BpSet(va) \/ BpClear(va) \/ ServerBpSet(va) \/ ServerList(va) \/ BpDone(va)
       PROVE  HeldInv'
  BY <1>1, <1>10 DEF BpSet, BpClear, ServerBpSet, ServerList, BpDone, Reporting, HeldInv, NoWildThread
<1>11. ASSUME NEW va \in VAs, VictimHook(va) PROVE HeldInv'
  <2>1. /\ hooks \subseteq hooks' /\ UNCHANGED <<tpc, pHook, frames, rets, mon, hookData>>
    BY <1>11 DEF VictimHook, Hook
  <2>2. \A t \in AppThreads : Matches(frames'[t], rets'[t], hooks' \ {InitialHook})
    <3>1. hooks \ {InitialHook} \subseteq hooks' \ {InitialHook}
      BY <2>1
    <3> QED
      BY <2>1, <3>1, MatchesMore DEF HeldInv
  <2> QED
    BY <2>1, <2>2 DEF HeldInv, NoWildThread, InHook, Reporting
<1> QED
  BY <1>2, <1>3, <1>4, <1>5, <1>6, <1>7, <1>8, <1>9, <1>10, <1>11

LEMMA NextHeld ==
    StopInv /\ TableInv /\ DataInv /\ QuietInv /\ HeldInv /\ [Next]_vars => HeldInv'
<1> SUFFICES ASSUME StopInv, TableInv, DataInv, QuietInv, HeldInv, [Next]_vars PROVE HeldInv'
  OBVIOUS
<1>1. CASE UNCHANGED <<hooks, tpc, pHook, frames, rets, serverVars>>
  BY <1>1 DEF HeldInv, NoWildThread, InHook, Reporting, serverVars, monitorVars
<1>2. CASE UNCHANGED vars
  BY <1>1, <1>2 DEF vars, victimVars, hookVars, threadVars
<1>3. CASE \E t \in Threads : /\ \/ \E va \in VAs : Call(t, va)
                                 \/ Return(t) \/ ReturnHook(t) \/ ReturnStub(t)
                              /\ UNCHANGED serverVars
  BY <1>3, ThreadsHeld
<1>4. CASE \E t \in AppThreads : /\ OnHookIgnore(t) \/ OnHookPass(t) \/ OnHookWait(t) \/ HookLLHit(t)
                                 /\ UNCHANGED serverVars
  BY <1>4, HitHeld
<1>5. CASE /\ \/ HitSpuriousWakeup \/ WaitForHook \/ WaitForHookAgain \/ WaitForHookHit
              \/ WaitForHookEvent
           /\ UNCHANGED serverVars
  BY <1>1, <1>5 DEF HitSpuriousWakeup, WaitForHook, WaitForHookAgain, WaitForHookHit, WaitForHookEvent,
     hookVars, threadVars
<1>6. CASE \/ MonitorListen \/ MonitorRead \/ MonitorListed \/ MonitorUnlisted \/ MonitorUnhook
           \/ MonitorNotify \/ ProxyReady \/ InitialAnswer \/ HandlerAnswer \/ UnknownAnswer
           \/ \E va \in VAs : \/ BpSet(va) \/ BpClear(va) \/ ServerBpSet(va) \/ VictimHook(va)
                             \/ ServerList(va) \/ BpDone(va)
  BY <1>6, ServerHeld
<1>7. CASE MonitorResume
  BY <1>7, ResumeHeld
<1> QED
  BY <1>2, <1>3, <1>4, <1>5, <1>6, <1>7 DEF Next

LEMMA AlwaysHeld ==
    ASSUME ~LateBpSet
    PROVE  Spec => [](StopInv /\ TableInv /\ DataInv /\ QuietInv /\ HeldInv)
<1>1. Init => StopInv /\ TableInv /\ DataInv /\ QuietInv /\ HeldInv
  BY InitStop, InitTable, InitQuiet
<1>2. StopInv /\ TableInv /\ DataInv /\ QuietInv /\ HeldInv /\ [Next]_vars
        => (StopInv /\ TableInv /\ DataInv /\ QuietInv /\ HeldInv)'
  BY NextStop, NextTable, NextData, NextQuiet, NextHeld
<1> QED
  BY <1>1, <1>2, PTL DEF Spec

----------------------------------------------------------------------------
(* What the client knows.                                                  *)

LEMMA NextListed ==
    StopInv /\ TableInv /\ DataInv /\ QuietInv /\ ListedAreHooked /\ [Next]_vars => ListedAreHooked'
<1> SUFFICES ASSUME StopInv, TableInv, DataInv, QuietInv, ListedAreHooked, [Next]_vars
             PROVE  ListedAreHooked'
  OBVIOUS
<1> USE DEF hookVars, monitorVars, opVars, serverVars
<1>0. op \in [VAs -> {"idle", "sent", "hook", "list", "ok", "failed"}] /\ made \in Nat
  BY DEF StopInv, TypeOK, ServerTypeOK, HitTypeOK
<1>1. CASE UNCHANGED <<hooks, serverHooks, op>>
  BY <1>1 DEF ListedAreHooked
<1>2. CASE MonitorUnhook
  <2>1. hookData.hook = InitialHook /\ hookData.va = EntryPoint /\ InitialHook \in hooks
    BY <1>2 DEF QuietInv, DataInv, MonitorUnhook, InitialHook
  <2>2. hooks' = {h \in hooks : h.va # EntryPoint} /\ UNCHANGED <<serverHooks, op>>
    BY <1>2, <2>1 DEF MonitorUnhook, Unhook
  <2>3. EntryPoint \notin serverHooks /\ op[EntryPoint] # "list"
    BY <2>1 DEF TableInv
  <2> QED
    BY <2>2, <2>3 DEF ListedAreHooked
<1>3. ASSUME NEW va \in VAs, BpSet(va) \/ BpClear(va) \/ ServerBpSet(va) \/ BpDone(va)
      PROVE  ListedAreHooked'
  <2>1. PICK st \in {"sent", "hook", "idle"} : op' = [op EXCEPT ![va] = st]
    BY <1>3 DEF BpSet, BpClear, ServerBpSet, BpDone
  <2>2. UNCHANGED <<hooks, serverHooks>>
    BY <1>3 DEF BpSet, BpClear, ServerBpSet, BpDone, victimVars
  <2> QED
    BY <1>0, <2>1, <2>2 DEF ListedAreHooked
<1>4. ASSUME NEW va \in VAs, VictimHook(va) PROVE ListedAreHooked'
  <2>1. CASE Hooked(va)
    <3>1. UNCHANGED <<hooks, serverHooks>> /\ op' = [op EXCEPT ![va] = "failed"]
      BY <1>4, <2>1 DEF VictimHook
    <3> QED
      BY <1>0, <3>1 DEF ListedAreHooked
  <2>2. CASE ~Hooked(va)
    <3>1. PICK h : h = [va |-> va, n |-> made + 1]
      OBVIOUS
    <3>2. /\ hooks' = hooks \cup {h} /\ serverHooks' = serverHooks
          /\ op' = [op EXCEPT ![va] = "list"] /\ h.va = va /\ h # InitialHook
      BY <1>0, <1>4, <2>2, <3>1 DEF VictimHook, Hook, InitialHook
    <3> QED
      BY <1>0, <3>2 DEF ListedAreHooked
  <2> QED
    BY <2>1, <2>2
<1>5. ASSUME NEW va \in VAs, ServerList(va) PROVE ListedAreHooked'
  <2>1. hooks' = hooks /\ serverHooks' = serverHooks \cup {va} /\ op' = [op EXCEPT ![va] = "ok"]
        /\ op[va] = "list"
    BY <1>5 DEF ServerList, Listed, victimVars
  <2> QED
    BY <1>0, <2>1 DEF ListedAreHooked
<1>6. CASE \/ MonitorListen \/ MonitorRead \/ MonitorListed \/ MonitorUnlisted
           \/ MonitorNotify \/ MonitorResume \/ ProxyReady \/ InitialAnswer \/ HandlerAnswer
           \/ UnknownAnswer
  BY <1>1, <1>6 DEF MonitorListen, MonitorRead, MonitorListed, MonitorUnlisted, MonitorNotify,
     MonitorResume, ProxyReady, InitialAnswer, HandlerAnswer, UnknownAnswer, victimVars
<1>7. CASE UNCHANGED <<hookVars, serverVars>>
  BY <1>1, <1>7
<1> QED
  BY <1>2, <1>3, <1>4, <1>5, <1>6, <1>7, StepKinds

LEMMA NextClient == ~MayClear /\ StopInv /\ ClientInv /\ [Next]_vars => ClientInv'
<1> SUFFICES ASSUME ~MayClear, StopInv, ClientInv, [Next]_vars PROVE ClientInv'
  OBVIOUS
<1> USE DEF monitorVars, opVars, clientVars, serverVars
<1>0. /\ op \in [VAs -> {"idle", "sent", "hook", "list", "ok", "failed"}]
      /\ opKind \in [VAs -> {"set", "clear"}]
  BY DEF StopInv, TypeOK, ServerTypeOK
<1>1. CASE UNCHANGED <<serverHooks, op, opKind, bps>>
  BY <1>1 DEF ClientInv
<1>2. ASSUME NEW va \in VAs, BpSet(va) PROVE ClientInv'
  <2>1. /\ bps' = bps \cup {va} /\ op' = [op EXCEPT ![va] = "sent"]
        /\ opKind' = [opKind EXCEPT ![va] = "set"] /\ UNCHANGED serverHooks
    BY <1>2 DEF BpSet, BpsBeforeCall
  <2> QED
    BY <1>0, <2>1 DEF ClientInv
<1>3. ASSUME NEW va \in VAs, ServerBpSet(va) \/ VictimHook(va) PROVE ClientInv'
  <2>1. PICK st \in {"hook", "failed", "list"} : op' = [op EXCEPT ![va] = st]
    BY <1>3 DEF ServerBpSet, VictimHook
  <2>2. op[va] # "idle" /\ UNCHANGED <<opKind, bps, serverHooks>>
    BY <1>3 DEF ServerBpSet, VictimHook
  <2> QED
    BY <1>0, <2>1, <2>2 DEF ClientInv
<1>4. ASSUME NEW va \in VAs, ServerList(va) PROVE ClientInv'
  <2>1. /\ serverHooks' = serverHooks \cup {va} /\ op' = [op EXCEPT ![va] = "ok"]
        /\ op[va] = "list" /\ UNCHANGED <<opKind, bps>>
    BY <1>4 DEF ServerList, Listed
  <2> QED
    BY <1>0, <2>1 DEF ClientInv
<1>5. ASSUME NEW va \in VAs, BpDone(va) PROVE ClientInv'
  <2>1. op' = [op EXCEPT ![va] = "idle"] /\ UNCHANGED <<opKind, serverHooks>>
    BY <1>5 DEF BpDone
  <2>2. bps' = bps
    BY <1>5 DEF BpDone, ClientInv
  <2> QED
    BY <1>0, <2>1, <2>2 DEF ClientInv
<1>6. CASE \/ MonitorListen \/ MonitorRead \/ MonitorListed \/ MonitorUnlisted \/ MonitorUnhook
           \/ MonitorNotify \/ MonitorResume \/ ProxyReady \/ InitialAnswer \/ HandlerAnswer
           \/ UnknownAnswer
  BY <1>1, <1>6 DEF MonitorListen, MonitorRead, MonitorListed, MonitorUnlisted, MonitorUnhook,
     MonitorNotify, MonitorResume, ProxyReady, InitialAnswer, HandlerAnswer, UnknownAnswer
<1>7. CASE UNCHANGED <<hookVars, serverVars>>
  BY <1>1, <1>7
<1>8. \A va \in VAs : ~BpClear(va)
  BY DEF BpClear
<1> QED
  BY <1>2, <1>3, <1>4, <1>5, <1>6, <1>7, <1>8, StepKinds

----------------------------------------------------------------------------
(* The theorems for documented use.                                        *)

\* If breakpoints are set during the initial break and in handlers only, as the documentation
\* does: the hook the monitor removes because it does not find it in its list is the one of
\* the launch, as _monitor() believes (debugger.cpp 169-170), and never one of BpSet's.
THEOREM GratuitousHooksAreInitial == ~LateBpSet => (Spec => []GratuitousIsInitial)
<1> SUFFICES ASSUME ~LateBpSet PROVE Spec => []GratuitousIsInitial
  OBVIOUS
<1>1. QuietInv => GratuitousIsInitial
  BY DEF QuietInv
<1> QED
  BY <1>1, AlwaysHeld, PTL

\* Under the same condition no thread is resumed in a trampoline or stub of a hook that has been
\* deleted meanwhile, returns to an address the stubs have left behind or is let go on before
\* it has stopped, and the monitor reads no deleted hook_t (debugger.cpp 159-179, 205-215).
THEOREM NoThreadGoesWild == ~LateBpSet => (Spec => []NoWildThread)
<1> SUFFICES ASSUME ~LateBpSet PROVE Spec => []NoWildThread
  OBVIOUS
<1>1. HeldInv => NoWildThread
  BY DEF HeldInv
<1> QED
  BY <1>1, AlwaysHeld, PTL

\* If bpClear() is not called, a breakpoint that reaches the client is one it has a handler
\* for (Client.py 151-153, 304), whenever breakpoints are set.
THEOREM HitsAreKnown == ~MayClear => (Spec => []NoUnknownBreakpoint)
<1> SUFFICES ASSUME ~MayClear PROVE Spec => []NoUnknownBreakpoint
  OBVIOUS
<1>1. Init => ClientInv
  BY InitQuiet
<1>2. StopInv /\ ClientInv /\ [Next]_vars => ClientInv'
  BY NextClient
<1>3. DataInv /\ ClientInv => NoUnknownBreakpoint
  BY DEF DataInv, ClientInv, NoUnknownBreakpoint
<1> QED
  BY <1>1, <1>2, <1>3, AlwaysTable, PTL DEF Spec

\* Under both conditions the three tables agree on every address nobody is working on: the
\* victim's hook, the server's list entry and the client's handler.
THEOREM TablesAgree == ~LateBpSet /\ ~MayClear => (Spec => []ViewsAgree)
<1> SUFFICES ASSUME ~LateBpSet, ~MayClear PROVE Spec => []ViewsAgree
  OBVIOUS
<1>1. Init => ClientInv /\ ListedAreHooked
  BY InitQuiet
<1>2. StopInv /\ TableInv /\ DataInv /\ QuietInv /\ ClientInv /\ ListedAreHooked /\ [Next]_vars
        => (ClientInv /\ ListedAreHooked)'
  BY NextClient, NextListed
<1>3. TableInv /\ ClientInv /\ ListedAreHooked => ViewsAgree
  BY DEF TableInv, ClientInv, ListedAreHooked, ViewsAgree
<1> QED
  BY <1>1, <1>2, <1>3, AlwaysHeld, PTL DEF Spec

----------------------------------------------------------------------------
(* What a breakpoint means to the user.                                    *)

LEMMA InitIgnore == Init => IgnoreInv
<1> SUFFICES ASSUME Init, NEW t \in Internal PROVE tpc[t] \in {"run", "onhook"} /\ rets[t] = <<>>
  BY DEF IgnoreInv
<1>1. t \in AppThreads /\ t # Main /\ t # InitThread
  BY ThreadAssumption DEF AppThreads
<1> QED
  BY <1>1 DEF Init, VictimInit

LEMMA NextIgnore == StopInv /\ HeldInv /\ HeldInv' /\ IgnoreInv /\ [Next]_vars => IgnoreInv'
<1> SUFFICES ASSUME StopInv, HeldInv, HeldInv', IgnoreInv, [Next]_vars PROVE IgnoreInv'
  OBVIOUS
<1> USE DEF threadVars
<1>0. /\ Internal \subseteq Threads /\ Internal \subseteq AppThreads
      /\ frames \in [AppThreads -> Seq(FrameSet)] /\ rets \in [AppThreads -> Seq(Words)]
      /\ tpc \in [AppThreads -> InStub \cup {"run", "retstub", "done", "wild"}]
  BY ThreadAssumption DEF StopInv, TypeOK, ThreadTypeOK, FrameSet, AppThreads
<1>1. CASE UNCHANGED <<tpc, rets>>
  BY <1>1 DEF IgnoreInv
<1>2. ASSUME NEW t \in Threads, t \notin Internal,
             \A s \in AppThreads : s # t => tpc'[s] = tpc[s] /\ rets'[s] = rets[s]
      PROVE  IgnoreInv'
  BY <1>0, <1>2 DEF IgnoreInv
<1>3. ASSUME NEW t \in Threads, NEW va \in VAs, Call(t, va) PROVE IgnoreInv'
  <2>1. /\ tpc'[t] \in {"run", "onhook"} /\ UNCHANGED rets
        /\ \A s \in AppThreads : s # t => tpc'[s] = tpc[s]
    BY <1>3, ArriveFacts, StopTypes DEF Call, StopInv
  <2> QED
    BY <1>0, <2>1 DEF IgnoreInv
<1>4. ASSUME NEW t \in Threads, Return(t) PROVE IgnoreInv'
  BY <1>1, <1>4 DEF Return
<1>5. ASSUME NEW t \in Threads, ReturnHook(t) PROVE IgnoreInv'
  <2>1. t \notin Internal
    <3>1. SUFFICES ASSUME t \in Internal PROVE FALSE
      OBVIOUS
    <3>2. rets[t] = <<>> /\ rets[t] \in Seq(Words) /\ frames[t] \in Seq(FrameSet)
      BY <1>0, <3>1 DEF IgnoreInv
    <3>3. Matches(frames[t], rets[t], hooks \ {InitialHook})
      BY DEF HeldInv, AppThreads
    <3>4. Len(rets[t]) >= 2
      BY <1>5, <3>2, <3>3, MatchesPop DEF ReturnHook
    <3> QED
      BY <3>2, <3>4
  <2>2. /\ tpc' = [tpc EXCEPT ![t] = "onhook"]
        /\ rets' = [rets EXCEPT ![t] = Front(Front(@))]
    BY <1>5 DEF ReturnHook
  <2> QED
    BY <1>0, <1>2, <2>1, <2>2
<1>6. ASSUME NEW t \in Threads, ReturnStub(t) PROVE IgnoreInv'
  <2>1. t \notin Internal
    BY <1>6 DEF ReturnStub, IgnoreInv
  <2>2. \A s \in AppThreads : s # t => tpc'[s] = tpc[s] /\ rets'[s] = rets[s]
    BY <1>0, <1>6 DEF ReturnStub
  <2> QED
    BY <1>2, <2>1, <2>2
<1>7. ASSUME NEW t \in AppThreads, OnHookIgnore(t) PROVE IgnoreInv'
  <2>1. /\ tpc' = [tpc EXCEPT ![t] = IF pHook[t] \in hooks THEN "run" ELSE "wild"]
        /\ UNCHANGED rets
    BY <1>7 DEF OnHookIgnore
  <2>2. tpc'[t] # "wild"
    BY DEF HeldInv, NoWildThread
  <2>3. tpc'[t] = "run" /\ \A s \in AppThreads : s # t => tpc'[s] = tpc[s]
    BY <1>0, <2>1, <2>2
  <2> QED
    BY <1>0, <2>1, <2>3 DEF IgnoreInv
<1>8. ASSUME NEW t \in AppThreads, OnHookPass(t) \/ HookLLHit(t) PROVE IgnoreInv'
  <2>1. t \notin Internal
    BY <1>8 DEF OnHookPass, IgnoredThread, HookLLHit, IgnoreInv
  <2>2. UNCHANGED rets /\ \A s \in AppThreads : s # t => tpc'[s] = tpc[s]
    BY <1>0, <1>8 DEF OnHookPass, HookLLHit
  <2> QED
    BY <1>0, <2>1, <2>2 DEF IgnoreInv
<1>9. ASSUME NEW t \in AppThreads, OnHookWait(t) PROVE IgnoreInv'
  BY <1>1, <1>9 DEF OnHookWait
<1>10. CASE MonitorResume
  <2>1. CASE hookData.hook = NoHook
    BY <1>1, <1>10, <2>1, ResumeFacts
  <2>2. CASE hookData.hook # NoHook
    <3>1. PICK t \in Threads : t = hookData.thread /\ tpc[t] = "spin"
      BY <1>10, <2>2, ResumeFacts
    <3>2. t \notin Internal
      BY <3>1 DEF IgnoreInv
    <3>3. UNCHANGED rets /\ \A s \in AppThreads : s # t => tpc'[s] = tpc[s]
      <4>1. CASE Context(t) = "va"
        <5>1. Arrive(t, hookData.hook.va) /\ hookData.hook.va \in VAs /\ UNCHANGED rets
          BY <1>10, <2>2, <3>1, <4>1, ResumeFacts, NoHookFacts DEF MonitorResume
        <5> QED
          BY <5>1, ArriveFacts, StopTypes DEF StopInv
      <4>2. CASE Context(t) # "va"
        BY <1>0, <1>10, <2>2, <3>1, <4>2 DEF MonitorResume
      <4> QED
        BY <4>1, <4>2
    <3> QED
      BY <1>2, <3>2, <3>3
  <2> QED
    BY <2>1, <2>2
<1>11. CASE \/ HitSpuriousWakeup \/ WaitForHook \/ WaitForHookAgain \/ WaitForHookHit
            \/ WaitForHookEvent \/ UNCHANGED vars
  BY <1>1, <1>11 DEF HitSpuriousWakeup, WaitForHook, WaitForHookAgain, WaitForHookHit, WaitForHookEvent,
     vars, victimVars
<1>12. CASE \/ MonitorListen \/ MonitorRead \/ MonitorListed \/ MonitorUnlisted \/ MonitorUnhook
            \/ MonitorNotify \/ ProxyReady \/ InitialAnswer \/ HandlerAnswer \/ UnknownAnswer
  BY <1>1, <1>12 DEF MonitorListen, MonitorRead, MonitorListed, MonitorUnlisted, MonitorUnhook,
     MonitorNotify, ProxyReady, InitialAnswer, HandlerAnswer, UnknownAnswer, victimVars
<1>13. ASSUME NEW va \in VAs, \/ BpSet(va) \/ BpClear(va) \/ ServerBpSet(va) \/ VictimHook(va)
                              \/ ServerList(va) \/ BpDone(va)
       PROVE  IgnoreInv'
  BY <1>1, <1>13 DEF BpSet, BpClear, ServerBpSet, VictimHook, ServerList, BpDone, victimVars
<1> QED
  BY <1>3, <1>4, <1>5, <1>6, <1>7, <1>8, <1>9, <1>10, <1>11, <1>12, <1>13 DEF Next

\* The user's view of a thread: all functions but the last are in their bodies.
TopPhase(t) == IF ~IsStopped(t) THEN "body" ELSE IF isRet[t] THEN "exit" ELSE "entry"

TopOf(t) == [va |-> Last(frames[t]).va,
             phase |-> TopPhase(t),
             onRet |-> Last(frames[t]).ret = ReturnAddr \/ tpc[t] = "retstub"]

BodyOf(e) == [va |-> e.va, phase |-> "body", onRet |-> e.ret = ReturnAddr]

ActSet == [va : VAs, phase : {"entry", "body", "exit"}, onRet : BOOLEAN]

Shape(t) ==
    /\ frames[t] \in Seq(FrameSet)
    /\ Activations[t] \in Seq(ActSet)
    /\ Len(Activations[t]) = Len(frames[t])
    /\ \A i \in 1 .. Len(frames[t]) - 1 : Activations[t][i] = BodyOf(frames[t][i])
    /\ frames[t] # <<>> => Activations[t][Len(frames[t])] = TopOf(t)

Shapes == \A t \in Threads : Shape(t)

LEMMA ShapeFacts == StopInv => Shapes
<1> SUFFICES ASSUME StopInv, NEW t \in Threads PROVE Shape(t)
  BY DEF Shapes
<1>1. PICK fs : fs = frames[t]
  OBVIOUS
<1>2. fs \in Seq(FrameSet) /\ pHook[t] \in Hooks
  BY <1>1 DEF StopInv, TypeOK, ThreadTypeOK, FrameSet, AppThreads
<1>3. PICK n \in Nat : n = Len(fs)
  BY <1>2, LenFacts
<1>4. /\ \A i \in 1 .. n : fs[i] \in FrameSet
      /\ fs # <<>> => n # 0 /\ Last(fs) = fs[n] /\ Last(fs) \in FrameSet
  BY <1>2, <1>3, LenFacts
<1>5. PICK as : as = Activations[t]
  OBVIOUS
<1>6. as = [i \in 1 .. n |-> Activation(t, i)]
  BY <1>1, <1>3, <1>5 DEF Activations
<1>7. ASSUME NEW i \in 1 .. n - 1
      PROVE  as[i] = BodyOf(fs[i]) /\ as[i] \in ActSet
  <2>1. i \in 1 .. n /\ i < n
    OBVIOUS
  <2>2. PhaseOf(t, i) = "body"
    BY <1>1, <1>3, <2>1 DEF PhaseOf
  <2>3. fs[i].va \in VAs
    BY <1>4, <2>1 DEF FrameSet
  <2>4. as[i] = Activation(t, i)
    BY <1>6, <2>1
  <2>5. (fs[i].ret = ReturnAddr \/ (tpc[t] = "retstub" /\ i = n)) <=> fs[i].ret = ReturnAddr
    BY <2>1
  <2>6. as[i] = BodyOf(fs[i])
    BY <1>1, <1>3, <2>2, <2>4, <2>5 DEF Activation, BodyOf
  <2> QED
    BY <2>3, <2>6 DEF BodyOf, ActSet
<1>8. ASSUME fs # <<>>
      PROVE  as[n] = TopOf(t) /\ as[n] \in ActSet
  <2>1. n \in 1 .. n /\ Last(fs) = fs[n] /\ fs[n].va \in VAs
    BY <1>4, <1>8 DEF FrameSet
  <2>2. PhaseOf(t, n) = TopPhase(t)
    BY <1>1, <1>3 DEF PhaseOf, TopPhase
  <2>3. IsStopped(t) => pHook[t].va = fs[n].va
    <3>1. IsStopped(t) => Entered(t)
      BY DEF IsStopped, StopInv, ThreadInv, InHook
    <3> QED
      BY <1>1, <2>1, <3>1 DEF Entered
  <2>4. TopPhase(t) # "body" => IsStopped(t)
    BY DEF TopPhase
  <2>5. as[n] = Activation(t, n)
    BY <1>6, <2>1
  <2>6. (fs[n].ret = ReturnAddr \/ (tpc[t] = "retstub" /\ n = n))
           <=> (Last(fs).ret = ReturnAddr \/ tpc[t] = "retstub")
    BY <2>1
  <2>7. as[n] = TopOf(t)
    BY <1>1, <1>3, <2>1, <2>2, <2>3, <2>4, <2>5, <2>6 DEF Activation, TopOf
  <2>8. TopPhase(t) \in {"entry", "body", "exit"}
    BY DEF TopPhase
  <2> QED
    BY <1>1, <2>1, <2>7, <2>8 DEF TopOf, ActSet
<1>9. as \in Seq(ActSet) /\ Len(as) = n
  <2>1. \A i \in 1 .. n : as[i] \in ActSet
    <3>1. ASSUME NEW i \in 1 .. n PROVE as[i] \in ActSet
      <4>1. CASE i = n
        <5>1. fs # <<>>
          BY <1>2, <1>3, <4>1, LenFacts
        <5> QED
          BY <1>8, <4>1, <5>1
      <4>2. CASE i # n
        <5>1. i \in 1 .. n - 1
          BY <4>2
        <5> QED
          BY <1>7, <5>1
      <4> QED
        BY <4>1, <4>2
    <3> QED
      BY <3>1
  <2>2. as \in [1 .. n -> ActSet]
    BY <1>6, <2>1
  <2> QED
    BY <1>6, <2>2, SeqDef
<1> QED
  BY <1>1, <1>2, <1>3, <1>5, <1>7, <1>8, <1>9 DEF Shape

LEMMA ShapeFactsNext == StopInv' => Shapes'
  BY ShapeFacts, PTL

LEMMA UserSeq == \A s : User!Last(s) = Last(s) /\ User!Front(s) = Front(s)
  BY DEF User!Last, Last, User!Front, Front

\* How the view changes with the stack: not at all ...
LEMMA SameView ==
    ASSUME NEW t \in Threads, Shape(t), Shape(t)', frames'[t] = frames[t],
           frames[t] # <<>> => TopOf(t)' = TopOf(t)
    PROVE  Activations'[t] = Activations[t]
<1>1. PICK fs, as, bs : fs = frames[t] /\ as = Activations[t] /\ bs = Activations'[t]
  OBVIOUS
<1>2. PICK n \in Nat : n = Len(fs)
  BY <1>1, LenFacts DEF Shape
<1>3. /\ as \in Seq(ActSet) /\ bs \in Seq(ActSet) /\ Len(as) = n /\ Len(bs) = n
      /\ \A i \in 1 .. n - 1 : as[i] = BodyOf(fs[i]) /\ bs[i] = BodyOf(fs[i])
      /\ n # 0 => as[n] = bs[n]
  <2>1. n # 0 <=> fs # <<>>
    BY <1>1, <1>2, LenFacts DEF Shape
  <2> QED
    BY <1>1, <1>2, <2>1 DEF Shape
<1>4. ASSUME NEW i \in 1 .. n PROVE as[i] = bs[i]
  <2>1. CASE i = n
    <3>1. n # 0
      BY <2>1
    <3>2. as[n] = bs[n]
      BY <1>3, <3>1
    <3> QED
      BY <2>1, <3>2
  <2>2. CASE i # n
    <3>1. i \in 1 .. n - 1
      BY <2>2
    <3> QED
      BY <1>3, <3>1
  <2> QED
    BY <2>1, <2>2
<1> QED
  BY <1>1, <1>3, <1>4, SeqEqual

LEMMA AppendFacts ==
    ASSUME NEW S, NEW s \in Seq(S), NEW c \in S, NEW i \in 1 .. Len(s)
    PROVE  Append(s, c)[i] = s[i]
  BY LenProperties

\* ... by a function that is entered ...
LEMMA PushView ==
    ASSUME NEW t \in Threads, Shape(t), Shape(t)', NEW e, frames'[t] = Append(frames[t], e),
           e \in FrameSet, frames[t] # <<>> => TopOf(t) = BodyOf(Last(frames[t]))
    PROVE  Activations'[t] = Append(Activations[t], TopOf(t)') /\ Last(frames'[t]) = e
<1>1. PICK fs, as, bs : fs = frames[t] /\ as = Activations[t] /\ bs = Activations'[t]
  OBVIOUS
<1>2. PICK gs : gs = Append(fs, e)
  OBVIOUS
<1>3. PICK n \in Nat : n = Len(fs)
  BY <1>1, LenFacts DEF Shape
<1>4. /\ gs \in Seq(FrameSet) /\ gs # <<>> /\ Len(gs) = n + 1 /\ gs[n + 1] = e
      /\ \A i \in 1 .. n : gs[i] = fs[i]
  BY <1>1, <1>2, <1>3, AppendProperties DEF Shape
<1>5. Last(gs) = e
  BY <1>4, LenFacts
<1>6. PICK top : top = TopOf(t)'
  OBVIOUS
<1>7. /\ bs \in Seq(ActSet) /\ Len(bs) = n + 1 /\ bs[n + 1] = top
      /\ \A i \in 1 .. n : bs[i] = BodyOf(fs[i])
  BY <1>1, <1>2, <1>4, <1>6 DEF Shape
<1>8. /\ as \in Seq(ActSet) /\ Len(as) = n
      /\ \A i \in 1 .. n : as[i] = BodyOf(fs[i])
  <2>1. \A i \in 1 .. n - 1 : as[i] = BodyOf(fs[i])
    BY <1>1, <1>3 DEF Shape
  <2>2. n # 0 => as[n] = BodyOf(fs[n])
    <3>1. n # 0 => fs # <<>> /\ Last(fs) = fs[n]
      BY <1>1, <1>3, LenFacts DEF Shape
    <3> QED
      BY <1>1, <1>3, <3>1 DEF Shape
  <2>3. \A i \in 1 .. n : i = n \/ i \in 1 .. n - 1
    OBVIOUS
  <2> QED
    BY <1>1, <1>3, <2>1, <2>2, <2>3 DEF Shape
<1>9. top \in ActSet
  <2>1. n + 1 \in 1 .. Len(bs)
    BY <1>7
  <2> QED
    BY <1>7, <2>1, LenFacts
<1>10. PICK cs : cs = Append(as, top)
  OBVIOUS
<1>11. /\ cs \in Seq(ActSet) /\ Len(cs) = n + 1 /\ cs[n + 1] = top
       /\ \A i \in 1 .. n : cs[i] = as[i]
  <2>1. as \in Seq(ActSet) /\ Len(as) = n
    BY <1>8
  <2>2. cs \in Seq(ActSet)
    BY <1>9, <1>10, <2>1, AppendProperties
  <2>3. Len(cs) = Len(as) + 1
    BY <1>9, <1>10, <2>1, AppendProperties
  <2>4. cs[Len(as) + 1] = top
    BY <1>9, <1>10, <2>1, AppendProperties
  <2>5. ASSUME NEW i \in 1 .. Len(as) PROVE cs[i] = as[i]
    <3>1. Append(as, top)[i] = as[i]
      BY <1>9, <2>1, AppendFacts
    <3> QED
      BY <1>10, <3>1
  <2> QED
    BY <2>1, <2>2, <2>3, <2>4, <2>5
<1>12. \A i \in 1 .. n + 1 : cs[i] = bs[i]
  <2>1. \A i \in 1 .. n + 1 : i = n + 1 \/ i \in 1 .. n
    OBVIOUS
  <2> QED
    BY <1>7, <1>8, <1>11, <2>1
<1>13. cs = bs
  BY <1>7, <1>11, <1>12, SeqEqual
<1> QED
  BY <1>1, <1>2, <1>5, <1>6, <1>10, <1>13

\* ... left ...
LEMMA DropView ==
    ASSUME NEW t \in Threads, Shape(t), Shape(t)', frames[t] # <<>>, frames'[t] = Front(frames[t]),
           tpc'[t] = "run"
    PROVE  Activations'[t] = Front(Activations[t])
<1>1. PICK fs, as, bs, gs : /\ fs = frames[t] /\ as = Activations[t] /\ bs = Activations'[t]
                            /\ gs = frames'[t]
  OBVIOUS
<1>2. PICK n \in Nat : n = Len(fs) /\ n # 0
  BY <1>1, LenFacts DEF Shape
<1>3. gs \in Seq(FrameSet) /\ Len(gs) = n - 1 /\ \A i \in 1 .. n - 1 : gs[i] = fs[i]
  BY <1>1, <1>2, FrontFacts DEF Shape
<1>4. as \in Seq(ActSet) /\ Len(as) = n /\ \A i \in 1 .. n - 1 : as[i] = BodyOf(fs[i])
  BY <1>1, <1>2 DEF Shape
<1>5. Front(as) \in Seq(ActSet) /\ Len(Front(as)) = n - 1 /\ \A i \in 1 .. n - 1 : Front(as)[i] = as[i]
  <2>1. as # <<>>
    BY <1>2, <1>4, LenFacts
  <2> QED
    BY <1>4, <2>1, FrontFacts
<1>6. bs \in Seq(ActSet) /\ Len(bs) = n - 1 /\ \A i \in 1 .. n - 2 : bs[i] = BodyOf(gs[i])
  <2>1. \A i \in 1 .. n - 2 : i \in 1 .. (n - 1) - 1
    OBVIOUS
  <2> QED
    BY <1>1, <1>3, <2>1 DEF Shape
<1>7. n # 1 => bs[n - 1] = BodyOf(gs[n - 1])
  <2>1. n # 1 => gs # <<>> /\ Last(gs) = gs[n - 1]
    BY <1>2, <1>3, LenFacts
  <2>2. n # 1 => bs[n - 1] = TopOf(t)'
    BY <1>1, <1>3, <2>1 DEF Shape
  <2>3. TopPhase(t)' = "body"
    BY DEF TopPhase, IsStopped, InStub
  <2>4. TopOf(t)' = BodyOf(Last(gs))
    BY <1>1, <2>3 DEF TopOf, BodyOf
  <2> QED
    BY <2>1, <2>2, <2>4
<1>8. \A i \in 1 .. n - 1 : bs[i] = Front(as)[i]
  <2>1. \A i \in 1 .. n - 1 : (i = n - 1 /\ n # 1) \/ i \in 1 .. n - 2
    OBVIOUS
  <2> QED
    BY <1>3, <1>4, <1>5, <1>6, <1>7, <2>1
<1> QED
  BY <1>1, <1>5, <1>6, <1>8, SeqEqual

\* ... or goes on.
LEMMA ReplaceView ==
    ASSUME NEW t \in Threads, Shape(t), Shape(t)', frames[t] # <<>>, Len(frames'[t]) = Len(frames[t]),
           \A i \in 1 .. Len(frames[t]) - 1 : frames'[t][i] = frames[t][i]
    PROVE  Activations'[t] = Front(Activations[t]) \o <<TopOf(t)'>>
<1>1. PICK fs, as, bs, gs : /\ fs = frames[t] /\ as = Activations[t] /\ bs = Activations'[t]
                            /\ gs = frames'[t]
  OBVIOUS
<1>2. PICK top : top = TopOf(t)'
  OBVIOUS
<1>3. PICK n \in Nat : n = Len(fs) /\ n # 0
  BY <1>1, LenFacts DEF Shape
<1>4. as \in Seq(ActSet) /\ Len(as) = n /\ \A i \in 1 .. n - 1 : as[i] = BodyOf(fs[i])
  BY <1>1, <1>3 DEF Shape
<1>5. gs # <<>>
  BY <1>1, <1>3, LenFacts DEF Shape
<1>6. /\ bs \in Seq(ActSet) /\ Len(bs) = n /\ bs[n] = top
      /\ \A i \in 1 .. n - 1 : bs[i] = BodyOf(fs[i])
  BY <1>1, <1>2, <1>3, <1>5 DEF Shape
<1>7. top \in ActSet
  <2>1. n \in 1 .. Len(bs)
    BY <1>3, <1>6
  <2> QED
    BY <1>6, <2>1, LenFacts
<1>8. PICK cs : cs = Front(as)
  OBVIOUS
<1>9. cs \in Seq(ActSet) /\ Len(cs) = n - 1 /\ \A i \in 1 .. n - 1 : cs[i] = as[i]
  <2>1. as # <<>>
    BY <1>3, <1>4, LenFacts
  <2> QED
    BY <1>4, <1>8, <2>1, FrontFacts
<1>10. <<top>> \in Seq(ActSet) /\ Len(<<top>>) = 1 /\ <<top>>[1] = top
  BY <1>7
<1>11. PICK ds : ds = cs \o <<top>>
  OBVIOUS
<1>12. /\ ds \in Seq(ActSet) /\ Len(ds) = n
       /\ \A i \in 1 .. n : ds[i] = IF i <= n - 1 THEN cs[i] ELSE <<top>>[i - (n - 1)]
  <2>1. /\ ds \in Seq(ActSet) /\ Len(ds) = Len(cs) + Len(<<top>>)
        /\ \A i \in 1 .. Len(cs) + Len(<<top>>) :
              ds[i] = IF i <= Len(cs) THEN cs[i] ELSE <<top>>[i - Len(cs)]
    BY <1>9, <1>10, <1>11, ConcatProperties
  <2>2. Len(cs) + Len(<<top>>) = n
    BY <1>9, <1>10
  <2> QED
    BY <1>9, <2>1, <2>2
<1>13. ASSUME NEW i \in 1 .. n PROVE ds[i] = bs[i]
  <2>1. CASE i = n
    <3>1. ds[i] = <<top>>[1]
      BY <1>12, <2>1
    <3> QED
      BY <1>6, <1>10, <2>1, <3>1
  <2>2. CASE i # n
    <3>1. i \in 1 .. n - 1 /\ i <= n - 1
      BY <2>2
    <3>2. ds[i] = cs[i]
      BY <1>12, <3>1
    <3> QED
      BY <1>4, <1>6, <1>9, <3>1, <3>2
  <2> QED
    BY <2>1, <2>2
<1>14. ds = bs
  BY <1>6, <1>12, <1>13, SeqEqual
<1> QED
  BY <1>1, <1>2, <1>8, <1>11, <1>14

\* One thread's view changes.
LEMMA OneView ==
    ASSUME NEW t \in Threads,
           \A s \in Threads : s # t => Shape(s) /\ Shape(s)',
           \A s \in Threads : s # t =>
              frames'[s] = frames[s] /\ tpc'[s] = tpc[s] /\ isRet'[s] = isRet[s]
    PROVE  Activations' = [Activations EXCEPT ![t] = Activations'[t]]
<1>1. ASSUME NEW s \in Threads, s # t PROVE Activations'[s] = Activations[s]
  <2>1. TopOf(s)' = TopOf(s)
    BY <1>1 DEF TopOf, TopPhase, IsStopped
  <2> QED
    BY <1>1, <2>1, SameView
<1>2. /\ Activations = [s \in Threads |-> Activations[s]]
      /\ Activations' = [s \in Threads |-> Activations'[s]]
  BY DEF Activations
<1> QED
  BY <1>1, <1>2

\* Stopped or not.
LEMMA ViewOfTop ==
    ASSUME StopInv, NEW t \in Threads
    PROVE  /\ Activations[t] = <<>> <=> frames[t] = <<>>
           /\ frames[t] # <<>> => Last(Activations[t]) = TopOf(t)
           /\ ~IsStopped(t) => User!Running(t) /\ TopPhase(t) = "body"
           /\ IsStopped(t) => /\ User!Stopped(t) /\ Entered(t) /\ frames[t] # <<>>
                              /\ TopOf(t) = [va |-> Last(frames[t]).va, onRet |-> FALSE,
                                             phase |-> IF isRet[t] THEN "exit" ELSE "entry"]
<1>1. Shape(t)
  BY ShapeFacts DEF Shapes
<1>2. Len(frames[t]) \in Nat /\ (frames[t] # <<>> <=> Len(frames[t]) # 0)
  BY <1>1, LenFacts DEF Shape
<1>3. /\ Activations[t] # <<>> <=> Len(Activations[t]) # 0
      /\ Activations[t] # <<>> => Last(Activations[t]) = Activations[t][Len(Activations[t])]
  BY <1>1, LenFacts DEF Shape
<1>4. /\ Activations[t] = <<>> <=> frames[t] = <<>>
      /\ frames[t] # <<>> => Last(Activations[t]) = TopOf(t)
  BY <1>1, <1>2, <1>3 DEF Shape
<1>5. ASSUME ~IsStopped(t) PROVE User!Running(t) /\ TopPhase(t) = "body"
  BY <1>4, <1>5, UserSeq DEF User!Running, TopOf, TopPhase
<1>6. ASSUME IsStopped(t)
      PROVE  /\ User!Stopped(t) /\ Entered(t) /\ frames[t] # <<>>
             /\ TopOf(t) = [va |-> Last(frames[t]).va, onRet |-> FALSE,
                            phase |-> IF isRet[t] THEN "exit" ELSE "entry"]
  <2>1. Entered(t) /\ frames[t] # <<>> /\ tpc[t] # "retstub"
    BY <1>6 DEF StopInv, ThreadInv, InHook, IsStopped, InStub, Entered
  <2>2. Last(frames[t]).ret # ReturnAddr
    BY <2>1, AddrsDiffer DEF Entered
  <2>3. TopPhase(t) = IF isRet[t] THEN "exit" ELSE "entry"
    BY <1>6 DEF TopPhase
  <2>4. TopOf(t) = [va |-> Last(frames[t]).va, onRet |-> FALSE,
                    phase |-> IF isRet[t] THEN "exit" ELSE "entry"]
    BY <2>1, <2>2, <2>3 DEF TopOf
  <2>5. User!Stopped(t)
    BY <1>4, <2>1, <2>4, UserSeq DEF User!Stopped, User!Running
  <2> QED
    BY <2>1, <2>4, <2>5
<1> QED
  BY <1>4, <1>5, <1>6

LEMMA FrontLast ==
    ASSUME NEW S, NEW s \in Seq(S), s # <<>>
    PROVE  Front(s) \o <<Last(s)>> = s
<1>1. PICK n \in Nat : n = Len(s) /\ n # 0
  BY LenFacts
<1>2. PICK c \in S : c = Last(s) /\ c = s[n]
  BY <1>1, LenFacts
<1>3. PICK r : r = Front(s)
  OBVIOUS
<1>4. r \in Seq(S) /\ Len(r) = n - 1 /\ \A i \in 1 .. n - 1 : r[i] = s[i]
  BY <1>1, <1>3, FrontFacts
<1>5. <<c>> \in Seq(S) /\ Len(<<c>>) = 1 /\ <<c>>[1] = c
  OBVIOUS
<1>6. PICK q : q = r \o <<c>>
  OBVIOUS
<1>7. /\ q \in Seq(S) /\ Len(q) = Len(r) + Len(<<c>>)
      /\ \A i \in 1 .. Len(r) + Len(<<c>>) : q[i] = IF i <= Len(r) THEN r[i] ELSE <<c>>[i - Len(r)]
  BY <1>4, <1>5, <1>6, ConcatProperties
<1>8. Len(r) + Len(<<c>>) = n
  BY <1>4, <1>5
<1>9. ASSUME NEW i \in 1 .. n PROVE q[i] = s[i]
  <2>1. CASE i = n
    <3>1. q[i] = <<c>>[1]
      BY <1>4, <1>7, <1>8, <2>1
    <3> QED
      BY <1>2, <1>5, <2>1, <3>1
  <2>2. CASE i # n
    <3>1. i \in 1 .. n - 1 /\ i <= Len(r)
      BY <1>4, <2>2
    <3>2. q[i] = r[i]
      BY <1>7, <1>8, <3>1
    <3> QED
      BY <1>4, <3>1, <3>2
  <2> QED
    BY <2>1, <2>2
<1>10. q = s
  BY <1>1, <1>7, <1>8, <1>9, SeqEqual
<1> QED
  BY <1>2, <1>3, <1>6, <1>10

\* Steps the user does not see.
LEMMA UserSame ==
    ASSUME StopInv, StopInv', UNCHANGED <<frames, Decided>>,
           \A t \in Threads : /\ TopPhase(t)' = TopPhase(t)
                              /\ tpc'[t] = "retstub" <=> tpc[t] = "retstub"
    PROVE  UNCHANGED User!vars
<1>1. ASSUME NEW t \in Threads PROVE Activations'[t] = Activations[t]
  <2>1. Shape(t) /\ Shape(t)'
    BY ShapeFacts, ShapeFactsNext DEF Shapes
  <2>2. TopOf(t)' = TopOf(t)
    BY DEF TopOf
  <2> QED
    BY <2>1, <2>2, SameView
<1>2. /\ Activations = [t \in Threads |-> Activations[t]]
      /\ Activations' = [t \in Threads |-> Activations'[t]]
  BY DEF Activations
<1>3. Activations' = Activations
  BY <1>1, <1>2
<1> QED
  BY <1>3 DEF User!vars

LEMMA DecidedSame ==
    /\ UNCHANGED <<mon, hookData, action>> => UNCHANGED Decided
    /\ mon # "resume" /\ mon' # "resume" => UNCHANGED Decided
  BY DEF Decided

LEMMA UserCall ==
    ASSUME StopInv, StopInv', NEW t \in Threads, NEW va \in VAs, Call(t, va), UNCHANGED serverVars
    PROVE  User!Next
<1>0. t \in AppThreads /\ frames \in [AppThreads -> Seq(FrameSet)] /\ Threads \subseteq AppThreads
  BY DEF StopInv, TypeOK, ThreadTypeOK, FrameSet, AppThreads
<1>1. PICK e \in FrameSet : e = [va |-> va, ret |-> CallerAddr]
  BY FrameFacts
<1>2. /\ frames' = [frames EXCEPT ![t] = Append(@, e)] /\ Arrive(t, va) /\ tpc[t] = "run"
  BY <1>1 DEF Call
<1>3. /\ tpc'[t] \in {"run", "onhook"}
      /\ tpc'[t] = "onhook" => isRet'[t] = FALSE
      /\ \A s \in AppThreads : s # t => tpc'[s] = tpc[s] /\ isRet'[s] = isRet[s]
  BY <1>2, ArriveFacts, StopTypes DEF StopInv
<1>4. frames'[t] = Append(frames[t], e) /\ \A s \in AppThreads : s # t => frames'[s] = frames[s]
  BY <1>0, <1>2
<1>5. Shape(t) /\ Shape(t)' /\ \A s \in Threads : Shape(s) /\ Shape(s)'
  BY ShapeFacts, ShapeFactsNext DEF Shapes
<1>6. ~IsStopped(t)
  BY <1>2 DEF IsStopped, InStub
<1>7. User!Running(t) /\ TopOf(t) = BodyOf(Last(frames[t]))
  BY <1>2, <1>6, ViewOfTop DEF TopOf, BodyOf
<1>8. Activations'[t] = Append(Activations[t], TopOf(t)') /\ Last(frames'[t]) = e
  BY <1>4, <1>5, <1>7, PushView
<1>9. PICK phase \in {"entry", "body"} : phase = TopPhase(t)'
  BY <1>3 DEF TopPhase, IsStopped, InStub
<1>10. TopOf(t)' = [va |-> va, phase |-> phase, onRet |-> FALSE]
  <2>1. Last(frames'[t]).ret # ReturnAddr /\ Last(frames'[t]).va = va
    BY <1>1, <1>8, AddrsDiffer
  <2> QED
    BY <1>3, <1>9, <2>1 DEF TopOf
<1>11. Activations' = [Activations EXCEPT ![t] = Activations'[t]]
  BY <1>0, <1>3, <1>4, <1>5, OneView
<1>12. UNCHANGED Decided
  BY DecidedSame DEF serverVars, monitorVars
<1>13. User!Enter(t, va, phase)
  BY <1>7, <1>8, <1>10, <1>11, <1>12 DEF User!Enter
<1> QED
  BY <1>9, <1>13 DEF User!Next

LEMMA UserReturn ==
    ASSUME StopInv, StopInv', HeldInv, IgnoreInv, NEW t \in Threads, UNCHANGED serverVars,
           Return(t) \/ ReturnHook(t)
    PROVE  User!Next
<1>0. t \in AppThreads /\ frames \in [AppThreads -> Seq(FrameSet)] /\ Threads \subseteq AppThreads
      /\ rets \in [AppThreads -> Seq(Words)] /\ frames[t] \in Seq(FrameSet)
      /\ tpc \in [AppThreads -> InStub \cup {"run", "retstub", "done", "wild"}]
      /\ isRet \in [AppThreads -> BOOLEAN]
  BY DEF StopInv, TypeOK, ThreadTypeOK, FrameSet, AppThreads
<1>1. /\ tpc[t] = "run" /\ frames[t] # <<>> /\ UNCHANGED Decided /\ ~IsStopped(t)
      /\ Shape(t) /\ Shape(t)' /\ \A s \in Threads : Shape(s) /\ Shape(s)'
  BY ShapeFacts, ShapeFactsNext, DecidedSame DEF Shapes, Return, ReturnHook, IsStopped, InStub,
     serverVars, monitorVars
<1>2. /\ User!Running(t) /\ Activations[t] # <<>> /\ Last(Activations[t]) = TopOf(t)
      /\ TopOf(t) = BodyOf(Last(frames[t]))
  BY <1>1, ViewOfTop DEF TopOf, BodyOf
<1>3. CASE Return(t)
  <2>1. /\ frames' = [frames EXCEPT ![t] = Front(@)] /\ UNCHANGED <<tpc, isRet>>
        /\ Last(frames[t]).ret = CallerAddr
    BY <1>3 DEF Return
  <2>2. Activations'[t] = Front(Activations[t])
    BY <1>0, <1>1, <2>1, DropView
  <2>3. Activations' = [Activations EXCEPT ![t] = Activations'[t]]
    BY <1>0, <1>1, <2>1, OneView
  <2>4. TopOf(t) = [va |-> Last(frames[t]).va, phase |-> "body", onRet |-> FALSE]
    <3>1. Last(frames[t]).ret # ReturnAddr /\ TopPhase(t) = "body"
      BY <1>1, <2>1, AddrsDiffer, ViewOfTop
    <3> QED
      BY <1>1, <3>1 DEF TopOf
  <2>5. User!Leave(t)
    BY <1>1, <1>2, <2>2, <2>3, <2>4, UserSeq DEF User!Leave
  <2> QED
    BY <2>5 DEF User!Next
<1>4. CASE ReturnHook(t)
  <2>1. Last(frames[t]).ret = ReturnAddr
    BY <1>4 DEF ReturnHook
  <2>2. PICK r : r = PopReturn(rets[t]).ret
    OBVIOUS
  <2>3. r = CallerAddr /\ t \notin Internal
    <3>1. Matches(frames[t], rets[t], hooks \ {InitialHook})
      BY <1>0 DEF HeldInv
    <3>2. Len(rets[t]) >= 2 /\ PopReturn(rets[t]).ret = CallerAddr
      BY <1>0, <1>1, <2>1, <3>1, MatchesPop
    <3>3. rets[t] # <<>>
      BY <3>2
    <3> QED
      BY <2>2, <3>2, <3>3 DEF IgnoreInv
  <2>4. PICK n \in Nat : n = Len(frames[t]) /\ n # 0
    BY <1>0, <1>1, LenFacts
  <2>5. PICK fs, gs : fs = frames[t] /\ gs = [fs EXCEPT ![n].ret = r]
    OBVIOUS
  <2>6. frames' = [frames EXCEPT ![t] = gs]
    BY <1>0, <1>4, <2>2, <2>4, <2>5 DEF ReturnHook
  <2>7. /\ tpc' = [tpc EXCEPT ![t] = "onhook"] /\ isRet' = [isRet EXCEPT ![t] = TRUE]
    BY <1>4 DEF ReturnHook
  <2>8. /\ frames'[t] = gs /\ tpc'[t] = "onhook" /\ isRet'[t] = TRUE
        /\ \A s \in Threads : s # t =>
              frames'[s] = frames[s] /\ tpc'[s] = tpc[s] /\ isRet'[s] = isRet[s]
    BY <1>0, <2>6, <2>7
  <2>9. /\ gs \in Seq(FrameSet) /\ Len(gs) = n /\ gs # <<>> /\ Last(gs).va = Last(fs).va
        /\ \A i \in 1 .. n - 1 : gs[i] = fs[i]
    <3>1. /\ gs \in Seq(FrameSet)
      BY <1>0, <1>1, <2>3, <2>4, <2>5, FrameFacts, AddrsDiffer
    <3>2. \A i \in 1 .. n : fs[i] \in FrameSet
      BY <1>0, <2>4, <2>5, LenFacts
    <3>3. Len(gs) = n /\ gs[n].va = fs[n].va /\ \A i \in 1 .. n - 1 : gs[i] = fs[i]
      BY <1>0, <2>4, <2>5, <3>2 DEF FrameSet
    <3>4. fs \in Seq(FrameSet) /\ fs # <<>> /\ Len(fs) = n
      BY <1>0, <1>1, <2>4, <2>5
    <3>5. Last(fs) = fs[n]
      BY <3>4, LenFacts
    <3>6. gs # <<>> /\ Last(gs) = gs[n]
      BY <2>4, <3>1, <3>3, LenFacts
    <3> QED
      BY <3>1, <3>3, <3>5, <3>6
  <2>10. Activations'[t] = Front(Activations[t]) \o <<TopOf(t)'>>
    <3>1. /\ Len(frames'[t]) = Len(frames[t])
          /\ \A i \in 1 .. Len(frames[t]) - 1 : frames'[t][i] = frames[t][i]
      BY <2>4, <2>5, <2>8, <2>9
    <3> QED
      BY <1>1, <3>1, ReplaceView
  <2>11. Activations' = [Activations EXCEPT ![t] = Activations'[t]]
    BY <1>1, <2>8, OneView
  <2>12. TopOf(t) = [va |-> Last(fs).va, phase |-> "body", onRet |-> TRUE]
    <3>1. TopPhase(t) = "body"
      BY <1>1, ViewOfTop
    <3> QED
      BY <2>1, <2>5, <3>1 DEF TopOf
  <2>13. TopOf(t)' = [va |-> TopOf(t).va, phase |-> "exit", onRet |-> FALSE]
    <3>1. IsStopped(t)'
      BY <2>3, <2>8 DEF IsStopped, InStub
    <3>2. Entered(t)'
      BY <2>8 DEF StopInv, ThreadInv, InHook, InStub
    <3>3. Last(gs).ret # ReturnAddr
      BY <2>8, <3>2, AddrsDiffer DEF Entered
    <3>4. TopOf(t)' = [va |-> Last(fs).va, phase |-> "exit", onRet |-> FALSE]
      BY <2>8, <2>9, <3>1, <3>3 DEF TopOf, TopPhase
    <3> QED
      BY <2>12, <3>4
  <2>14. PICK top : top = TopOf(t)
    OBVIOUS
  <2>15. /\ Activations[t] # <<>> /\ User!Last(Activations[t]) = top
         /\ top.phase = "body" /\ top.onRet
    BY <1>1, <1>2, <2>12, <2>14, UserSeq
  <2>16. Activations'[t] = User!Front(Activations[t]) \o <<[va |-> top.va, phase |-> "exit", onRet |-> FALSE]>>
    BY <2>10, <2>13, <2>14, UserSeq
  <2>17. User!Leave(t)
    BY <1>1, <2>11, <2>15, <2>16 DEF User!Leave
  <2> QED
    BY <2>17 DEF User!Next
<1> QED
  BY <1>3, <1>4

\* HookLLReturnStub: the function is to stop again; it was before the return address said so.
LEMMA UserStub ==
    ASSUME StopInv, StopInv', HeldInv, NEW t \in Threads, UNCHANGED serverVars, ReturnStub(t)
    PROVE  UNCHANGED User!vars
<1>0. t \in AppThreads /\ frames \in [AppThreads -> Seq(FrameSet)] /\ Threads \subseteq AppThreads
      /\ frames[t] \in Seq(FrameSet)
      /\ tpc \in [AppThreads -> InStub \cup {"run", "retstub", "done", "wild"}]
  BY DEF StopInv, TypeOK, ThreadTypeOK, FrameSet, AppThreads
<1>1. /\ tpc[t] = "retstub" /\ ~IsStopped(t) /\ InHook(t)
      /\ Shape(t) /\ Shape(t)' /\ \A s \in Threads : Shape(s) /\ Shape(s)'
      /\ UNCHANGED Decided
  BY ShapeFacts, ShapeFactsNext, DecidedSame DEF Shapes, ReturnStub, IsStopped, InStub, InHook,
     serverVars, monitorVars
<1>2. frames[t] # <<>> /\ pHook[t] \in hooks
  BY <1>1, HeldHookExists DEF StopInv, ThreadInv, Entered
<1>3. PICK n \in Nat : n = Len(frames[t]) /\ n # 0
  BY <1>0, <1>2, LenFacts
<1>4. PICK fs, gs : fs = frames[t] /\ gs = [fs EXCEPT ![n].ret = ReturnAddr]
  OBVIOUS
<1>5. /\ frames' = [frames EXCEPT ![t] = gs] /\ tpc' = [tpc EXCEPT ![t] = "run"] /\ UNCHANGED isRet
  BY <1>0, <1>2, <1>3, <1>4 DEF ReturnStub
<1>6. /\ frames'[t] = gs /\ tpc'[t] = "run"
      /\ \A s \in Threads : s # t =>
            frames'[s] = frames[s] /\ tpc'[s] = tpc[s] /\ isRet'[s] = isRet[s]
  BY <1>0, <1>5
<1>7. /\ Len(gs) = n /\ Last(gs).va = Last(fs).va /\ Last(gs).ret = ReturnAddr
      /\ \A i \in 1 .. n - 1 : gs[i] = fs[i]
  <2>1. fs \in Seq(FrameSet) /\ fs # <<>> /\ Len(fs) = n
    BY <1>0, <1>2, <1>3, <1>4
  <2>2. gs \in Seq(FrameSet)
    BY <1>4, <2>1, FrameFacts, AddrsDiffer
  <2>3. \A i \in 1 .. n : fs[i] \in FrameSet
    BY <2>1, LenFacts
  <2>4. /\ Len(gs) = n /\ gs[n].va = fs[n].va /\ gs[n].ret = ReturnAddr
        /\ \A i \in 1 .. n - 1 : gs[i] = fs[i]
    BY <1>3, <1>4, <2>1, <2>3 DEF FrameSet
  <2>5. Last(fs) = fs[n]
    BY <2>1, LenFacts
  <2>6. gs # <<>> /\ Last(gs) = gs[n]
    BY <1>3, <2>2, <2>4, LenFacts
  <2> QED
    BY <2>4, <2>5, <2>6
<1>8. Activations'[t] = Front(Activations[t]) \o <<TopOf(t)'>>
  <2>1. /\ Len(frames'[t]) = Len(frames[t])
        /\ \A i \in 1 .. Len(frames[t]) - 1 : frames'[t][i] = frames[t][i]
    BY <1>3, <1>4, <1>6, <1>7
  <2> QED
    BY <1>1, <1>2, <2>1, ReplaceView
<1>9. TopOf(t)' = TopOf(t)
  <2>1. TopOf(t) = [va |-> Last(fs).va, phase |-> "body", onRet |-> TRUE]
    BY <1>1, <1>4, ViewOfTop DEF TopOf
  <2>2. TopPhase(t)' = "body"
    BY <1>6 DEF TopPhase, IsStopped, InStub
  <2>3. TopOf(t)' = [va |-> Last(fs).va, phase |-> "body", onRet |-> TRUE]
    BY <1>6, <1>7, <2>2 DEF TopOf
  <2> QED
    BY <2>1, <2>3
<1>10. Activations'[t] = Activations[t]
  <2>1. Activations[t] # <<>> /\ Last(Activations[t]) = TopOf(t)
    BY <1>2, ViewOfTop
  <2>2. Activations[t] \in Seq(ActSet)
    BY <1>1 DEF Shape
  <2> QED
    BY <1>8, <1>9, <2>1, <2>2, FrontLast
<1>11. Activations' = [Activations EXCEPT ![t] = Activations'[t]]
  BY <1>1, <1>6, OneView
<1>12. Activations' = Activations
  <2>1. Activations = [s \in Threads |-> Activations[s]]
    BY DEF Activations
  <2> QED
    BY <1>10, <1>11, <2>1
<1> QED
  BY <1>1, <1>12 DEF User!vars

\* Within the stubs and back from them without a stop.
LEMMA UserHit ==
    ASSUME StopInv, StopInv', HeldInv', IgnoreInv, NEW t \in AppThreads, UNCHANGED serverVars,
           OnHookIgnore(t) \/ OnHookPass(t) \/ OnHookWait(t) \/ HookLLHit(t)
    PROVE  UNCHANGED User!vars
<1>1. UNCHANGED <<frames, isRet, Decided>>
  BY DecidedSame DEF OnHookIgnore, OnHookPass, OnHookWait, HookLLHit, threadVars, serverVars, monitorVars
<1>2. \A s \in AppThreads : s # t => tpc'[s] = tpc[s]
  BY DEF OnHookIgnore, OnHookPass, OnHookWait, HookLLHit, StopInv, TypeOK, ThreadTypeOK, threadVars
<1>3. ASSUME t \in Threads
      PROVE  /\ TopPhase(t)' = TopPhase(t)
             /\ tpc'[t] # "retstub" /\ tpc[t] # "retstub"
  <2>1. tpc \in [AppThreads -> InStub \cup {"run", "retstub", "done", "wild"}]
    BY DEF StopInv, TypeOK, ThreadTypeOK
  <2>2. CASE OnHookIgnore(t)
    <3>1. t \in Internal /\ tpc[t] = "onhook" /\ tpc'[t] \in {"run", "wild"}
      BY <2>1, <2>2 DEF OnHookIgnore, IgnoredThread
    <3> QED
      BY <3>1 DEF TopPhase, IsStopped
  <2>3. CASE OnHookPass(t) \/ HookLLHit(t)
    <3>1. t # InitThread
      BY <1>3, ThreadAssumption
    <3>2. tpc[t] \in InStub /\ tpc'[t] \in InStub
      BY <2>1, <2>3, <3>1 DEF OnHookPass, HookLLHit, InStub
    <3> QED
      BY <1>1, <3>2 DEF TopPhase, IsStopped, InStub
  <2>4. CASE OnHookWait(t)
    <3>1. tpc[t] = "onhook" /\ UNCHANGED tpc
      BY <2>4 DEF OnHookWait, threadVars
    <3> QED
      BY <1>1, <3>1 DEF TopPhase, IsStopped
  <2> QED
    BY <2>2, <2>3, <2>4
<1>4. \A s \in Threads : /\ TopPhase(s)' = TopPhase(s)
                         /\ tpc'[s] = "retstub" <=> tpc[s] = "retstub"
  <2>1. ASSUME NEW s \in Threads, s # t
        PROVE  /\ TopPhase(s)' = TopPhase(s)
               /\ tpc'[s] = "retstub" <=> tpc[s] = "retstub"
    BY <1>1, <1>2, <2>1 DEF TopPhase, IsStopped, AppThreads
  <2> QED
    BY <1>3, <2>1
<1> QED
  BY <1>1, <1>4, UserSame

LEMMA UserDecides ==
    ASSUME StopInv, StopInv', DataInv', IgnoreInv, InitialAnswer \/ HandlerAnswer \/ UnknownAnswer
    PROVE  [User!Next]_User!vars
<1>1. /\ mon \in {"initial", "handler"} /\ mon' = "resume" /\ UNCHANGED <<threadVars, hookData>>
      /\ action' \in User!Decisions
  BY DEF InitialAnswer, HandlerAnswer, UnknownAnswer, User!Decisions, victimVars
<1>2. UNCHANGED Activations
  BY <1>1 DEF Activations, Activation, PhaseOf, IsStopped, threadVars
<1>3. PICK t \in AppThreads : t = hookData.thread
  BY DEF StopInv, TypeOK, ServerTypeOK
<1>4. CASE t \in Threads
  <2>1. tpc[t] = "spin"
    <3>1. t = hitParams.thread /\ t # InitThread
      BY <1>1, <1>3, <1>4, ThreadAssumption DEF StopInv, HitInv, Reporting
    <3>2. hitParams.hook # NoHook
      BY <3>1 DEF StopInv, HitInv
    <3> QED
      BY <1>1, <3>1, <3>2 DEF StopInv, HitInv, Reporting
  <2>2. IsStopped(t)
    BY <2>1 DEF IsStopped, InStub, IgnoreInv
  <2>3. User!Stopped(t)
    BY <1>4, <2>2, ViewOfTop
  <2>4. /\ Decided[t] = "none"
        /\ Decided' = [Decided EXCEPT ![t] = action']
    BY <1>1, <1>3, <1>4 DEF Decided
  <2>5. User!Decide(t, action')
    BY <1>2, <2>3, <2>4 DEF User!Decide
  <2> QED
    BY <1>1, <1>4, <2>5 DEF User!Next
<1>5. CASE t \notin Threads
  <2>1. UNCHANGED Decided
    BY <1>1, <1>3, <1>5 DEF Decided
  <2> QED
    BY <1>2, <2>1 DEF User!vars
<1> QED
  BY <1>4, <1>5

LEMMA UserResume ==
    ASSUME StopInv, StopInv', DataInv, QuietInv, HeldInv, IgnoreInv, MonitorResume
    PROVE  [User!Next]_User!vars
<1> USE DEF hookVars, hitVars, threadVars, monitorVars, opVars, clientVars
<1>1. mon = "resume" /\ mon' = "listen" /\ action \in {"Go", "Skip", "BreakOnReturn"}
  BY DEF MonitorResume, DataInv, StopInv, TypeOK, ServerTypeOK
<1>2. CASE hookData.hook = NoHook
  <2>1. UNCHANGED threadVars /\ hookData.thread \notin Threads
    BY <1>2, ResumeFacts, ThreadAssumption
  <2>2. UNCHANGED Decided
    BY <1>1, <2>1 DEF Decided
  <2>3. UNCHANGED Activations
    BY <2>1 DEF Activations, Activation, PhaseOf, IsStopped
  <2> QED
    BY <2>2, <2>3 DEF User!vars
<1>3. CASE hookData.hook # NoHook
  <2>1. PICK t \in Threads : t = hookData.thread
    BY <1>3, ResumeFacts
  <2>2. /\ tpc[t] = "spin" /\ event[t] = "initial" /\ pHook[t] = hookData.hook /\ Entered(t)
        /\ hookData.hook \in RealHooks /\ t \in AppThreads /\ Reporting
        /\ isRet[t] = hookData.isRet
    BY <1>1, <1>3, <2>1, ResumeFacts DEF AppThreads, Reporting
  <2>3. /\ frames \in [AppThreads -> Seq(FrameSet)] /\ frames[t] \in Seq(FrameSet)
        /\ tpc \in [AppThreads -> InStub \cup {"run", "retstub", "done", "wild"}]
        /\ isRet[t] \in BOOLEAN /\ Threads \subseteq AppThreads
    BY <2>2 DEF StopInv, TypeOK, ThreadTypeOK, FrameSet, AppThreads
  <2>4. IsStopped(t) /\ Shape(t) /\ Shape(t)' /\ \A s \in Threads : Shape(s) /\ Shape(s)'
    BY <2>2, ShapeFacts, ShapeFactsNext DEF IsStopped, InStub, IgnoreInv, Shapes
  <2>5. PICK top : top = TopOf(t)
    OBVIOUS
  <2>6. /\ User!Stopped(t) /\ Activations[t] # <<>> /\ User!Last(Activations[t]) = top
        /\ top = [va |-> Last(frames[t]).va, onRet |-> FALSE,
                  phase |-> IF isRet[t] THEN "exit" ELSE "entry"]
        /\ frames[t] # <<>>
    BY <2>4, <2>5, ViewOfTop, UserSeq
  <2>7. /\ Decided[t] = action /\ action # "none"
        /\ Decided' = [Decided EXCEPT ![t] = "none"]
    BY <1>1, <2>1 DEF Decided
  <2>8. hookData.tramp # NoHook => hookData.tramp \in hooks
    BY <2>2 DEF DataInv, QuietInv
  <2>9. /\ Context(t) \in {"leave", "retstub", "va", "trampoline"}
        /\ Context(t) = "leave" <=> isRet[t] \/ action = "Skip"
        /\ Context(t) = "retstub" => action = "BreakOnReturn"
        /\ Context(t) \in {"va", "trampoline"} => action = "Go"
    BY <1>1, <2>2, <2>3, <2>8 DEF Context
  <2>10. CASE Context(t) = "leave"
    <3>1. /\ frames' = [frames EXCEPT ![t] = Front(@)] /\ tpc' = [tpc EXCEPT ![t] = "run"]
          /\ UNCHANGED isRet
      BY <1>3, <2>1, <2>10 DEF MonitorResume
    <3>2. /\ frames'[t] = Front(frames[t]) /\ tpc'[t] = "run"
          /\ \A s \in Threads : s # t =>
                frames'[s] = frames[s] /\ tpc'[s] = tpc[s] /\ isRet'[s] = isRet[s]
      BY <2>2, <2>3, <3>1
    <3>3. Activations'[t] = User!Front(Activations[t])
      BY <2>4, <2>6, <3>2, DropView, UserSeq
    <3>4. Activations' = [Activations EXCEPT ![t] = Activations'[t]]
      BY <2>4, <3>2, OneView
    <3>5. top.phase = "exit" \/ Decided[t] = "Skip"
      BY <2>6, <2>7, <2>9, <2>10
    <3>6. User!Resume(t)
      BY <2>6, <2>7, <3>3, <3>4, <3>5 DEF User!Resume
    <3> QED
      BY <3>6 DEF User!Next
  <2>11. ASSUME isRet[t] = FALSE, action \in {"Go", "BreakOnReturn"}, UNCHANGED frames,
                tpc'[t] = IF action = "Go" THEN "run" ELSE "retstub",
                \A s \in Threads : s # t => tpc'[s] = tpc[s] /\ isRet'[s] = isRet[s]
         PROVE  [User!Next]_User!vars
    <3>1. Activations'[t] = User!Front(Activations[t]) \o <<TopOf(t)'>>
      BY <2>4, <2>6, <2>11, ReplaceView, UserSeq
    <3>2. Activations' = [Activations EXCEPT ![t] = Activations'[t]]
      BY <2>4, <2>11, OneView
    <3>3. top.phase # "exit" /\ Decided[t] # "Skip" /\ top.va = Last(frames[t]).va
      BY <2>6, <2>7, <2>11
    <3>4. TopOf(t)' = [va |-> top.va, phase |-> "body", onRet |-> Decided[t] = "BreakOnReturn"]
      <4>1. Last(frames'[t]).ret # ReturnAddr
        BY <2>2, <2>11, AddrsDiffer DEF Entered
      <4>2. TopPhase(t)' = "body"
        BY <2>11 DEF TopPhase, IsStopped, InStub
      <4>3. CASE action = "Go"
        BY <2>7, <2>11, <3>3, <4>1, <4>2, <4>3 DEF TopOf
      <4>4. CASE action = "BreakOnReturn"
        BY <2>7, <2>11, <3>3, <4>1, <4>2, <4>4 DEF TopOf
      <4> QED
        BY <2>11, <4>3, <4>4
    <3>5. User!Resume(t)
      BY <2>6, <2>7, <3>1, <3>2, <3>3, <3>4 DEF User!Resume
    <3> QED
      BY <3>5 DEF User!Next
  <2>12. CASE Context(t) \in {"retstub", "trampoline"}
    <3>1. /\ tpc' = [tpc EXCEPT ![t] = IF Context(t) = "trampoline" THEN "run" ELSE "retstub"]
          /\ UNCHANGED <<frames, isRet>>
      BY <1>3, <2>1, <2>12 DEF MonitorResume
    <3>2. /\ tpc'[t] = IF action = "Go" THEN "run" ELSE "retstub"
          /\ \A s \in Threads : s # t => tpc'[s] = tpc[s]
      BY <2>2, <2>3, <2>9, <2>12, <3>1
    <3>3. isRet[t] = FALSE /\ action \in {"Go", "BreakOnReturn"}
      BY <2>3, <2>9, <2>12
    <3> QED
      BY <2>11, <3>1, <3>2, <3>3
  <2>13. CASE Context(t) = "va"
    <3>1. PICK va \in VAs : va = hookData.hook.va
      BY <2>2, NoHookFacts
    <3>2. Arrive(t, va) /\ UNCHANGED frames
      BY <1>3, <2>1, <2>13, <3>1 DEF MonitorResume
    <3>3. /\ tpc'[t] \in {"run", "onhook"}
          /\ tpc'[t] = "onhook" => isRet'[t] = FALSE
          /\ \A s \in AppThreads : s # t => tpc'[s] = tpc[s] /\ isRet'[s] = isRet[s]
      BY <3>2, ArriveFacts, StopTypes DEF StopInv
    <3>4. isRet[t] = FALSE /\ action = "Go"
      BY <2>3, <2>9, <2>13
    <3>5. CASE tpc'[t] = "run"
      BY <2>3, <2>11, <3>2, <3>3, <3>4, <3>5
    <3>6. CASE tpc'[t] = "onhook"
      <4>1. t \notin Internal
        BY <2>4 DEF IsStopped
      <4>2. TopOf(t)' = [va |-> Last(frames[t]).va, onRet |-> FALSE, phase |-> "entry"]
        <5>1. Last(frames'[t]).ret # ReturnAddr /\ Last(frames'[t]) = Last(frames[t])
          BY <2>2, <3>2, AddrsDiffer DEF Entered
        <5>2. TopPhase(t)' = "entry"
          BY <3>3, <3>6, <4>1 DEF TopPhase, IsStopped, InStub
        <5> QED
          BY <3>6, <5>1, <5>2 DEF TopOf
      <4>3. TopOf(t)' = TopOf(t)
        BY <2>5, <2>6, <3>4, <4>2
      <4>4. Activations'[t] = Activations[t]
        BY <2>4, <3>2, <4>3, SameView
      <4>5. Activations' = [Activations EXCEPT ![t] = Activations'[t]]
        BY <2>3, <2>4, <3>2, <3>3, OneView
      <4>6. UNCHANGED Activations
        <5>1. Activations = [s \in Threads |-> Activations[s]]
          BY DEF Activations
        <5> QED
          BY <4>4, <4>5, <5>1
      <4>7. User!StopAgain(t)
        BY <2>6, <2>7, <3>4, <4>6 DEF User!StopAgain
      <4> QED
        BY <4>7 DEF User!Next
    <3> QED
      BY <3>3, <3>5, <3>6
  <2> QED
    BY <2>9, <2>10, <2>12, <2>13
<1> QED
  BY <1>2, <1>3

LEMMA InitUser == Init => User!Init
<1> SUFFICES ASSUME Init PROVE User!Init
  OBVIOUS
<1>0. StopInv /\ Shapes
  BY InitStop, ShapeFacts
<1>1. Decided = [t \in Threads |-> "none"]
  BY DEF Init, Decided
<1>2. ASSUME NEW t \in Threads
      PROVE  Activations[t] \in {<<>>} \cup
                 {<<[va |-> va, phase |-> "entry", onRet |-> FALSE]>> : va \in VAs}
  <2>1. /\ Shape(t) /\ t \in AppThreads /\ isRet[t] = FALSE
    BY <1>0 DEF Shapes, Init, VictimInit, AppThreads
  <2>2. CASE frames[t] = <<>>
    BY <1>0, <2>2, ViewOfTop
  <2>3. CASE frames[t] # <<>>
    <3>1. PICK e \in FrameSet : e = [va |-> EntryPoint, ret |-> CallerAddr]
      BY FrameFacts, AddressAssumption
    <3>2. /\ frames[t] = <<e>> /\ t = Main /\ tpc[t] = "onhook"
      BY <2>1, <2>3, <3>1, ThreadAssumption DEF Init, VictimInit
    <3>3. IsStopped(t)
      BY <3>2, ThreadAssumption DEF IsStopped, InStub
    <3>4. TopOf(t) = [va |-> Last(frames[t]).va, onRet |-> FALSE, phase |-> "entry"]
      BY <1>0, <2>1, <3>3, ViewOfTop
    <3>5. <<e>> \in Seq(FrameSet) /\ Len(<<e>>) = 1 /\ <<e>>[1] = e /\ <<e>> # <<>>
      OBVIOUS
    <3>6. Last(<<e>>) = e
      BY <3>5, LenFacts
    <3>7. PICK top \in ActSet : /\ top = TopOf(t)
                               /\ top = [va |-> EntryPoint, phase |-> "entry", onRet |-> FALSE]
      <4>1. Last(frames[t]).va = EntryPoint
        BY <3>1, <3>2, <3>6
      <4>2. TopOf(t) = [va |-> EntryPoint, phase |-> "entry", onRet |-> FALSE]
        BY <3>4, <4>1
      <4>3. [va |-> EntryPoint, phase |-> "entry", onRet |-> FALSE] \in ActSet
        BY AddressAssumption DEF ActSet
      <4> QED
        BY <4>2, <4>3
    <3>8. PICK as : as = Activations[t]
      OBVIOUS
    <3>9. as \in Seq(ActSet) /\ Len(as) = 1 /\ as[1] = top
      BY <2>1, <2>3, <3>2, <3>5, <3>7, <3>8 DEF Shape
    <3>10. <<top>> \in Seq(ActSet) /\ Len(<<top>>) = 1 /\ <<top>>[1] = top
      OBVIOUS
    <3>11. ASSUME NEW i \in 1 .. 1 PROVE as[i] = <<top>>[i]
      <4>1. i = 1
        OBVIOUS
      <4> QED
        BY <3>9, <3>10, <4>1
    <3>12. as = <<top>>
      BY <3>9, <3>10, <3>11, SeqEqual
    <3> QED
      BY <3>7, <3>8, <3>12, AddressAssumption
  <2> QED
    BY <2>2, <2>3
<1>3. Activations = [t \in Threads |-> Activations[t]]
  BY DEF Activations
<1> QED
  BY <1>1, <1>2, <1>3 DEF User!Init

UserInv == StopInv /\ TableInv /\ DataInv /\ QuietInv /\ HeldInv /\ IgnoreInv

LEMMA NextUser == UserInv /\ UserInv' /\ [Next]_vars => [User!Next]_User!vars
<1> SUFFICES ASSUME UserInv, UserInv', [Next]_vars PROVE [User!Next]_User!vars
  OBVIOUS
<1> USE DEF UserInv
<1>1. CASE UNCHANGED <<frames, tpc, isRet, Decided>>
  <2>1. \A t \in Threads : TopPhase(t)' = TopPhase(t)
    BY <1>1 DEF TopPhase, IsStopped
  <2> QED
    BY <1>1, <2>1, UserSame
<1>2. CASE UNCHANGED vars
  BY <1>1, <1>2, DecidedSame DEF vars, victimVars, serverVars, monitorVars, threadVars
<1>3. CASE \E t \in Threads, va \in VAs : Call(t, va) /\ UNCHANGED serverVars
  BY <1>3, UserCall
<1>4. CASE \E t \in Threads : (Return(t) \/ ReturnHook(t)) /\ UNCHANGED serverVars
  BY <1>4, UserReturn
<1>5. CASE \E t \in Threads : ReturnStub(t) /\ UNCHANGED serverVars
  BY <1>5, UserStub
<1>6. CASE \E t \in AppThreads : /\ OnHookIgnore(t) \/ OnHookPass(t) \/ OnHookWait(t) \/ HookLLHit(t)
                                 /\ UNCHANGED serverVars
  BY <1>6, UserHit
<1>7. CASE /\ \/ HitSpuriousWakeup \/ WaitForHook \/ WaitForHookAgain \/ WaitForHookHit
              \/ WaitForHookEvent
           /\ UNCHANGED serverVars
  BY <1>1, <1>7, DecidedSame DEF HitSpuriousWakeup, WaitForHook, WaitForHookAgain, WaitForHookHit,
     WaitForHookEvent, threadVars, serverVars, monitorVars
<1>8. CASE \/ MonitorListen \/ MonitorRead \/ MonitorListed \/ MonitorUnlisted \/ MonitorUnhook
           \/ MonitorNotify
  <2>1. mon # "resume" /\ mon' # "resume" /\ UNCHANGED threadVars
    BY <1>8 DEF MonitorListen, MonitorRead, MonitorListed, MonitorUnlisted, MonitorUnhook,
       MonitorNotify, victimVars
  <2> QED
    BY <1>1, <2>1, DecidedSame DEF threadVars
<1>9. CASE \/ ProxyReady
           \/ \E va \in VAs : \/ BpSet(va) \/ BpClear(va) \/ ServerBpSet(va) \/ VictimHook(va)
                             \/ ServerList(va) \/ BpDone(va)
  <2>1. UNCHANGED <<threadVars, mon, hookData, action>>
    BY <1>9 DEF ProxyReady, BpSet, BpClear, ServerBpSet, VictimHook, ServerList, BpDone, victimVars,
       monitorVars
  <2> QED
    BY <1>1, <2>1, DecidedSame DEF threadVars
<1>10. CASE InitialAnswer \/ HandlerAnswer \/ UnknownAnswer
  BY <1>10, UserDecides
<1>11. CASE MonitorResume
  BY <1>11, UserResume
<1> QED
  BY <1>2, <1>3, <1>4, <1>5, <1>6, <1>7, <1>8, <1>9, <1>10, <1>11 DEF Next

\* For any number of threads and any depth of calls, a breakpoint means what BpAction says
\* (Breakpoint.py): a stopped thread stays where it is until the client has answered this very
\* stop; Go runs the function, Skip leaves it, BreakOnReturn runs it and stops once more, with
\* nested and recursive calls each getting their own return (hookll.x64.asm 181-237).  This is
\* the refinement of HookActions by hooks, stubs, handshake and monitor; breakpoints are set
\* during the initial break and in handlers only.
THEOREM BreakpointsImplementHookActions == ~LateBpSet => (Spec => ImplementsHookActions)
<1> SUFFICES ASSUME ~LateBpSet PROVE Spec => ImplementsHookActions
  OBVIOUS
<1>1. Init => UserInv /\ User!Init
  BY InitStop, InitTable, InitQuiet, InitIgnore, InitUser DEF UserInv
<1>2. UserInv /\ [Next]_vars => UserInv'
  BY NextStop, NextTable, NextData, NextQuiet, NextHeld, NextIgnore DEF UserInv
<1>3. UserInv /\ UserInv' /\ [Next]_vars => [User!Next]_User!vars
  BY NextUser
<1> QED
  BY <1>1, <1>2, <1>3, PTL DEF Spec, ImplementsHookActions, User!Spec
============================================================================
